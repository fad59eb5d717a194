--------------------------- MODULE Lifecycle_proofs ---------------------------
(***************************************************************************)
(* What the upgrade lifecycle promises of the ledger against the chain,    *)
(* for any proxies, commits and facets: what is recorded verifies, whoever *)
(* votes and whatever fails, and, where the operator keeps README.md's     *)
(* order, the proxies go from the behaviour of one commit to that of       *)
(* another in one step, with every delegate they had on record; and check  *)
(* foretells what deploy then does.                                        *)
(***************************************************************************)
EXTENDS Upgrade_proofs, CheckLedger, Integers, WellFoundedInduction

-----------------------------------------------------------------------------
(* What lands once stays.                                                  *)

(* What is on chain, or is to be, still is after the step.                 *)
Carries(onchain, creations, onchain_after, creations_after) ==
  \A a \in Addresses : \A c :
    c # NoCode /\ Lands(a, c, onchain, creations) => Lands(a, c, onchain_after, creations_after)

(* A record that holds goes on holding.                                    *)
LEMMA StateCarried ==
  ASSUME NEW p \in Proxies, NEW state \in DeploymentState, WellFormed(state),
         NEW onchain, NEW creations, NEW onchain_after, NEW creations_after,
         Carries(onchain, creations, onchain_after, creations_after),
         StateLands(p, state, onchain, creations)
  PROVE  StateLands(p, state, onchain_after, creations_after)
<1>1. ASSUME NEW f \in FacetsOf(state)
      PROVE  FacetLands(p, state.gitCommit, f, state.facets[f], onchain_after, creations_after)
  <2>1. f \in Facets /\ state.facets[f] # NoRecord
    BY <1>1 DEF FacetsOf
  <2>2. state.facets[f].address \in Addresses
    BY <2>1, RecordedFilledIn
  <2>3. FacetCode(state.facets[f].initcodeHash) # NoCode
    BY DEF FacetCode, NoCode
  <2>4. QED
    BY <1>1, <2>2, <2>3 DEF StateLands, FacetLands, Carries
<1>2. SelectorsLand(state, onchain_after, creations_after)
  <2>1. state.selectors # ZERO_ADDRESS => state.selectors \in Addresses
    BY DEF DeploymentState, MaybeAddress
  <2>2. QED
    BY <2>1 DEF StateLands, SelectorsLand, Carries
<1>3. QED
  BY <1>1, <1>2 DEF StateLands

(* So does the record of a former delegate.                                *)
LEMMA HistoryCarried ==
  ASSUME NEW p \in Proxies, NEW entry, NEW onchain, NEW onchain_after,
         Carries(onchain, <<>>, onchain_after, <<>>),
         HistoryHolds(p, entry, onchain)
  PROVE  HistoryHolds(p, entry, onchain_after)
<1> SUFFICES ASSUME NEW a \in Archived(entry)
             PROVE  EntryHolds(p, a, entry.history[a], onchain_after) /\ onchain_after[a] # NoCode
  BY DEF HistoryHolds
<1>1. a \in Addresses /\ onchain[a] # NoCode
  BY DEF HistoryHolds, Archived
<1>2. onchain_after[a] = onchain[a]
  BY <1>1 DEF Carries, Lands
<1>3. QED
  BY <1>1, <1>2 DEF HistoryHolds, EntryHolds

(* With nothing planned, landing is being on chain.                        *)
LEMMA LandsNow ==
  ASSUME NEW a, NEW c, NEW onchain, Lands(a, c, onchain, <<>>)
  PROVE  onchain[a] = c
BY DEF Lands

(* What is on chain needs no planning.                                     *)
LEMMA LandsAnyway ==
  ASSUME NEW onchain, NEW creations
  PROVE  Carries(onchain, <<>>, onchain, creations)
BY DEF Carries, Lands

(* A creation that goes out under its nonce puts its code there, where     *)
(* there was none.                                                         *)
LEMMA SendCarries ==
  ASSUME IInv, Send, ~run'.reverted
  PROVE  /\ Carries(code, <<>>, code', <<>>)
         /\ Carries(code, run.creations, code', run'.creations)
<1>1. /\ run \in Run /\ run.creations \in Seq(Creation) /\ run.creations # <<>>
      /\ Head(run.creations).address = nonce /\ code \in [Addresses -> Code] /\ nonce \in Nat
  BY DEF IInv, TypeOK, Run, Send
<1>2. /\ code' = [code EXCEPT ![nonce] = Head(run.creations).code]
      /\ run'.creations = Tail(run.creations)
  BY <1>1 DEF Send, Run
<1>3. \A a \in Addresses : code[a] # NoCode => code'[a] = code[a]
  BY <1>1, <1>2 DEF IInv, Unwritten, Addresses
<1>4. Carries(code, <<>>, code', <<>>)
  BY <1>3 DEF Carries, Lands
<1>5. ASSUME NEW a \in Addresses, NEW c, c # NoCode, Lands(a, c, code, run.creations)
      PROVE  Lands(a, c, code', run'.creations)
  <2>1. CASE code[a] = c
    BY <1>3, <1>5, <2>1 DEF Lands
  <2>2. ASSUME NEW i \in DOMAIN run.creations, run.creations[i].address = a, run.creations[i].code = c
        PROVE  Lands(a, c, code', run'.creations)
    <3>1. CASE i = 1
      BY <1>1, <1>2, <2>2, <3>1 DEF Lands
    <3>2. CASE i # 1
      <4>1. i - 1 \in DOMAIN Tail(run.creations) /\ Tail(run.creations)[i - 1] = run.creations[i]
        BY <1>1, <2>2, <3>2
      <4>2. QED
        BY <1>2, <2>2, <4>1 DEF Lands
    <3>3. QED
      BY <3>1, <3>2
  <2>3. QED
    BY <1>5, <2>1, <2>2 DEF Lands
<1>6. QED
  BY <1>4, <1>5 DEF Carries

(* Nothing on chain is overwritten by a creation.                          *)
LEMMA SendKeepsCode ==
  ASSUME IInv, Send
  PROVE  Carries(code, <<>>, code', <<>>)
<1>1. run.creations \in Seq(Creation) /\ run.creations # <<>> /\ nonce \in Nat
  BY DEF IInv, TypeOK, Run, Send
<1>2. Head(run.creations) \in Creation
  BY <1>1
<1>3. nonce \in Addresses /\ code[nonce] = NoCode
  BY <1>1, <1>2 DEF Creation, Send, IInv, Unwritten, Addresses
<1>4. QED
  BY <1>3 DEF Send, Carries, Lands, IInv, TypeOK

(* Planning one more creation takes none back, and the new one lands.      *)
LEMMA ReserveCarries ==
  ASSUME IInv, CanCreate, NEW c \in Code
  PROVE  /\ Carries(code, run.creations, code, Reserve(c))
         /\ Lands(NextNonce, c, code, Reserve(c))
BY ReserveType DEF Carries, Lands

-----------------------------------------------------------------------------
(* Parts of the records a step leaves alone.                               *)

(* The ledger's records hold as long as the file and the code stay.        *)
LEMMA LedgerKept ==
  ASSUME IInv, LedgerHolds, ledger' = ledger, Carries(code, <<>>, code', <<>>)
  PROVE  LedgerHolds'
<1> SUFFICES ASSUME NEW p \in Proxies
             PROVE  /\ StateLands(p, ledger[p].current, code', <<>>)
                    /\ StateLands(p, ledger[p].proposed, code', <<>>)
                    /\ HistoryHolds(p, ledger[p], code')
  BY DEF LedgerHolds
<1>1. /\ ledger[p].current \in DeploymentState /\ ledger[p].proposed \in DeploymentState
      /\ WellFormed(ledger[p].current) /\ WellFormed(ledger[p].proposed)
  BY DEF IInv, TypeOK, Entry, RecordsWellFormed
<1>2. QED
  BY <1>1, StateCarried, HistoryCarried DEF LedgerHolds

(* So does what a run has planned to record.                               *)
LEMMA MemoryKept ==
  ASSUME IInv, MemoryLands, run'.ledger = run.ledger,
         ~run'.reverted => ~run.reverted /\ Carries(code, run.creations, code', run'.creations)
  PROVE  MemoryLands'
<1> SUFFICES ASSUME NEW p \in Proxies, ~run'.reverted
             PROVE  StateLands(p, run.ledger[p].proposed, code', run'.creations)
  BY DEF MemoryLands
<1>1. run.ledger[p].proposed \in DeploymentState /\ WellFormed(run.ledger[p].proposed)
  BY DEF IInv, TypeOK, Run, Entry, RecordsWellFormed
<1>2. QED
  BY <1>1, StateCarried DEF MemoryLands

(* And what it keeps for reuse.                                            *)
LEMMA ReusableKept ==
  ASSUME IInv, ReusableLands, run'.run_deployed = run.run_deployed,
         Deploying' /\ (run'.step = "send" => ~run'.reverted) =>
           /\ Deploying /\ (run.step = "send" => ~run.reverted)
           /\ Carries(code, run.creations, code', run'.creations)
  PROVE  ReusableLands'
<1> SUFFICES ASSUME Deploying', run'.step = "send" => ~run'.reverted,
                    NEW h \in Initcodes, run.run_deployed[h] # NoRecord
             PROVE  Lands(run.run_deployed[h].address, FacetCode(h), code', run'.creations)
  BY DEF ReusableLands
<1>1. run.run_deployed[h].address \in Addresses /\ FacetCode(h) # NoCode
  BY DEF IInv, Reusable, FacetCode, NoCode
<1>2. Lands(run.run_deployed[h].address, FacetCode(h), code, run.creations)
  BY DEF ReusableLands
<1>3. QED
  BY <1>1, <1>2 DEF Carries

(* What is on chain stays there when no code appears.                      *)
LEMMA NothingMoves ==
  ASSUME code' = code
  PROVE  Carries(code, <<>>, code', <<>>)
BY DEF Carries, Lands

(* An absent state records nothing that could be missing.                  *)
LEMMA NoStateLands ==
  ASSUME NEW p, NEW onchain, NEW creations
  PROVE  StateLands(p, NoState, onchain, creations)
BY DEF StateLands, SelectorsLand, FacetsOf, NoState

(* A run that ends leaves only the ledger to hold.                         *)
LEMMA IdleRecords ==
  ASSUME LedgerHolds', run' = Idle
  PROVE  RecordsInv'
<1>1. run'.step = "idle" /\ \A p \in Proxies : run'.ledger[p].proposed = NoState
  BY DEF Idle, NoDeployment
<1>2. MemoryLands'
  BY <1>1, NoStateLands DEF MemoryLands
<1>3. PlanLands' /\ ReusableLands' /\ Untouched'
  BY <1>1 DEF PlanLands, ReusableLands, Untouched, Deploying
<1>4. QED
  BY <1>2, <1>3 DEF RecordsInv

-----------------------------------------------------------------------------
(* Planning records only what is there or will be.                         *)

(* What existing_deployment returns for a facet's bytecode is a contract   *)
(* with that bytecode.                                                     *)
LEMMA ReusedLands ==
  ASSUME IInv, RecordsInv, run.step = "facets", NEW f \in Facets,
         ExistingDeployment(f, facet_initcode[run.commit][run.proxy][f]) # NoRecord
  PROVE  FacetLands(run.proxy, run.commit, f, ExistingDeployment(f, facet_initcode[run.commit][run.proxy][f]),
                    code, run.creations)
<1> DEFINE hash == facet_initcode[run.commit][run.proxy][f]
           live == Loaded.current.facets[f]
           staged == Loaded.proposed.facets[f]
<1>1. run.commit \in Commits /\ run.proxy \in Proxies /\ hash \in Initcodes /\ hash # NoHash
  BY SourcesAssumption, NamesAssumption DEF IInv, Planning
<1>2. Loaded.current = ledger[run.proxy].current /\ Loaded.proposed = ledger[run.proxy].proposed
  <2>1. run.proxy >= run.proxy
    BY <1>1 DEF Proxies
  <2>2. QED
    BY <1>1, <2>1 DEF IInv, Memory, RecordsInv, Untouched, Deploying, Loaded
<1>3. ASSUME NEW state \in {ledger[run.proxy].current, ledger[run.proxy].proposed}, state.facets[f].initcodeHash = hash
      PROVE  FacetLands(run.proxy, run.commit, f, state.facets[f], code, run.creations)
  <2>1. f \in FacetsOf(state)
    BY <1>1, <1>3 DEF FacetsOf, NoRecord
  <2>2. Lands(state.facets[f].address, FacetCode(hash), code, <<>>)
    BY <1>1, <1>3, <2>1 DEF RecordsInv, LedgerHolds, StateLands, FacetLands
  <2>3. QED
    BY <1>3, <2>2 DEF FacetLands, Lands
<1>4. run.run_deployed[hash] # NoRecord =>
        FacetLands(run.proxy, run.commit, f, run.run_deployed[hash], code, run.creations)
  BY <1>1 DEF RecordsInv, ReusableLands, Deploying, FacetLands, IInv, Reusable
<1>5. CASE ~run.redeploy_all /\ live.initcodeHash = hash
  BY <1>2, <1>3, <1>5 DEF ExistingDeployment
<1>6. CASE ~(~run.redeploy_all /\ live.initcodeHash = hash) /\ ~run.redeploy_all /\ staged.initcodeHash = hash
  BY <1>2, <1>3, <1>6 DEF ExistingDeployment
<1>7. CASE /\ ~(~run.redeploy_all /\ live.initcodeHash = hash)
           /\ ~(~run.redeploy_all /\ staged.initcodeHash = hash)
  BY <1>4, <1>7 DEF ExistingDeployment
<1>8. QED
  BY <1>5, <1>6, <1>7

(* Planning a facet records a contract that has its bytecode, or will.     *)
LEMMA PlanFacetRecords == IInv /\ RecordsInv /\ PlanFacet => RecordsInv'
<1> SUFFICES ASSUME IInv, RecordsInv, PlanFacet PROVE RecordsInv'
  OBVIOUS
<1> DEFINE f == Source[run.facet]
           hash == facet_initcode[run.commit][run.proxy][f]
           existing == ExistingDeployment(f, hash)
           created == Unread(NextNonce, hash)
<1>1. run \in Run /\ run.step = "facets" /\ run.commit \in Commits /\ run.proxy \in Proxies
  BY DEF IInv, TypeOK, PlanFacet, Planning
<1>2. f \in Facets /\ hash \in Initcodes /\ f \in SourceFacets
  BY <1>1, SourceType, SourcesAssumption DEF PlanFacet, SourceFacets
<1>3. UNCHANGED <<ledger, code>>
  BY DEF PlanFacet, chain
<1>4. PICK rec, next_nonce, creations :
        /\ FacetLands(run.proxy, run.commit, f, rec, code, creations)
        /\ rec.address \in Addresses
        /\ Carries(code, run.creations, code, creations)
        /\ run' = [run EXCEPT !.facet = @ + 1,
                              !.proposed_facets = [@ EXCEPT ![f] = rec],
                              !.run_deployed = SetDefault(@, hash, rec),
                              !.next_nonce = next_nonce,
                              !.creations = creations]
  <2>1. CASE existing # NoRecord
    <3>1. FacetLands(run.proxy, run.commit, f, existing, code, run.creations)
      BY <1>1, <1>2, <2>1, ReusedLands
    <3>2. existing.address \in Addresses
      BY <1>1, <1>2, <2>1, ExistingType
    <3>3. Carries(code, run.creations, code, run.creations)
      BY DEF Carries
    <3>4. run' = [run EXCEPT !.facet = @ + 1,
                             !.proposed_facets = [@ EXCEPT ![f] = existing],
                             !.run_deployed = SetDefault(@, hash, existing),
                             !.next_nonce = run.next_nonce,
                             !.creations = run.creations]
      BY <2>1 DEF PlanFacet
    <3> HIDE DEF existing, hash, f
    <3>5. QED
      BY <3>1, <3>2, <3>3, <3>4
  <2>2. CASE existing = NoRecord
    <3>1. CanCreate /\ NextNonce \in Addresses
      BY <2>2, CanCreateType DEF PlanFacet
    <3>2. FacetCode(hash) \in Code
      BY <1>2 DEF Code, FacetCode
    <3>3. /\ Carries(code, run.creations, code, Reserve(FacetCode(hash)))
          /\ Lands(NextNonce, FacetCode(hash), code, Reserve(FacetCode(hash)))
      BY <3>1, <3>2, ReserveCarries
    <3>4. FacetLands(run.proxy, run.commit, f, created, code, Reserve(FacetCode(hash)))
      BY <1>2, <3>1, <3>3, UnreadType DEF FacetLands
    <3>5. run' = [run EXCEPT !.facet = @ + 1,
                             !.proposed_facets = [@ EXCEPT ![f] = created],
                             !.run_deployed = SetDefault(@, hash, created),
                             !.next_nonce = NextNonce + 1,
                             !.creations = Reserve(FacetCode(hash))]
      BY <2>2 DEF PlanFacet
    <3>6. created.address \in Addresses
      BY <1>2, <3>1, UnreadType
    <3> HIDE DEF created, hash, f
    <3>7. QED
      BY <3>3, <3>4, <3>5, <3>6
  <2>3. QED
    BY <2>1, <2>2
<1>5. /\ run'.step = "facets" /\ run'.commit = run.commit /\ run'.proxy = run.proxy
      /\ run'.ledger = run.ledger /\ run'.reverted = run.reverted /\ run'.creations = creations
      /\ run'.proposed_facets = [run.proposed_facets EXCEPT ![f] = rec]
      /\ run'.run_deployed = SetDefault(run.run_deployed, hash, rec)
  BY <1>1, <1>4 DEF Run
<1>6. LedgerHolds' /\ MemoryLands' /\ Untouched'
  <2>1. LedgerHolds'
    BY <1>3, NothingMoves, LedgerKept DEF RecordsInv
  <2>2. MemoryLands'
    BY <1>3, <1>4, <1>5, MemoryKept DEF RecordsInv
  <2>3. Untouched'
    BY <1>1, <1>3, <1>5 DEF RecordsInv, Untouched, Deploying
  <2>4. QED
    BY <2>1, <2>2, <2>3
<1>7. SourceFacets' = SourceFacets
  BY <1>5 DEF SourceFacets, Source
<1>8. ASSUME NEW g \in Facets, run'.proposed_facets[g] # NoRecord
      PROVE  /\ g \in SourceFacets
             /\ FacetLands(run.proxy, run.commit, g, run'.proposed_facets[g], code, creations)
  <2>1. CASE g = f
    BY <1>1, <1>2, <1>4, <1>5, <2>1 DEF Run
  <2>2. CASE g # f
    <3>1. run'.proposed_facets[g] = run.proposed_facets[g]
      BY <1>1, <1>5, <2>2 DEF Run
    <3>2. g \in SourceFacets /\ FacetLands(run.proxy, run.commit, g, run.proposed_facets[g], code, run.creations)
      BY <1>1, <1>8, <3>1 DEF RecordsInv, PlanLands
    <3>3. run.proposed_facets[g].address \in Addresses
      BY <1>1, <1>8, <3>1 DEF IInv, Planning, FilledIn
    <3>4. FacetCode(run.proposed_facets[g].initcodeHash) # NoCode
      BY DEF FacetCode, NoCode
    <3>5. QED
      BY <1>4, <3>1, <3>2, <3>3, <3>4 DEF FacetLands, Carries
  <2>3. QED
    BY <2>1, <2>2
<1>9. ASSUME NEW h \in Initcodes, run'.run_deployed[h] # NoRecord
      PROVE  Lands(run'.run_deployed[h].address, FacetCode(h), code, creations)
  <2>1. run.run_deployed \in [Initcodes -> FacetRecord]
    BY <1>1 DEF Run
  <2>2. CASE run'.run_deployed[h] = run.run_deployed[h]
    <3>1. run.run_deployed[h].address \in Addresses /\ FacetCode(h) # NoCode
      BY <1>9, <2>2 DEF IInv, Reusable, FacetCode, NoCode
    <3>2. Lands(run.run_deployed[h].address, FacetCode(h), code, run.creations)
      BY <1>1, <1>9, <2>2 DEF RecordsInv, ReusableLands, Deploying
    <3>3. QED
      BY <1>4, <2>2, <3>1, <3>2 DEF Carries
  <2>3. CASE h = hash /\ run'.run_deployed[h] = rec
    <3>1. rec.initcodeHash = hash /\ Lands(rec.address, FacetCode(rec.initcodeHash), code, creations)
      BY <1>4 DEF FacetLands
    <3>2. QED
      BY <2>3, <3>1
  <2>4. run'.run_deployed[h] = run.run_deployed[h] \/ (h = hash /\ run'.run_deployed[h] = rec)
    BY <1>2, <1>5, <2>1 DEF SetDefault
  <2>5. QED
    BY <2>2, <2>3, <2>4
<1>10. PlanLands'
  BY <1>3, <1>5, <1>7, <1>8 DEF PlanLands
<1>11. ReusableLands'
  BY <1>3, <1>5, <1>9 DEF ReusableLands
<1>12. QED
  BY <1>6, <1>10, <1>11 DEF RecordsInv

(* Once every facet is planned, what is proposed is the facet set facetSrc *)
(* resolves to.                                                            *)
LEMMA ProposedSet ==
  ASSUME IInv, RecordsInv, run.step \in {"facets", "migration"}, run.facet = Len(Source) + 1, NEW m
  PROVE  FacetsOf(Proposed(m)) = SourceFacets /\ SourceFacets = SourcesAt(run.commit, run.proxy)
<1>1. run.commit \in Commits /\ run.proxy \in Proxies
  BY DEF IInv, Planning
<1>2. Source \in Seq(Facets)
  BY <1>1, SourceType
<1>3. ASSUME NEW i \in DOMAIN Source
      PROVE  Source[i] \in Facets /\ run.proposed_facets[Source[i]] # NoRecord
  BY <1>2, <1>3 DEF IInv, Planning
<1>4. \A f \in Facets : run.proposed_facets[f] # NoRecord => f \in SourceFacets
  BY DEF RecordsInv, PlanLands
<1>5. QED
  BY <1>3, <1>4 DEF FacetsOf, Proposed, SourceFacets, Source, SourcesAt

(* The selectors() delegate a plan records is the one generated for that   *)
(* set, on chain or planned.                                               *)
LEMMA PlanSelectorsRecords == IInv /\ RecordsInv /\ PlanSelectors => RecordsInv'
<1> SUFFICES ASSUME IInv, RecordsInv, PlanSelectors PROVE RecordsInv'
  OBVIOUS
<1> DEFINE runtime == SelectorsRuntime(run.commit, SourceFacets)
           prior == IF Loaded.proposed.selectors # ZERO_ADDRESS
                    THEN Loaded.proposed.selectors ELSE Loaded.current.selectors
<1>1. /\ run \in Run /\ run.step = "facets" /\ run.commit \in Commits /\ run.proxy \in Proxies
      /\ run.facet = Len(Source) + 1
  BY DEF IInv, TypeOK, PlanSelectors, Planning
<1>2. runtime \in Code
  BY <1>1, SourceType, SelectorsRuntimeType
<1>3. UNCHANGED <<ledger, code>>
  BY DEF PlanSelectors, chain
<1>4. PICK impl, next_nonce, creations :
        /\ impl # ZERO_ADDRESS => runtime # NoCode /\ Lands(impl, runtime, code, creations)
        /\ Carries(code, run.creations, code, creations)
        /\ run' = [run EXCEPT !.step = "migration", !.selectors_impl = impl,
                              !.next_nonce = next_nonce, !.creations = creations]
  <2>1. Carries(code, run.creations, code, run.creations)
    BY DEF Carries
  <2>2. CASE /\ runtime = NoCode
             /\ run' = [run EXCEPT !.step = "migration", !.selectors_impl = ZERO_ADDRESS]
    <3>1. run' = [run EXCEPT !.step = "migration", !.selectors_impl = ZERO_ADDRESS,
                             !.next_nonce = run.next_nonce, !.creations = run.creations]
      BY <1>1, <2>2 DEF Run
    <3>2. QED
      BY <2>1, <3>1
  <2>3. CASE /\ runtime # NoCode /\ code[prior] = runtime
             /\ run' = [run EXCEPT !.step = "migration", !.selectors_impl = prior]
    <3>1. run' = [run EXCEPT !.step = "migration", !.selectors_impl = prior,
                             !.next_nonce = run.next_nonce, !.creations = run.creations]
      BY <1>1, <2>3 DEF Run
    <3>2. Lands(prior, runtime, code, run.creations)
      BY <2>3 DEF Lands
    <3> HIDE DEF prior, runtime
    <3>3. QED
      BY <2>1, <2>3, <3>1, <3>2
  <2>4. CASE /\ runtime # NoCode /\ CanCreate
             /\ run' = [run EXCEPT !.step = "migration", !.selectors_impl = NextNonce,
                                   !.next_nonce = NextNonce + 1, !.creations = Reserve(runtime)]
    <3> HIDE DEF runtime
    <3>1. QED
      BY <1>2, <2>4, ReserveCarries
  <2>5. QED
    BY <2>2, <2>3, <2>4 DEF PlanSelectors
<1>5. /\ run'.step = "migration" /\ run'.commit = run.commit /\ run'.proxy = run.proxy
      /\ run'.ledger = run.ledger /\ run'.reverted = run.reverted /\ run'.creations = creations
      /\ run'.proposed_facets = run.proposed_facets /\ run'.run_deployed = run.run_deployed
      /\ run'.selectors_impl = impl
  BY <1>1, <1>4 DEF Run
<1>6. LedgerHolds' /\ MemoryLands' /\ Untouched'
  <2>1. LedgerHolds'
    BY <1>3, NothingMoves, LedgerKept DEF RecordsInv
  <2>2. MemoryLands'
    BY <1>3, <1>4, <1>5, MemoryKept DEF RecordsInv
  <2>3. Untouched'
    BY <1>1, <1>3, <1>5 DEF RecordsInv, Untouched, Deploying
  <2>4. QED
    BY <2>1, <2>2, <2>3
<1>7. SourceFacets' = SourceFacets
  BY <1>5 DEF SourceFacets, Source
<1>8. ASSUME NEW g \in Facets, run.proposed_facets[g] # NoRecord
      PROVE  /\ g \in SourceFacets
             /\ FacetLands(run.proxy, run.commit, g, run.proposed_facets[g], code, creations)
  <2>1. g \in SourceFacets /\ FacetLands(run.proxy, run.commit, g, run.proposed_facets[g], code, run.creations)
    BY <1>1, <1>8 DEF RecordsInv, PlanLands
  <2>2. run.proposed_facets[g].address \in Addresses
    BY <1>1, <1>8 DEF IInv, Planning, FilledIn
  <2>3. FacetCode(run.proposed_facets[g].initcodeHash) # NoCode
    BY DEF FacetCode, NoCode
  <2>4. QED
    BY <1>4, <2>1, <2>2, <2>3 DEF FacetLands, Carries
<1>9. ReusableLands'
  BY <1>1, <1>3, <1>4, <1>5, ReusableKept DEF RecordsInv, Deploying
<1>10. SelectorsLand(Proposed(ZERO_ADDRESS)', code, creations)
  <2>1. FacetsOf(Proposed(ZERO_ADDRESS)') = FacetsOf(Proposed(ZERO_ADDRESS))
    BY <1>5 DEF FacetsOf, Proposed
  <2>2. FacetsOf(Proposed(ZERO_ADDRESS)) = SourceFacets
    BY <1>1, ProposedSet
  <2>3. Proposed(ZERO_ADDRESS)'.gitCommit = run.commit /\ Proposed(ZERO_ADDRESS)'.selectors = impl
    BY <1>5 DEF Proposed
  <2>4. QED
    BY <1>4, <2>1, <2>2, <2>3 DEF SelectorsLand
<1>11. PlanLands'
  BY <1>3, <1>5, <1>7, <1>8, <1>10 DEF PlanLands
<1>12. QED
  BY <1>6, <1>9, <1>11 DEF RecordsInv

(* What deploy stages for a proxy is all there or planned.                 *)
LEMMA ProposedLands ==
  ASSUME IInv, RecordsInv, run.step = "migration", NEW m
  PROVE  StateLands(run.proxy, Proposed(m), code, run.creations)
<1>1. /\ Proposed(m).facets = run.proposed_facets /\ Proposed(m).gitCommit = run.commit
      /\ Proposed(m).selectors = run.selectors_impl
      /\ Proposed(ZERO_ADDRESS).facets = run.proposed_facets /\ Proposed(ZERO_ADDRESS).gitCommit = run.commit
      /\ Proposed(ZERO_ADDRESS).selectors = run.selectors_impl
  BY DEF Proposed
<1>2. run.facet = Len(Source) + 1
  BY DEF IInv, Planning
<1>3. FacetsOf(Proposed(m)) = SourcesAt(run.commit, run.proxy)
  BY <1>2, ProposedSet
<1>4. \A f \in FacetsOf(Proposed(m)) : FacetLands(run.proxy, run.commit, f, run.proposed_facets[f], code, run.creations)
  BY <1>1 DEF RecordsInv, PlanLands, FacetsOf
<1>5. FacetsOf(Proposed(m)) = FacetsOf(Proposed(ZERO_ADDRESS))
  BY <1>1 DEF FacetsOf
<1>6. SelectorsLand(Proposed(m), code, run.creations)
  BY <1>1, <1>5 DEF RecordsInv, PlanLands, SelectorsLand
<1>7. QED
  BY <1>1, <1>3, <1>4, <1>6 DEF StateLands

(* Where a plan goes once its proxy is staged.                             *)
LEMMA NextProxyEffect ==
  ASSUME IInv, run.proxy \in Proxies, NEW state, NEW next_nonce, NEW creations
  PROVE  LET after == NextProxy(state, next_nonce, creations)
         IN  /\ after.step = (IF run.proxy = NProxies THEN "send" ELSE "facets")
             /\ after.proxy = run.proxy + 1 /\ after.facet = 1
             /\ after.proposed_facets = NoState.facets /\ after.selectors_impl = ZERO_ADDRESS
             /\ after.commit = run.commit /\ after.redeploy_all = run.redeploy_all
             /\ after.reverted = run.reverted /\ after.creations = creations
             /\ after.run_deployed = run.run_deployed
             /\ after.slots = (IF run.proxy = NProxies THEN Idle.slots ELSE PlanningSlots)
             /\ \A p \in Proxies : /\ after.ledger[p].current = run.ledger[p].current
                                   /\ after.ledger[p].history = run.ledger[p].history
                                   /\ p # run.proxy => after.ledger[p] = run.ledger[p]
                                   /\ p = run.proxy => after.ledger[p].proposed = state
<1>1. run \in Run /\ Loaded = run.ledger[run.proxy]
  BY DEF IInv, TypeOK, Loaded
<1> DEFINE edited == [run.ledger EXCEPT ![run.proxy] = [Loaded EXCEPT !.proposed = state]]
<1>2. \A p \in Proxies : /\ edited[p].current = run.ledger[p].current
                         /\ edited[p].history = run.ledger[p].history
                         /\ p # run.proxy => edited[p] = run.ledger[p]
                         /\ p = run.proxy => edited[p].proposed = state
  BY <1>1 DEF Run, Entry
<1>3. NextProxy(state, next_nonce, creations).ledger = edited
  BY <1>1 DEF NextProxy, Run
<1> HIDE DEF edited
<1>4. QED
  BY <1>1, <1>2, <1>3 DEF NextProxy, Run

(* Staging a proposal records what was planned for it.                     *)
LEMMA PlanMigrationRecords ==
  ASSUME IInv, RecordsInv, NEW storage_keys \in Detections, NEW unread, PlanMigration(storage_keys, unread)
  PROVE  RecordsInv'
<1> DEFINE sets == Planned(storage_keys, unread)
           prior == Loaded.proposed.migration
<1>1. run \in Run /\ run.step = "migration" /\ run.commit \in Commits /\ run.proxy \in Proxies
  BY DEF IInv, TypeOK, PlanMigration, Planning
<1>2. UNCHANGED <<ledger, code>>
  BY DEF PlanMigration, chain
<1>3. MigrationCode(sets) \in Code
  <2>1. Proposed(ZERO_ADDRESS) \in DeploymentState
    BY <1>1, ProposedWellFormed DEF MaybeAddress
  <2>2. PlanningSlots[run.proxy] \in Routes /\ Loaded.current \in DeploymentState
    BY <1>1, LoadedWellFormed DEF IInv, TypeOK, Entry, Run, PlanningSlots
  <2>3. sets \in Migrations
    BY <2>1, <2>2, BuildMigrationType DEF PlanMigration, Planned, Refused
  <2> HIDE DEF sets
  <2>4. QED
    BY <2>3 DEF Code, MigrationCode
<1>4. PICK state, next_nonce, creations :
        /\ StateLands(run.proxy, state, code, run.creations)
        /\ state \in DeploymentState /\ WellFormed(state)
        /\ Carries(code, run.creations, code, creations)
        /\ run' = NextProxy(state, next_nonce, creations)
  <2>1. Carries(code, run.creations, code, run.creations)
    BY DEF Carries
  <2>2. CASE run' = NextProxy(NoState, run.next_nonce, run.creations)
    BY <2>1, <2>2, NoStateLands, NoStateType, NoStateWellFormed
  <2>3. CASE run' = NextProxy(Proposed(prior), run.next_nonce, run.creations)
    <3>1. prior \in MaybeAddress
      BY <1>1, LoadedWellFormed DEF Entry, DeploymentState
    <3> HIDE DEF prior
    <3>2. QED
      BY <1>1, <2>1, <2>3, <3>1, ProposedLands, ProposedWellFormed
  <2>4. CASE /\ CanCreate
             /\ run' = NextProxy(Proposed(NextNonce), NextNonce + 1, Reserve(MigrationCode(sets)))
    <3>1. NextNonce \in MaybeAddress
      BY <2>4, CanCreateType DEF MaybeAddress
    <3>2. Carries(code, run.creations, code, Reserve(MigrationCode(sets)))
      BY <1>3, <2>4, ReserveCarries
    <3> HIDE DEF sets
    <3>3. QED
      BY <1>1, <2>4, <3>1, <3>2, ProposedLands, ProposedWellFormed
  <2>5. QED
    BY <2>2, <2>3, <2>4 DEF PlanMigration
<1>5. /\ run'.step = (IF run.proxy = NProxies THEN "send" ELSE "facets")
      /\ run'.proxy = run.proxy + 1 /\ run'.proposed_facets = NoState.facets
      /\ run'.reverted = run.reverted /\ run'.creations = creations /\ run'.run_deployed = run.run_deployed
      /\ \A p \in Proxies : /\ p # run.proxy => run'.ledger[p] = run.ledger[p]
                            /\ p = run.proxy => run'.ledger[p].proposed = state
  BY <1>1, <1>4, NextProxyEffect
<1>6. LedgerHolds'
  BY <1>2, NothingMoves, LedgerKept DEF RecordsInv
<1>7. MemoryLands'
  <2> SUFFICES ASSUME NEW p \in Proxies, ~run.reverted
               PROVE  StateLands(p, run'.ledger[p].proposed, code, creations)
    BY <1>2, <1>5 DEF MemoryLands
  <2>1. CASE p = run.proxy
    BY <1>4, <1>5, <2>1, StateCarried
  <2>2. CASE p # run.proxy
    <3>1. run.ledger[p].proposed \in DeploymentState /\ WellFormed(run.ledger[p].proposed)
      BY DEF IInv, TypeOK, Run, Entry, RecordsWellFormed
    <3>2. StateLands(p, run.ledger[p].proposed, code, run.creations)
      BY DEF RecordsInv, MemoryLands
    <3>3. QED
      BY <1>4, <1>5, <2>2, <3>1, <3>2, StateCarried
  <2>3. QED
    BY <2>1, <2>2
<1>8. Untouched'
  <2> SUFFICES ASSUME NEW p \in Proxies, p >= run.proxy + 1
               PROVE  run'.ledger[p].proposed = ledger[p].proposed
    BY <1>2, <1>5 DEF Untouched
  <2>1. p >= run.proxy /\ p # run.proxy
    BY <1>1 DEF Proxies
  <2>2. QED
    BY <1>1, <1>5, <2>1 DEF RecordsInv, Untouched, Deploying
<1>9. PlanLands'
  <2>1. run'.step # "migration" /\ \A f \in Facets : run'.proposed_facets[f] = NoRecord
    BY <1>5 DEF NoState
  <2>2. QED
    BY <1>2, <1>5, <2>1 DEF PlanLands
<1>10. ReusableLands'
  BY <1>1, <1>2, <1>4, <1>5, ReusableKept DEF RecordsInv, Deploying
<1>11. QED
  BY <1>6, <1>7, <1>8, <1>9, <1>10 DEF RecordsInv

-----------------------------------------------------------------------------
(* The other steps.                                                        *)

(* A creation sent puts a planned contract on chain, or the run writes     *)
(* nothing.                                                                *)
LEMMA SendRecords == IInv /\ RecordsInv /\ Send => RecordsInv'
<1> SUFFICES ASSUME IInv, RecordsInv, Send PROVE RecordsInv'
  OBVIOUS
<1>1. run \in Run /\ run.step = "send"
  BY DEF IInv, TypeOK, Send
<1>2. /\ ledger' = ledger /\ run'.step = "send" /\ run'.ledger = run.ledger /\ run'.proxy = run.proxy
      /\ run'.run_deployed = run.run_deployed
      /\ ~run'.reverted => ~run.reverted
  BY <1>1 DEF Send, Run
<1>3. Carries(code, <<>>, code', <<>>)
  BY SendKeepsCode
<1>4. LedgerHolds'
  BY <1>2, <1>3, LedgerKept DEF RecordsInv
<1>5. MemoryLands'
  BY <1>2, SendCarries, MemoryKept DEF RecordsInv
<1>6. PlanLands' /\ Untouched'
  BY <1>1, <1>2 DEF RecordsInv, PlanLands, Untouched, Deploying
<1>7. ReusableLands'
  BY <1>1, <1>2, SendCarries, ReusableKept DEF RecordsInv, Deploying
<1>8. QED
  BY <1>4, <1>5, <1>6, <1>7 DEF RecordsInv

(* Completing the records changes nothing of what lands.                   *)
LEMMA MinedLands ==
  ASSUME IInv, NEW p, NEW state \in DeploymentState, NEW onchain, NEW creations,
         StateLands(p, state, onchain, creations)
  PROVE  StateLands(p, Mined(state), onchain, creations)
<1>1. /\ FacetsOf(Mined(state)) = FacetsOf(state) /\ FacetsOf(state) \subseteq Facets
      /\ Mined(state).gitCommit = state.gitCommit /\ Mined(state).selectors = state.selectors
      /\ Mined(NoState) = NoState
  BY MinedSame, MinedRoutes, MinedWellFormed DEF FacetsOf
<1>2. \A f \in FacetsOf(state) : FacetLands(p, state.gitCommit, f, Mined(state).facets[f], onchain, creations)
  BY <1>1, MinedSame DEF StateLands, FacetLands
<1>3. SelectorsLand(Mined(state), onchain, creations)
  BY <1>1 DEF StateLands, SelectorsLand
<1>4. Mined(state) # NoState => FacetsOf(state) = SourcesAt(state.gitCommit, p)
  BY <1>1 DEF StateLands
<1>5. QED
  BY <1>1, <1>2, <1>3, <1>4 DEF StateLands

(* With every receipt in, what the run planned is on chain as it is        *)
(* written.                                                                *)
LEMMA FinishDeployRecords == IInv /\ RecordsInv /\ FinishDeploy => RecordsInv'
<1> SUFFICES ASSUME IInv, RecordsInv, FinishDeploy PROVE RecordsInv'
  OBVIOUS
<1>1. run' = Idle /\ code' = code /\ run.creations = <<>> /\ ~run.reverted /\ run.step = "send"
  BY DEF FinishDeploy, chain
<1>2. ASSUME NEW p \in Proxies
      PROVE  /\ StateLands(p, ledger'[p].current, code, <<>>)
             /\ StateLands(p, ledger'[p].proposed, code, <<>>)
             /\ HistoryHolds(p, ledger'[p], code)
  <2>1. ledger'[p].current = ledger[p].current /\ ledger'[p].history = ledger[p].history
    BY FinishDeployEffect
  <2>2. StateLands(p, run.ledger[p].proposed, code, <<>>)
    BY <1>1 DEF RecordsInv, MemoryLands
  <2>3. StateLands(p, ledger'[p].proposed, code, <<>>)
    BY <2>2, FinishDeployEffect, MinedLands
  <2>4. QED
    BY <2>1, <2>3 DEF RecordsInv, LedgerHolds, HistoryHolds, Archived
<1>3. LedgerHolds'
  BY <1>1, <1>2 DEF LedgerHolds
<1>4. QED
  BY <1>1, <1>3, IdleRecords

(* What accept files away verifies as what it was installed as.            *)
LEMMA RetiredHolds ==
  ASSUME NEW p \in Proxies, NEW state \in DeploymentState, WellFormed(state), NEW onchain,
         StateLands(p, state, onchain, <<>>), NEW a \in Addresses, HistoryEntries(state)[a] # NoEntry
  PROVE  EntryHolds(p, a, HistoryEntries(state)[a], onchain) /\ onchain[a] # NoCode
<1> DEFINE entry == HistoryEntries(state)[a]
<1>1. a # ZERO_ADDRESS
  BY DEF Addresses, ZERO_ADDRESS
<1>2. CASE a = state.selectors
  <2>1. /\ entry = ArchivedAs(state.gitCommit, FacetsOf(state), NoRecord)
        /\ entry.gitCommit = state.gitCommit /\ entry.source = FacetsOf(state) /\ entry.initcodeHash = NoHash
    BY <1>2 DEF HistoryEntries, ArchivedAs, NoRecord
  <2>2. onchain[a] = SelectorsRuntime(state.gitCommit, FacetsOf(state)) /\ onchain[a] # NoCode
    BY <1>1, <1>2 DEF StateLands, SelectorsLand, Lands
  <2>3. QED
    BY <2>1, <2>2 DEF EntryHolds
<1>3. CASE a # state.selectors
  <2> DEFINE f == CHOOSE f \in Facets : state.facets[f].address = a
  <2>1. \E g \in Facets : state.facets[g].address = a
    BY <1>3 DEF HistoryEntries
  <2>2. f \in Facets /\ state.facets[f].address = a
    BY <2>1
  <2>3. /\ entry.gitCommit = state.gitCommit /\ entry.source = {f}
        /\ entry.initcodeHash = state.facets[f].initcodeHash
    BY <1>3, <2>1 DEF HistoryEntries, ArchivedAs
  <2> HIDE DEF f
  <2>4. f \in FacetsOf(state)
    BY <1>1, <2>2 DEF FacetsOf, NoRecord
  <2>5. FacetLands(p, state.gitCommit, f, state.facets[f], onchain, <<>>)
    BY <2>4 DEF StateLands
  <2>6. onchain[a] = FacetCode(state.facets[f].initcodeHash)
    BY <2>2, <2>5 DEF FacetLands, Lands
  <2>7. state.facets[f].initcodeHash \in Initcodes
    BY <2>2, <2>4, RecordedFilledIn DEF FacetsOf
  <2>8. entry.initcodeHash # NoHash
    BY <2>3, <2>7, NamesAssumption
  <2>9. EntryHolds(p, a, entry, onchain)
    BY <2>3, <2>5, <2>6, <2>8 DEF EntryHolds, FacetLands
  <2>10. QED
    BY <2>6, <2>9 DEF FacetCode, NoCode
<1>4. QED
  BY <1>2, <1>3

(* accept moves what is staged to what is installed, and keeps the rest on *)
(* record.                                                                 *)
LEMMA AcceptHolds ==
  ASSUME NEW p \in Proxies, NEW entry \in Entry, NEW onchain,
         WellFormed(entry.current),
         StateLands(p, entry.current, onchain, <<>>),
         StateLands(p, entry.proposed, onchain, <<>>),
         HistoryHolds(p, entry, onchain)
  PROVE  /\ StateLands(p, AcceptEntry(entry).current, onchain, <<>>)
         /\ StateLands(p, AcceptEntry(entry).proposed, onchain, <<>>)
         /\ HistoryHolds(p, AcceptEntry(entry), onchain)
<1> DEFINE retired == RetiredEntries(entry.current, entry.proposed)
<1>1. /\ AcceptEntry(entry).current = entry.proposed /\ AcceptEntry(entry).proposed = NoState
      /\ AcceptEntry(entry).history = UpdateHistory(entry.history, retired)
  BY DEF AcceptEntry
<1>2. ASSUME NEW a \in Archived(AcceptEntry(entry))
      PROVE  /\ EntryHolds(p, a, AcceptEntry(entry).history[a], onchain)
             /\ onchain[a] # NoCode
  <2>1. a \in Addresses /\ AcceptEntry(entry).history[a] # NoEntry
    BY DEF Archived
  <2>2. CASE retired[a] # NoEntry
    <3>1. retired[a] = HistoryEntries(entry.current)[a]
      BY <2>1, <2>2 DEF RetiredEntries
    <3>2. AcceptEntry(entry).history[a] = HistoryEntries(entry.current)[a]
      BY <1>1, <2>1, <2>2, <3>1 DEF UpdateHistory
    <3>3. entry.current \in DeploymentState
      BY DEF Entry
    <3>4. QED
      BY <2>1, <3>2, <3>3, RetiredHolds
  <2>3. CASE retired[a] = NoEntry
    <3>1. AcceptEntry(entry).history[a] = entry.history[a]
      BY <1>1, <2>1, <2>3 DEF UpdateHistory
    <3>2. QED
      BY <2>1, <3>1 DEF HistoryHolds, Archived
  <2>4. QED
    BY <2>2, <2>3
<1>3. QED
  BY <1>1, <1>2, NoStateLands DEF HistoryHolds

(* So the ledger accept writes holds.                                      *)
LEMMA FinishAcceptRecords == IInv /\ RecordsInv /\ FinishAccept => RecordsInv'
<1> SUFFICES ASSUME IInv, RecordsInv, FinishAccept PROVE RecordsInv'
  OBVIOUS
<1>1. run' = Idle /\ code' = code
  BY DEF FinishAccept, chain
<1>2. ASSUME NEW p \in Proxies
      PROVE  /\ StateLands(p, ledger'[p].current, code, <<>>)
             /\ StateLands(p, ledger'[p].proposed, code, <<>>)
             /\ HistoryHolds(p, ledger'[p], code)
  <2>1. ledger[p] \in Entry /\ WellFormed(ledger[p].current)
    BY DEF IInv, TypeOK, RecordsWellFormed
  <2>2. /\ StateLands(p, ledger[p].current, code, <<>>)
        /\ StateLands(p, ledger[p].proposed, code, <<>>)
        /\ HistoryHolds(p, ledger[p], code)
    BY DEF RecordsInv, LedgerHolds
  <2>3. ledger'[p] = ledger[p] \/ ledger'[p] = AcceptEntry(ledger[p])
    BY FinishAcceptEffect
  <2>4. CASE ledger'[p] = ledger[p]
    BY <2>2, <2>4
  <2>5. CASE ledger'[p] = AcceptEntry(ledger[p])
    BY <2>1, <2>2, <2>5, AcceptHolds
  <2>6. QED
    BY <2>3, <2>4, <2>5
<1>3. LedgerHolds'
  BY <1>1, <1>2 DEF LedgerHolds
<1>4. QED
  BY <1>1, <1>3, IdleRecords

(* A run that stops, of itself or not, leaves the ledger as it was.        *)
LEMMA StopRecords ==
  ASSUME IInv, RecordsInv,
         FailDeploy \/ Crash \/ \E storage_keys \in Detections, unread \in SUBSET Facets :
                                 RefuseMigration(storage_keys, unread)
  PROVE  RecordsInv'
<1>1. run' = Idle /\ ledger' = ledger /\ code' = code
  BY DEF FailDeploy, RefuseMigration, Crash, chain
<1>2. QED
  BY <1>1, NothingMoves, LedgerKept, IdleRecords DEF RecordsInv

(* A run that starts plans to record what it loads.                        *)
LEMMA StartRecords ==
  ASSUME IInv, RecordsInv, StartAccept \/ \E all \in BOOLEAN : StartDeploy(all)
  PROVE  RecordsInv'
<1>1. /\ ledger' = ledger /\ code' = code /\ run'.ledger = ledger /\ run'.proxy = 1
      /\ run'.step \in {"facets", "check"} /\ run'.proposed_facets = NoState.facets
      /\ run'.run_deployed = Idle.run_deployed /\ run'.creations = <<>>
  BY DEF StartAccept, StartDeploy, Idle, chain
<1>2. LedgerHolds'
  BY <1>1, NothingMoves, LedgerKept DEF RecordsInv
<1>3. MemoryLands'
  BY <1>1 DEF MemoryLands, RecordsInv, LedgerHolds
<1>4. PlanLands' /\ ReusableLands'
  <2>1. /\ \A f \in Facets : run'.proposed_facets[f] = NoRecord
        /\ \A h \in Initcodes : run'.run_deployed[h] = NoRecord
    BY <1>1 DEF NoState, Idle
  <2>2. QED
    BY <1>1, <2>1 DEF PlanLands, ReusableLands
<1>5. Untouched'
  BY <1>1 DEF Untouched
<1>6. QED
  BY <1>2, <1>3, <1>4, <1>5 DEF RecordsInv

(* Checking a proxy records nothing.                                       *)
LEMMA CheckProxyRecords == IInv /\ RecordsInv /\ CheckProxy => RecordsInv'
<1> SUFFICES ASSUME IInv, RecordsInv, CheckProxy PROVE RecordsInv'
  OBVIOUS
<1>1. run \in Run /\ run.step = "check" /\ ledger' = ledger /\ code' = code
  BY DEF IInv, TypeOK, CheckProxy, chain
<1>2. /\ run'.step = "check" /\ run'.ledger = run.ledger /\ run'.creations = run.creations
      /\ run'.reverted = run.reverted
  <2>1. CASE run' = [run EXCEPT !.proxy = @ + 1]
    BY <1>1, <2>1 DEF Run
  <2>2. CASE run' = [run EXCEPT !.proxy = @ + 1, !.pending = @ \union {run.proxy}]
    BY <1>1, <2>2 DEF Run
  <2>3. CASE run' = [run EXCEPT !.proxy = @ + 1, !.failed = TRUE]
    BY <1>1, <2>3 DEF Run
  <2>4. QED
    BY <2>1, <2>2, <2>3 DEF CheckProxy
<1>3. LedgerHolds'
  BY <1>1, NothingMoves, LedgerKept DEF RecordsInv
<1>4. MemoryLands'
  BY <1>1, <1>2 DEF RecordsInv, MemoryLands
<1>5. PlanLands' /\ ReusableLands' /\ Untouched'
  BY <1>2 DEF PlanLands, ReusableLands, Untouched, Deploying
<1>6. QED
  BY <1>3, <1>4, <1>5 DEF RecordsInv

(* A step that leaves the ledger, the run and the code alone disturbs no   *)
(* record.                                                                 *)
LEMMA StillRecords ==
  ASSUME RecordsInv, UNCHANGED <<ledger, run, code>>
  PROVE  RecordsInv'
BY DEF RecordsInv, LedgerHolds, HistoryHolds, Archived, MemoryLands, PlanLands, ReusableLands, Untouched,
       Deploying, SourceFacets, Source, Proposed

-----------------------------------------------------------------------------
(* What the ledger records verifies.                                       *)

(* The records hold before the first command: there are none.              *)
LEMMA InitRecords == Init => RecordsInv
<1> SUFFICES ASSUME Init PROVE RecordsInv
  OBVIOUS
<1>1. \A p \in Proxies : /\ ledger[p].current = NoState /\ ledger[p].proposed = NoState
                         /\ run.ledger[p].proposed = NoState /\ Archived(ledger[p]) = {}
  BY DEF Init, Idle, NoDeployment, Archived
<1>2. LedgerHolds /\ MemoryLands
  BY <1>1, NoStateLands DEF LedgerHolds, HistoryHolds, MemoryLands
<1>3. PlanLands /\ ReusableLands /\ Untouched
  BY DEF Init, Idle, PlanLands, ReusableLands, Untouched, Deploying
<1>4. QED
  BY <1>2, <1>3 DEF RecordsInv

(* Every step keeps them.                                                  *)
LEMMA NextRecords == IInv /\ RecordsInv /\ [Next]_vars => RecordsInv'
<1> SUFFICES ASSUME IInv, RecordsInv, [Next]_vars PROVE RecordsInv'
  OBVIOUS
<1>1. CASE StartAccept \/ \E all \in BOOLEAN : StartDeploy(all)
  BY <1>1, StartRecords
<1>2. CASE PlanFacet \/ PlanSelectors
  BY <1>2, PlanFacetRecords, PlanSelectorsRecords
<1>3. CASE Send \/ FinishDeploy \/ FailDeploy \/ Crash
  BY <1>3, SendRecords, FinishDeployRecords, StopRecords
<1>4. CASE CheckProxy \/ FinishAccept
  BY <1>4, CheckProxyRecords, FinishAcceptRecords
<1>5. CASE \/ \E c \in Commits : MoveHead(c)
           \/ ForeignTransaction
           \/ \E p \in Proxies : \E m \in Addresses : Execute(p, m)
           \/ UNCHANGED vars
  BY <1>5, StillRecords DEF MoveHead, ForeignTransaction, Execute, vars, chain
<1>6. ASSUME NEW storage_keys \in Detections, NEW unread \in SUBSET Facets, PlanMigration(storage_keys, unread)
      PROVE  RecordsInv'
  BY <1>6, PlanMigrationRecords
<1>7. ASSUME NEW storage_keys \in Detections, NEW unread \in SUBSET Facets, RefuseMigration(storage_keys, unread)
      PROVE  RecordsInv'
  BY <1>7, StopRecords
<1>8. QED
  BY <1>1, <1>2, <1>3, <1>4, <1>5, <1>6, <1>7 DEF Next, Tool

(* What is recorded is on chain, and what a run plans to record will be    *)
(* once its creations are sent, in every state.                            *)
THEOREM RecordsHold == Spec => [](IInv /\ RecordsInv)
<1>1. Init => IInv /\ RecordsInv
  BY InitIInv, InitRecords
<1>2. IInv /\ RecordsInv /\ [Next]_vars => IInv' /\ RecordsInv'
  BY NextIInv, NextRecords
<1>3. QED
  BY <1>1, <1>2, PTL DEF Spec

-----------------------------------------------------------------------------
(* What else a record says of its facet, and what deploy warned of.        *)

(* The file's records stay complete: a warning is never taken back.        *)
LEMMA LedgerStaysComplete ==
  ASSUME LedgerComplete, ledger' = ledger, warned \subseteq warned'
  PROVE  LedgerComplete'
<1>1. ASSUME NEW p \in Proxies, NEW state \in {ledger[p].current, ledger[p].proposed}, NEW f \in FacetsOf(state)
      PROVE  Complete(state.facets[f].initcodeHash, state.facets[f].address, state.facets[f])'
  BY DEF LedgerComplete, Complete
<1>2. ASSUME NEW p \in Proxies, NEW a \in Archived(ledger[p]), ledger[p].history[a].initcodeHash # NoHash
      PROVE  Complete(ledger[p].history[a].initcodeHash, a, ledger[p].history[a])'
  BY <1>2 DEF LedgerComplete, Complete
<1>3. QED
  BY <1>1, <1>2 DEF LedgerComplete, FacetsOf, Archived

(* Where there is code it stays, so what was warned of stays what it is.   *)
LEMMA WarnedStayFragile ==
  ASSUME IInv, WarnedAreFragile, warned' = warned, Carries(code, <<>>, code', <<>>)
  PROVE  WarnedAreFragile'
<1> SUFFICES ASSUME NEW a \in warned
             PROVE  \E h \in Fragile : code'[a] = FacetCode(h)
  BY DEF WarnedAreFragile
<1>1. a \in Addresses
  BY DEF IInv, TypeOK
<1>2. PICK h \in Fragile : code[a] = FacetCode(h)
  BY DEF WarnedAreFragile
<1>3. code'[a] = FacetCode(h)
  BY <1>1, <1>2 DEF Carries, Lands, FacetCode, NoCode
<1>4. QED
  BY <1>3

(* A run that ends leaves nothing to read.                                 *)
LEMMA IdleDetails ==
  ASSUME LedgerComplete', WarnedAreFragile', run' = Idle
  PROVE  DetailsInv'
BY DEF DetailsInv, MemoryComplete, Deploying, Idle

(* A record stays complete, or to be read, as long as what is kept for     *)
(* reuse is only added to.                                                 *)
LEMMA StillCompleteOrUnread ==
  ASSUME NEW record, record # NoRecord, record.initcodeHash \in Initcodes, CompleteOrUnread(record),
         warned' = warned,
         \A h \in Initcodes : run.run_deployed[h] # NoRecord => run'.run_deployed[h] = run.run_deployed[h]
  PROVE  CompleteOrUnread(record)'
<1>1. CASE Complete(record.initcodeHash, record.address, record)
  BY <1>1 DEF CompleteOrUnread, Complete
<1>2. CASE /\ record = Unread(record.address, record.initcodeHash)
           /\ run.run_deployed[record.initcodeHash] = record
  BY <1>2 DEF CompleteOrUnread
<1>3. QED
  BY <1>1, <1>2 DEF CompleteOrUnread

(* So a step that plans nothing keeps all that a run holds.                *)
LEMMA MemoryStaysComplete ==
  ASSUME IInv, MemoryComplete, Deploying, warned' = warned,
         run'.ledger = run.ledger, run'.proposed_facets = run.proposed_facets, run'.run_deployed = run.run_deployed
  PROVE  MemoryComplete'
BY DEF MemoryComplete, CompleteOrUnread, Complete, FacetsOf

(* The records a run holds are whole.                                      *)
LEMMA HeldFilledIn ==
  ASSUME IInv
  PROVE  /\ \A p \in Proxies : \A f \in FacetsOf(run.ledger[p].proposed) :
              /\ run.ledger[p].proposed.facets[f] # NoRecord
              /\ run.ledger[p].proposed.facets[f].initcodeHash \in Initcodes
         /\ run.step \in {"facets", "migration"} =>
              \A f \in Facets : run.proposed_facets[f] # NoRecord =>
                run.proposed_facets[f].initcodeHash \in Initcodes
         /\ \A h \in Initcodes : run.run_deployed[h] # NoRecord =>
              run.run_deployed[h].initcodeHash = h
<1>1. ASSUME NEW p \in Proxies, NEW f \in FacetsOf(run.ledger[p].proposed)
      PROVE  /\ run.ledger[p].proposed.facets[f] # NoRecord
             /\ run.ledger[p].proposed.facets[f].initcodeHash \in Initcodes
  <2>1. run.ledger[p].proposed \in DeploymentState /\ WellFormed(run.ledger[p].proposed)
    BY DEF IInv, TypeOK, Run, Entry, RecordsWellFormed
  <2>2. f \in Facets /\ run.ledger[p].proposed.facets[f] # NoRecord
    BY <1>1 DEF FacetsOf
  <2>3. QED
    BY <2>1, <2>2, RecordedFilledIn
<1>2. QED
  BY <1>1 DEF IInv, Planning, FilledIn, Reusable

(* A facet's record, reused or new, is complete or is the one kept.        *)
LEMMA PlanFacetDetails == IInv /\ RecordsInv /\ DetailsInv /\ PlanFacet => DetailsInv'
<1> SUFFICES ASSUME IInv, RecordsInv, DetailsInv, PlanFacet PROVE DetailsInv'
  OBVIOUS
<1> DEFINE f == Source[run.facet]
           hash == facet_initcode[run.commit][run.proxy][f]
           existing == ExistingDeployment(f, hash)
           created == Unread(NextNonce, hash)
<1>1. /\ run \in Run /\ run.step = "facets" /\ run.commit \in Commits /\ run.proxy \in Proxies
      /\ UNCHANGED <<ledger, code, warned>>
  BY DEF IInv, TypeOK, PlanFacet, Planning, chain
<1>2. f \in Facets /\ hash \in Initcodes /\ hash # NoHash
  <2>1. Source \in Seq(Facets) /\ run.facet \in DOMAIN Source
    BY <1>1, SourceType DEF PlanFacet
  <2>2. f \in Facets
    BY <2>1
  <2>3. QED
    BY <1>1, <2>2, SourcesAssumption, NamesAssumption
<1> HIDE DEF f, hash
<1>3. Loaded.current = ledger[run.proxy].current /\ Loaded = run.ledger[run.proxy]
  BY <1>1 DEF IInv, Memory, Loaded
<1>4. PICK rec, next_nonce, creations :
        /\ run' = [run EXCEPT !.facet = @ + 1,
                              !.proposed_facets = [@ EXCEPT ![f] = rec],
                              !.run_deployed = SetDefault(@, hash, rec),
                              !.next_nonce = next_nonce,
                              !.creations = creations]
        /\ \/ existing # NoRecord /\ rec = existing
           \/ existing = NoRecord /\ rec = created /\ CanCreate
  BY DEF PlanFacet, f, hash
<1>5. /\ run'.step = "facets" /\ run'.ledger = run.ledger
      /\ run'.proposed_facets = [run.proposed_facets EXCEPT ![f] = rec]
      /\ run'.run_deployed = SetDefault(run.run_deployed, hash, rec)
  BY <1>1, <1>4 DEF Run
<1>6. run.run_deployed \in [Initcodes -> FacetRecord] /\ run.proposed_facets \in [Facets -> FacetRecord]
  BY <1>1 DEF Run
<1>7. \A h \in Initcodes : run.run_deployed[h] # NoRecord => run'.run_deployed[h] = run.run_deployed[h]
  BY <1>2, <1>5, <1>6 DEF SetDefault
<1>8. rec # NoRecord /\ rec.initcodeHash = hash /\ CompleteOrUnread(rec)'
  <2>1. CASE existing # NoRecord /\ rec = existing
    <3>1. rec # NoRecord /\ rec.initcodeHash = hash
      BY <1>2, <2>1, ExistingHash
    <3>2. CompleteOrUnread(rec)
      <4>1. ASSUME NEW state \in {Loaded.current, Loaded.proposed}, rec = state.facets[f]
            PROVE  CompleteOrUnread(rec)
        <5>1. f \in FacetsOf(state)
          BY <1>2, <3>1, <4>1 DEF FacetsOf
        <5>2. QED
          BY <1>1, <1>3, <4>1, <5>1 DEF DetailsInv, LedgerComplete, MemoryComplete, Deploying, CompleteOrUnread
      <4>2. CASE rec = run.run_deployed[hash]
        BY <1>1, <1>2, <3>1, <4>2 DEF DetailsInv, MemoryComplete, Deploying
      <4>3. QED
        BY <2>1, <4>1, <4>2 DEF ExistingDeployment
    <3>3. QED
      BY <1>1, <1>2, <1>7, <3>1, <3>2, StillCompleteOrUnread
  <2>2. CASE existing = NoRecord /\ rec = created /\ CanCreate
    <3>1. NextNonce \in Addresses
      BY <2>2, CanCreateType
    <3>2. rec = Unread(rec.address, rec.initcodeHash) /\ rec.initcodeHash = hash /\ rec # NoRecord
      BY <1>2, <2>2, <3>1, UnreadType DEF NoRecord
    <3>3. run.run_deployed[hash] = NoRecord
      BY <1>2, <2>2 DEF ExistingDeployment, NoRecord
    <3>4. run'.run_deployed[hash] = rec
      BY <1>2, <1>5, <1>6, <3>3 DEF SetDefault
    <3>5. QED
      BY <3>2, <3>4 DEF CompleteOrUnread
  <2>3. QED
    BY <1>4, <2>1, <2>2
<1>9. ASSUME NEW p \in Proxies, NEW g \in FacetsOf(run.ledger[p].proposed)
      PROVE  CompleteOrUnread(run.ledger[p].proposed.facets[g])'
  <2>1. PICK record : record = run.ledger[p].proposed.facets[g]
    OBVIOUS
  <2>2. record # NoRecord /\ record.initcodeHash \in Initcodes
    BY <2>1, HeldFilledIn
  <2>3. CompleteOrUnread(record)
    BY <1>1, <2>1 DEF DetailsInv, MemoryComplete, Deploying
  <2>4. CompleteOrUnread(record)'
    BY <1>1, <1>7, <2>2, <2>3, StillCompleteOrUnread
  <2>5. QED
    BY <1>5, <2>1, <2>4
<1>10. ASSUME NEW g \in Facets, run'.proposed_facets[g] # NoRecord
       PROVE  CompleteOrUnread(run.proposed_facets[g])'
  <2>1. CASE run'.proposed_facets[g] = rec
    BY <1>8, <2>1
  <2>2. CASE run'.proposed_facets[g] = run.proposed_facets[g]
    <3>1. PICK record : record = run.proposed_facets[g]
      OBVIOUS
    <3>2. record # NoRecord /\ record.initcodeHash \in Initcodes
      BY <1>1, <1>10, <2>2, <3>1, HeldFilledIn
    <3>3. CompleteOrUnread(record)
      BY <1>1, <3>1, <3>2 DEF DetailsInv, MemoryComplete, Deploying
    <3>4. CompleteOrUnread(record)'
      BY <1>1, <1>7, <3>2, <3>3, StillCompleteOrUnread
    <3>5. QED
      BY <2>2, <3>1, <3>4
  <2>3. QED
    BY <1>2, <1>5, <1>6, <2>1, <2>2
<1>11. ASSUME NEW h \in Initcodes, run'.run_deployed[h] # NoRecord
       PROVE  CompleteOrUnread(run.run_deployed[h])'
  <2>1. CASE run'.run_deployed[h] = rec
    BY <1>8, <2>1
  <2>2. CASE run'.run_deployed[h] = run.run_deployed[h]
    <3>1. PICK record : record = run.run_deployed[h]
      OBVIOUS
    <3>2. record # NoRecord /\ record.initcodeHash \in Initcodes
      BY <1>11, <2>2, <3>1, HeldFilledIn
    <3>3. CompleteOrUnread(record)
      BY <1>1, <3>1, <3>2 DEF DetailsInv, MemoryComplete, Deploying
    <3>4. CompleteOrUnread(record)'
      BY <1>1, <1>7, <3>2, <3>3, StillCompleteOrUnread
    <3>5. QED
      BY <2>2, <3>1, <3>4
  <2>3. QED
    BY <1>2, <1>5, <1>6, <2>1, <2>2 DEF SetDefault
<1>12. MemoryComplete'
  BY <1>5, <1>9, <1>10, <1>11 DEF MemoryComplete, FacetsOf
<1>13. LedgerComplete' /\ WarnedAreFragile'
  BY <1>1, LedgerStaysComplete DEF DetailsInv, WarnedAreFragile
<1>14. QED
  BY <1>12, <1>13 DEF DetailsInv

(* What is planned besides facets is no record.                            *)
LEMMA PlanSelectorsDetails == IInv /\ DetailsInv /\ PlanSelectors => DetailsInv'
<1> SUFFICES ASSUME IInv, DetailsInv, PlanSelectors PROVE DetailsInv'
  OBVIOUS
<1>1. run \in Run /\ Deploying /\ UNCHANGED <<ledger, code, warned>>
  BY DEF IInv, TypeOK, PlanSelectors, Deploying, chain
<1>2. /\ run'.ledger = run.ledger /\ run'.proposed_facets = run.proposed_facets
      /\ run'.run_deployed = run.run_deployed
  BY <1>1 DEF PlanSelectors, Run
<1>3. QED
  BY <1>1, <1>2, LedgerStaysComplete, MemoryStaysComplete DEF DetailsInv, WarnedAreFragile

(* A proxy's plan done, its records are those the run has planned.         *)
LEMMA PlanMigrationDetails ==
  ASSUME IInv, DetailsInv, NEW storage_keys \in Detections, NEW unread, PlanMigration(storage_keys, unread)
  PROVE  DetailsInv'
<1>1. /\ run \in Run /\ run.step = "migration" /\ Deploying /\ run.proxy \in Proxies
      /\ UNCHANGED <<ledger, code, warned>>
  BY DEF IInv, TypeOK, PlanMigration, Planning, Deploying, chain
<1>2. PICK state, next_nonce, creations :
        /\ run' = NextProxy(state, next_nonce, creations)
        /\ state = NoState \/ state.facets = run.proposed_facets
  BY DEF PlanMigration, Proposed
<1>3. /\ run'.ledger = [run.ledger EXCEPT ![run.proxy] = [Loaded EXCEPT !.proposed = state]]
      /\ run'.proposed_facets = NoState.facets /\ run'.run_deployed = run.run_deployed
  BY <1>1, <1>2 DEF NextProxy, Run
<1>4. run.ledger \in [Proxies -> Entry] /\ Loaded \in Entry
  BY <1>1, LoadedWellFormed DEF Run
<1>5. ASSUME NEW record, CompleteOrUnread(record)
      PROVE  CompleteOrUnread(record)'
  BY <1>1, <1>3, <1>5 DEF CompleteOrUnread, Complete
<1>6. ASSUME NEW p \in Proxies, NEW f \in FacetsOf(run'.ledger[p].proposed)
      PROVE  CompleteOrUnread(run.ledger[p].proposed.facets[f])'
  <2>1. PICK record : record = run'.ledger[p].proposed.facets[f]
    OBVIOUS
  <2>2. f \in Facets /\ record # NoRecord
    BY <1>6, <2>1 DEF FacetsOf
  <2>3. CASE p # run.proxy
    <3>1. run'.ledger[p] = run.ledger[p]
      BY <1>3, <1>4, <2>3
    <3>2. CompleteOrUnread(record)
      BY <1>1, <1>6, <2>1, <3>1 DEF DetailsInv, MemoryComplete
    <3>3. QED
      BY <1>5, <2>1, <3>2
  <2>4. CASE p = run.proxy
    <3>1. run'.ledger[p].proposed = state
      BY <1>1, <1>3, <1>4, <2>4 DEF Entry
    <3>2. record = run.proposed_facets[f]
      BY <1>2, <2>1, <2>2, <3>1 DEF NoState
    <3>3. CompleteOrUnread(record)
      BY <1>1, <2>2, <3>2 DEF DetailsInv, MemoryComplete
    <3>4. QED
      BY <1>5, <2>1, <3>3
  <2>5. QED
    BY <2>3, <2>4
<1>7. ASSUME NEW h \in Initcodes, run'.run_deployed[h] # NoRecord
      PROVE  CompleteOrUnread(run.run_deployed[h])'
  <2>1. PICK record : record = run.run_deployed[h]
    OBVIOUS
  <2>2. CompleteOrUnread(record)
    BY <1>1, <1>3, <1>7, <2>1 DEF DetailsInv, MemoryComplete
  <2>3. QED
    BY <1>3, <1>5, <2>1, <2>2
<1>8. \A f \in Facets : run'.proposed_facets[f] = NoRecord
  BY <1>3 DEF NoState
<1>9. MemoryComplete'
  BY <1>6, <1>7, <1>8 DEF MemoryComplete
<1>10. QED
  BY <1>1, <1>9, LedgerStaysComplete DEF DetailsInv, WarnedAreFragile

(* Sending puts code where none was, and records nothing.                  *)
LEMMA SendDetails == IInv /\ DetailsInv /\ Send => DetailsInv'
<1> SUFFICES ASSUME IInv, DetailsInv, Send PROVE DetailsInv'
  OBVIOUS
<1>1. run \in Run /\ Deploying /\ ledger' = ledger /\ warned' = warned
  BY DEF IInv, TypeOK, Send, Deploying
<1>2. /\ run'.ledger = run.ledger /\ run'.proposed_facets = run.proposed_facets
      /\ run'.run_deployed = run.run_deployed
  BY <1>1 DEF Send, Run
<1>3. Carries(code, <<>>, code', <<>>)
  BY SendKeepsCode
<1>4. QED
  BY <1>1, <1>2, <1>3, LedgerStaysComplete, MemoryStaysComplete, WarnedStayFragile DEF DetailsInv

(* A facet is no absent one, and what is recorded of its creation is all   *)
(* that its constructor read.                                              *)
LEMMA RuntimeOfCreation ==
  ASSUME NEW hash \in Initcodes, NEW a
  PROVE  /\ Runtime(hash, a) # NoRuntime
         /\ Runtime(hash, deploy_environment(hash, a)) = Runtime(hash, a)
<1>1. Runtime(hash, a) # NoRuntime
  <2>1. Runtime(hash, a).initcode = hash /\ NoRuntime.initcode = NoHash
    BY DEF Runtime, NoRuntime
  <2>2. QED
    BY <2>1, NamesAssumption
<1>2. CASE hash \in ReadsEnvironment
  BY <1>1, <1>2 DEF deploy_environment
<1>3. CASE hash \notin ReadsEnvironment
  BY <1>1, <1>3 DEF Runtime
<1>4. QED
  BY <1>2, <1>3

(* Once its facet is mined, a record says of it all there is to say; and   *)
(* one whose constructor does not rebuild it is warned of.                 *)
LEMMA MineCompletes ==
  ASSUME IInv, RecordsInv, FinishDeploy, NEW record \in Unmined
  PROVE  /\ code[record.address] = FacetCode(record.initcodeHash)
         /\ Mine(record).codeHash = Runtime(record.initcodeHash, record.address)
         /\ Mine(record).creation = deploy_environment(record.initcodeHash, record.address)
         /\ record.initcodeHash \in Fragile <=>
              Replay(record.initcodeHash, Mine(record).creation) # Mine(record).codeHash
<1> DEFINE hash == record.initcodeHash
<1>1. /\ record.address \in Addresses /\ hash \in Initcodes
      /\ run.run_deployed[hash] = record /\ record # NoRecord /\ record \in FacetRecord
  BY MineType
<1>2. code[record.address] = FacetCode(hash)
  <2>1. Lands(record.address, FacetCode(hash), code, <<>>)
    BY <1>1 DEF RecordsInv, ReusableLands, Deploying, FinishDeploy
  <2>2. QED
    BY <2>1 DEF Lands
<1>3. /\ Mine(record).codeHash = code_hash(record.address, code)
      /\ Mine(record).creation = deploy_environment(hash, record.address)
  BY <1>1 DEF Mine, FacetRecord
<1>4. Mine(record).codeHash = Runtime(hash, record.address)
  BY <1>2, <1>3 DEF code_hash, FacetCode
<1>5. CASE hash \in Fragile
  BY <1>1, <1>2, <1>3, <1>4, <1>5, RuntimeOfCreation DEF Replay
<1>6. CASE hash \notin Fragile
  BY <1>1, <1>2, <1>3, <1>4, <1>6, RuntimeOfCreation DEF Replay
<1>7. QED
  BY <1>5, <1>6

(* So what deploy writes at its end is complete, and it warns of no more   *)
(* than it should.                                                         *)
LEMMA FinishDeployDetails == IInv /\ RecordsInv /\ DetailsInv /\ FinishDeploy => DetailsInv'
<1> SUFFICES ASSUME IInv, RecordsInv, DetailsInv, FinishDeploy PROVE DetailsInv'
  OBVIOUS
<1>1. run' = Idle /\ code' = code /\ warned' = warned \union Unreproduced /\ Deploying
  BY DEF FinishDeploy, Deploying, chain
<1>2. WarnedAreFragile'
  <2>1. ASSUME NEW a \in Unreproduced
        PROVE  \E h \in Fragile : code[a] = FacetCode(h)
    <3>1. PICK record \in Unmined :
            /\ a = record.address
            /\ Replay(record.initcodeHash, Mine(record).creation) # Mine(record).codeHash
      BY DEF Unreproduced
    <3>2. QED
      BY <3>1, MineCompletes
  <2>2. QED
    BY <1>1, <2>1 DEF DetailsInv, WarnedAreFragile
<1>3. ASSUME NEW p \in Proxies, NEW f \in FacetsOf(ledger'[p].proposed)
      PROVE  Complete(ledger[p].proposed.facets[f].initcodeHash, ledger[p].proposed.facets[f].address,
                      ledger[p].proposed.facets[f])'
  <2> DEFINE state == run.ledger[p].proposed
             record == state.facets[f]
  <2>1. state \in DeploymentState /\ ledger'[p].proposed = Mined(state)
    BY FinishDeployEffect
  <2>2. f \in FacetsOf(state) /\ f \in Facets
    BY <1>3, <2>1, MinedRoutes DEF FacetsOf
  <2>3. /\ record # NoRecord /\ record.initcodeHash \in Initcodes
        /\ CompleteOrUnread(record)
    BY <1>1, <2>2, HeldFilledIn DEF DetailsInv, MemoryComplete
  <2>4. CASE record \in Unmined
    <3>1. ledger'[p].proposed.facets[f] = Mine(record)
      BY <2>1, <2>2, <2>4, MinedSame
    <3>2. Mine(record).address = record.address /\ Mine(record).initcodeHash = record.initcodeHash
      BY <2>4, MineType
    <3>3. record.initcodeHash \in Fragile => record.address \in Unreproduced
      BY <2>4, MineCompletes DEF Unreproduced
    <3>4. QED
      BY <1>1, <2>4, <3>1, <3>2, <3>3, MineCompletes DEF Complete
  <2>5. CASE record \notin Unmined
    <3>1. ledger'[p].proposed.facets[f] = record
      BY <2>1, <2>2, <2>5, MinedSame
    <3>2. record # Unread(record.address, record.initcodeHash) \/ run.run_deployed[record.initcodeHash] # record
      BY <2>3, <2>5 DEF Unmined, Unread
    <3>3. Complete(record.initcodeHash, record.address, record)
      BY <2>3, <3>2 DEF CompleteOrUnread
    <3>4. QED
      BY <1>1, <3>1, <3>3 DEF Complete
  <2>6. QED
    BY <2>4, <2>5
<1>4. ASSUME NEW p \in Proxies
      PROVE  /\ \A f \in FacetsOf(ledger'[p].current) :
                   Complete(ledger[p].current.facets[f].initcodeHash, ledger[p].current.facets[f].address,
                            ledger[p].current.facets[f])'
             /\ \A a \in Archived(ledger'[p]) : ledger'[p].history[a].initcodeHash # NoHash =>
                   Complete(ledger[p].history[a].initcodeHash, a, ledger[p].history[a])'
  <2>1. ledger'[p].current = ledger[p].current /\ ledger'[p].history = ledger[p].history
    BY FinishDeployEffect
  <2>2. QED
    BY <1>1, <2>1 DEF DetailsInv, LedgerComplete, Complete, Archived
<1>5. LedgerComplete'
  BY <1>3, <1>4 DEF LedgerComplete
<1>6. QED
  BY <1>1, <1>2, <1>5, IdleDetails

(* A facet is filed away with all that was recorded of it.                 *)
LEMMA FinishAcceptDetails == IInv /\ DetailsInv /\ FinishAccept => DetailsInv'
<1> SUFFICES ASSUME IInv, DetailsInv, FinishAccept PROVE DetailsInv'
  OBVIOUS
<1>1. run' = Idle /\ code' = code /\ warned' = warned
  BY DEF FinishAccept, chain
<1>2. ASSUME NEW p \in Proxies
      PROVE  /\ \A state \in {ledger'[p].current, ledger'[p].proposed} : \A f \in FacetsOf(state) :
                   Complete(state.facets[f].initcodeHash, state.facets[f].address, state.facets[f])
             /\ \A a \in Archived(ledger'[p]) : ledger'[p].history[a].initcodeHash # NoHash =>
                   Complete(ledger'[p].history[a].initcodeHash, a, ledger'[p].history[a])
  <2> DEFINE entry == ledger[p]
             retired == RetiredEntries(entry.current, entry.proposed)
  <2>1. /\ \A state \in {entry.current, entry.proposed} : \A f \in FacetsOf(state) :
              Complete(state.facets[f].initcodeHash, state.facets[f].address, state.facets[f])
        /\ \A a \in Archived(entry) : entry.history[a].initcodeHash # NoHash =>
              Complete(entry.history[a].initcodeHash, a, entry.history[a])
    BY DEF DetailsInv, LedgerComplete
  <2>2. CASE ledger'[p] = entry
    BY <2>1, <2>2
  <2>3. CASE ledger'[p] = AcceptEntry(entry)
    <3>1. /\ ledger'[p].current = entry.proposed /\ ledger'[p].proposed = NoState
          /\ ledger'[p].history = UpdateHistory(entry.history, retired)
      BY <2>3 DEF AcceptEntry
    <3>2. ASSUME NEW a \in Archived(ledger'[p]), ledger'[p].history[a].initcodeHash # NoHash
          PROVE  Complete(ledger'[p].history[a].initcodeHash, a, ledger'[p].history[a])
      <4>1. a \in Addresses /\ ledger'[p].history[a] # NoEntry /\ a # ZERO_ADDRESS
        BY DEF Archived, Addresses, ZERO_ADDRESS
      <4>2. CASE retired[a] # NoEntry
        <5>1. ledger'[p].history[a] = HistoryEntries(entry.current)[a]
          BY <3>1, <4>1, <4>2 DEF UpdateHistory, RetiredEntries
        <5>2. a # entry.current.selectors
          <6>1. ArchivedAs(entry.current.gitCommit, FacetsOf(entry.current), NoRecord).initcodeHash = NoHash
            BY DEF ArchivedAs, NoRecord
          <6>2. QED
            BY <3>2, <4>1, <5>1, <6>1 DEF HistoryEntries
        <5>3. PICK f \in Facets :
                /\ entry.current.facets[f].address = a
                /\ ledger'[p].history[a] = ArchivedAs(entry.current.gitCommit, {f}, entry.current.facets[f])
          BY <4>1, <5>1, <5>2 DEF HistoryEntries
        <5>4. f \in FacetsOf(entry.current)
          BY <4>1, <5>3 DEF FacetsOf, NoRecord
        <5>5. Complete(entry.current.facets[f].initcodeHash, a, entry.current.facets[f])
          BY <2>1, <5>3, <5>4
        <5>6. QED
          BY <5>3, <5>5 DEF Complete, ArchivedAs
      <4>3. CASE retired[a] = NoEntry
        <5>1. ledger'[p].history[a] = entry.history[a]
          BY <3>1, <4>1, <4>3 DEF UpdateHistory
        <5>2. QED
          BY <2>1, <3>2, <4>1, <5>1 DEF Archived
      <4>4. QED
        BY <4>2, <4>3
    <3>3. FacetsOf(NoState) = {}
      BY DEF FacetsOf, NoState
    <3>4. QED
      BY <2>1, <3>1, <3>2, <3>3
  <2>4. QED
    BY <2>2, <2>3, FinishAcceptEffect
<1>3. LedgerComplete'
  BY <1>1, <1>2 DEF LedgerComplete, Complete
<1>4. QED
  BY <1>1, <1>3, IdleDetails DEF DetailsInv, WarnedAreFragile

(* What is loaded is complete, and a run starts with nothing of its own.   *)
LEMMA StartDetails ==
  ASSUME DetailsInv, StartAccept \/ \E all \in BOOLEAN : StartDeploy(all)
  PROVE  DetailsInv'
<1>1. UNCHANGED <<ledger, code, warned>>
  BY DEF StartAccept, StartDeploy, chain
<1>2. /\ run'.ledger = ledger /\ run'.proposed_facets = NoState.facets
      /\ run'.run_deployed = Idle.run_deployed
  BY DEF StartAccept, StartDeploy, Idle
<1>3. /\ \A f \in Facets : run'.proposed_facets[f] = NoRecord
      /\ \A h \in Initcodes : run'.run_deployed[h] = NoRecord
  BY <1>2 DEF NoState, Idle
<1>4. LedgerComplete'
  BY <1>1, LedgerStaysComplete DEF DetailsInv
<1>5. MemoryComplete'
  BY <1>1, <1>2, <1>3, <1>4 DEF MemoryComplete, LedgerComplete, CompleteOrUnread
<1>6. QED
  BY <1>1, <1>4, <1>5 DEF DetailsInv, WarnedAreFragile

(* Nothing is recorded before the first command, and nothing warned of.    *)
LEMMA InitDetails == Init => DetailsInv
<1> SUFFICES ASSUME Init PROVE DetailsInv
  OBVIOUS
<1>1. \A p \in Proxies : /\ FacetsOf(ledger[p].current) = {} /\ FacetsOf(ledger[p].proposed) = {}
                         /\ Archived(ledger[p]) = {}
  BY DEF Init, NoDeployment, NoState, Archived, FacetsOf
<1>2. LedgerComplete
  BY <1>1 DEF LedgerComplete
<1>3. QED
  BY <1>2 DEF Init, Idle, DetailsInv, MemoryComplete, Deploying, WarnedAreFragile

(* Every step keeps what the records say.                                  *)
LEMMA NextDetails == IInv /\ RecordsInv /\ DetailsInv /\ [Next]_vars => DetailsInv'
<1> SUFFICES ASSUME IInv, RecordsInv, DetailsInv, [Next]_vars PROVE DetailsInv'
  OBVIOUS
<1>1. CASE StartAccept \/ \E all \in BOOLEAN : StartDeploy(all)
  BY <1>1, StartDetails
<1>2. CASE PlanFacet \/ PlanSelectors \/ Send
  BY <1>2, PlanFacetDetails, PlanSelectorsDetails, SendDetails
<1>3. ASSUME NEW storage_keys \in Detections, NEW unread \in SUBSET Facets, PlanMigration(storage_keys, unread)
      PROVE  DetailsInv'
  BY <1>3, PlanMigrationDetails
<1>4. CASE FinishDeploy \/ FinishAccept
  BY <1>4, FinishDeployDetails, FinishAcceptDetails
<1>5. CASE \/ FailDeploy \/ Crash
           \/ \E storage_keys \in Detections, unread \in SUBSET Facets : RefuseMigration(storage_keys, unread)
  <2>1. run' = Idle /\ UNCHANGED <<ledger, code, warned>>
    BY <1>5 DEF FailDeploy, RefuseMigration, Crash, chain
  <2>2. QED
    BY <2>1, LedgerStaysComplete, IdleDetails DEF DetailsInv, WarnedAreFragile
<1>6. CASE CheckProxy
  <2>1. run'.step = "check" /\ UNCHANGED <<ledger, code, warned>>
    BY <1>6 DEF CheckProxy, chain, IInv, TypeOK, Run
  <2>2. QED
    BY <2>1, LedgerStaysComplete DEF DetailsInv, MemoryComplete, Deploying, WarnedAreFragile
<1>7. CASE \/ \E c \in Commits : MoveHead(c)
           \/ ForeignTransaction
           \/ \E p \in Proxies : \E m \in Addresses : Execute(p, m)
           \/ UNCHANGED vars
  <2>1. UNCHANGED <<ledger, run, code, warned>>
    BY <1>7 DEF MoveHead, ForeignTransaction, Execute, vars, chain
  <2>2. QED
    BY <2>1, LedgerStaysComplete, MemoryStaysComplete DEF DetailsInv, MemoryComplete, Deploying, WarnedAreFragile
<1>8. QED
  BY <1>1, <1>2, <1>3, <1>4, <1>5, <1>6, <1>7 DEF Next, Tool

(* verify fails on a facet the ledger records, be it installed, staged or  *)
(* archived, exactly if deploy warned of it, and on nothing else of what   *)
(* is recorded: for any sources, proxies sharing any facets, constructors  *)
(* that read their environment or do not replay, and whatever was reused,  *)
(* lost to a crash, raced by other transactions or reverted.               *)
THEOREM LedgerVerifies == Spec => []RecordsVerify
<1>1. ASSUME IInv, WarnedAreFragile, NEW hash \in Initcodes, NEW a \in Addresses, NEW record,
             record.initcodeHash = hash, Complete(hash, a, record), code[a] = FacetCode(hash)
      PROVE  VerifyFacet(hash, a, record, code) <=> a \notin warned
  <2>1. record.codeHash = Runtime(hash, a) /\ record.creation = deploy_environment(hash, a)
    BY <1>1 DEF Complete
  <2>2. code_hash(a, code) = Runtime(hash, a) /\ Runtime(hash, a) # NoRuntime
    BY <1>1, RuntimeOfCreation DEF code_hash, FacetCode
  <2>3. CASE hash \in Fragile
    <3>1. a \in warned
      BY <1>1, <2>3 DEF Complete
    <3>2. Replay(hash, record.creation) = NoRuntime
      BY <2>3 DEF Replay
    <3>3. QED
      BY <3>1, <3>2 DEF VerifyFacet
  <2>4. CASE hash \notin Fragile
    <3>1. a \notin warned
      <4>1. \A h \in Fragile : h # hash /\ FacetCode(h).initcode = h /\ FacetCode(hash).initcode = hash
        BY <2>4 DEF FacetCode
      <4>2. QED
        BY <1>1, <4>1 DEF WarnedAreFragile
    <3>2. Replay(hash, record.creation) = Runtime(hash, a)
      BY <2>1, <2>4, RuntimeOfCreation DEF Replay
    <3>3. record.creation # ZERO_ADDRESS => record.creation = a
      BY <2>1 DEF deploy_environment
    <3>4. QED
      BY <1>1, <2>1, <2>2, <3>1, <3>2, <3>3 DEF VerifyFacet
  <2>5. QED
    BY <2>3, <2>4
<1>2. IInv /\ RecordsInv /\ DetailsInv => RecordsVerify
  <2> SUFFICES ASSUME IInv, RecordsInv, DetailsInv, NEW p \in Proxies
               PROVE  /\ \A state \in {ledger[p].current, ledger[p].proposed} :
                           /\ VerifySelectors(state, code)
                           /\ \A f \in FacetsOf(state) :
                                VerifyFacet(facet_initcode[state.gitCommit][p][f], state.facets[f].address,
                                            state.facets[f], code)
                                  <=> state.facets[f].address \notin warned
                      /\ ledger[p].proposed # NoState => VerifyProposedSet(p, ledger[p].proposed)
                      /\ \A a \in Archived(ledger[p]) :
                           VerifyHistoryEntry(p, a, ledger[p].history[a], code) <=> a \notin warned
    BY DEF RecordsVerify
  <2>1. ASSUME NEW state \in {ledger[p].current, ledger[p].proposed}
        PROVE  /\ VerifySelectors(state, code)
               /\ \A f \in FacetsOf(state) :
                    VerifyFacet(facet_initcode[state.gitCommit][p][f], state.facets[f].address, state.facets[f], code)
                      <=> state.facets[f].address \notin warned
    <3>1. state \in DeploymentState /\ WellFormed(state) /\ StateLands(p, state, code, <<>>)
      BY DEF IInv, TypeOK, Entry, RecordsWellFormed, RecordsInv, LedgerHolds
    <3>2. ASSUME NEW f \in FacetsOf(state)
          PROVE  VerifyFacet(facet_initcode[state.gitCommit][p][f], state.facets[f].address, state.facets[f], code)
                   <=> state.facets[f].address \notin warned
      <4>1. /\ state.facets[f].initcodeHash = facet_initcode[state.gitCommit][p][f]
            /\ state.facets[f].initcodeHash \in Initcodes /\ state.facets[f].address \in Addresses
            /\ code[state.facets[f].address] = FacetCode(state.facets[f].initcodeHash)
        BY <3>1, RecordedFilledIn DEF StateLands, FacetLands, Lands, FacetsOf
      <4>2. Complete(state.facets[f].initcodeHash, state.facets[f].address, state.facets[f])
        BY DEF DetailsInv, LedgerComplete
      <4>3. QED
        BY <1>1, <4>1, <4>2 DEF DetailsInv
    <3>3. VerifySelectors(state, code)
      BY <3>1, LandsNow DEF StateLands, SelectorsLand, VerifySelectors
    <3>4. QED
      BY <3>2, <3>3
  <2>2. ledger[p].proposed # NoState => VerifyProposedSet(p, ledger[p].proposed)
    BY DEF RecordsInv, LedgerHolds, StateLands, VerifyProposedSet, SourcesAt
  <2>3. ASSUME NEW a \in Archived(ledger[p])
        PROVE  VerifyHistoryEntry(p, a, ledger[p].history[a], code) <=> a \notin warned
    <3> DEFINE entry == ledger[p].history[a]
    <3>1. a \in Addresses /\ entry \in HistoryEntry
      BY DEF Archived, IInv, TypeOK, Entry
    <3>2. EntryHolds(p, a, entry, code) /\ code[a] # NoCode
      BY DEF RecordsInv, LedgerHolds, HistoryHolds
    <3>3. CASE entry.initcodeHash = NoHash
      <4>1. code[a] = SelectorsRuntime(entry.gitCommit, entry.source)
        BY <3>2, <3>3 DEF EntryHolds
      <4>2. code[a].kind = "selectors"
        BY <3>2, <4>1 DEF SelectorsRuntime, SelectorsCode
      <4>3. \A h : FacetCode(h).kind = "facet"
        BY DEF FacetCode
      <4>4. a \notin warned
        BY <4>2, <4>3 DEF DetailsInv, WarnedAreFragile
      <4>5. QED
        BY <3>3, <4>1, <4>4 DEF VerifyHistoryEntry
    <3>4. CASE entry.initcodeHash # NoHash
      <4>1. /\ entry.source # {} /\ entry.initcodeHash \in Initcodes
            /\ \A f \in entry.source : facet_initcode[entry.gitCommit][p][f] = entry.initcodeHash
            /\ code[a] = FacetCode(entry.initcodeHash)
        BY <3>1, <3>2, <3>4 DEF EntryHolds, HistoryEntry
      <4>2. Complete(entry.initcodeHash, a, entry)
        BY <3>4 DEF DetailsInv, LedgerComplete
      <4>3. VerifyFacet(entry.initcodeHash, a, entry, code) <=> a \notin warned
        BY <1>1, <3>1, <4>1, <4>2 DEF DetailsInv
      <4>4. QED
        BY <3>4, <4>1, <4>3 DEF VerifyHistoryEntry
    <3>5. QED
      BY <3>3, <3>4
  <2>4. QED
    BY <2>1, <2>2, <2>3
<1>3. Init => DetailsInv
  BY InitDetails
<1>4. IInv /\ RecordsInv /\ DetailsInv /\ [Next]_vars => DetailsInv'
  BY NextDetails
<1>5. QED
  BY <1>2, <1>3, <1>4, RecordsHold, PTL DEF Spec

-----------------------------------------------------------------------------
(* Running deploy again.                                                   *)

(* What is staged from the commit at hand is what facetSrc resolves to,    *)
(* bytecode and all.                                                       *)
LEMMA StagedIsSource ==
  ASSUME IInv, RecordsInv, run.step \in {"facets", "migration"},
         ledger[run.proxy].proposed.gitCommit = run.commit
  PROVE  LET staged == ledger[run.proxy].proposed
         IN  /\ FacetsOf(staged) = SourceFacets
             /\ \A f \in SourceFacets :
                  staged.facets[f].initcodeHash = facet_initcode[run.commit][run.proxy][f]
             /\ WellFormed(staged) /\ staged # NoState
             /\ SelectorsLand(staged, code, <<>>)
<1> DEFINE staged == ledger[run.proxy].proposed
<1>1. run.commit \in Commits /\ run.proxy \in Proxies
  BY DEF IInv, Planning
<1>2. staged # NoState
  BY <1>1, NamesAssumption DEF NoState
<1>3. StateLands(run.proxy, staged, code, <<>>)
  BY <1>1 DEF RecordsInv, LedgerHolds
<1>4. FacetsOf(staged) = SourceFacets
  BY <1>2, <1>3 DEF StateLands, SourcesAt, SourceFacets, Source
<1>5. \A f \in SourceFacets : staged.facets[f].initcodeHash = facet_initcode[run.commit][run.proxy][f]
  BY <1>3, <1>4 DEF StateLands, FacetLands
<1>6. WellFormed(staged)
  BY <1>1 DEF IInv, RecordsWellFormed
<1>7. QED
  BY <1>2, <1>3, <1>4, <1>5, <1>6 DEF StateLands

(* What the run loaded is what the ledger holds, for the proxy at hand.    *)
LEMMA LoadedIsLedger ==
  ASSUME IInv, RecordsInv, run.step \in {"facets", "migration"}
  PROVE  Loaded.current = ledger[run.proxy].current /\ Loaded.proposed = ledger[run.proxy].proposed
<1>1. run.proxy \in Proxies /\ run.proxy >= run.proxy
  BY DEF IInv, Planning, Proxies
<1>2. QED
  BY <1>1 DEF IInv, Memory, RecordsInv, Untouched, Deploying, Loaded

(* Planning a facet of the staged commit again reuses a copy.              *)
LEMMA PlanFacetReuses == IInv /\ RecordsInv /\ RerunInv /\ PlanFacet => RerunInv'
<1> SUFFICES ASSUME IInv, RecordsInv, RerunInv, PlanFacet PROVE RerunInv'
  OBVIOUS
<1> DEFINE f == Source[run.facet]
           hash == facet_initcode[run.commit][run.proxy][f]
           existing == ExistingDeployment(f, hash)
<1>1. run \in Run /\ run.step = "facets" /\ run.commit \in Commits /\ run.proxy \in Proxies
  BY DEF IInv, TypeOK, PlanFacet, Planning
<1>2. f \in Facets /\ hash \in Initcodes /\ f \in SourceFacets /\ hash # NoHash
  BY <1>1, SourceType, SourcesAssumption, NamesAssumption DEF PlanFacet, SourceFacets
<1>3. ledger' = ledger
  BY DEF PlanFacet
<1>4. PICK rec :
        /\ rec = existing \/ existing = NoRecord
        /\ run'.proposed_facets = [run.proposed_facets EXCEPT ![f] = rec]
        /\ run'.step = "facets" /\ run'.commit = run.commit /\ run'.proxy = run.proxy
        /\ run'.ledger = run.ledger /\ run'.redeploy_all = run.redeploy_all
  <2> DEFINE made == Unread(NextNonce, hash)
             Use(rec, next_nonce, creations) ==
               [run EXCEPT !.facet = @ + 1,
                           !.proposed_facets = [@ EXCEPT ![f] = rec],
                           !.run_deployed = SetDefault(@, hash, rec),
                           !.next_nonce = next_nonce,
                           !.creations = creations]
  <2>1. ASSUME NEW rec, NEW next_nonce, NEW creations
        PROVE  /\ Use(rec, next_nonce, creations).proposed_facets = [run.proposed_facets EXCEPT ![f] = rec]
               /\ Use(rec, next_nonce, creations).step = run.step
               /\ Use(rec, next_nonce, creations).commit = run.commit
               /\ Use(rec, next_nonce, creations).proxy = run.proxy
               /\ Use(rec, next_nonce, creations).ledger = run.ledger
               /\ Use(rec, next_nonce, creations).redeploy_all = run.redeploy_all
    BY <1>1 DEF Run
  <2>2. \/ run' = Use(existing, run.next_nonce, run.creations)
        \/ existing = NoRecord /\ run' = Use(made, NextNonce + 1, Reserve(FacetCode(hash)))
    BY DEF PlanFacet
  <2> HIDE DEF Use, made, existing, hash, f
  <2>3. CASE run' = Use(existing, run.next_nonce, run.creations)
    BY <1>1, <2>1, <2>3
  <2>4. CASE existing = NoRecord /\ run' = Use(made, NextNonce + 1, Reserve(FacetCode(hash)))
    BY <1>1, <2>1, <2>4
  <2>5. QED
    BY <2>2, <2>3, <2>4
<1>5. ASSUME ~run.redeploy_all, ledger[run.proxy].proposed.gitCommit = run.commit
      PROVE  ReusesFacet(ledger[run.proxy], f, rec)
  <2>1. ledger[run.proxy].proposed.facets[f].initcodeHash = hash
    BY <1>1, <1>2, <1>5, StagedIsSource
  <2>2. existing \in {ledger[run.proxy].current.facets[f], ledger[run.proxy].proposed.facets[f]}
        /\ existing.initcodeHash = hash
    BY <1>1, <1>5, <2>1, LoadedIsLedger DEF ExistingDeployment
  <2>3. existing # NoRecord
    BY <1>2, <2>2 DEF NoRecord
  <2>4. QED
    BY <1>4, <2>2, <2>3 DEF ReusesFacet
<1>6. ASSUME ~run.redeploy_all, ledger[run.proxy].proposed.gitCommit = run.commit,
             NEW g \in Facets, run'.proposed_facets[g] # NoRecord
      PROVE  ReusesFacet(ledger[run.proxy], g, run'.proposed_facets[g])
  <2>1. CASE g = f
    BY <1>1, <1>4, <1>5, <1>6, <2>1 DEF Run
  <2>2. CASE g # f
    <3>1. run'.proposed_facets[g] = run.proposed_facets[g]
      BY <1>1, <1>4, <2>2 DEF Run
    <3>2. QED
      BY <1>1, <1>6, <3>1 DEF RerunInv, RerunPlans, Deploying
  <2>3. QED
    BY <2>1, <2>2
<1> HIDE DEF f, hash, existing
<1>7. RerunPlans'
  BY <1>1, <1>3, <1>4, <1>6 DEF RerunInv, RerunPlans, Deploying
<1>8. QED
  BY <1>4, <1>7 DEF RerunInv, AllPlanned

(* So does planning its selectors().                                       *)
LEMMA PlanSelectorsReuses == IInv /\ RecordsInv /\ RerunInv /\ PlanSelectors => RerunInv'
<1> SUFFICES ASSUME IInv, RecordsInv, RerunInv, PlanSelectors PROVE RerunInv'
  OBVIOUS
<1> DEFINE runtime == SelectorsRuntime(run.commit, SourceFacets)
           live == ledger[run.proxy].current
           staged == ledger[run.proxy].proposed
           prior == IF staged.selectors # ZERO_ADDRESS THEN staged.selectors ELSE live.selectors
           reusable == ~run.redeploy_all /\ prior # ZERO_ADDRESS /\ code[prior] = runtime
<1>1. run \in Run /\ run.step = "facets" /\ run.commit \in Commits /\ run.proxy \in Proxies
  BY DEF IInv, TypeOK, PlanSelectors, Planning
<1>2. ledger' = ledger
  BY DEF PlanSelectors
<1>3. /\ run'.proposed_facets = run.proposed_facets
      /\ run'.step = "migration" /\ run'.commit = run.commit /\ run'.proxy = run.proxy
      /\ run'.ledger = run.ledger /\ run'.redeploy_all = run.redeploy_all
      /\ \/ runtime = NoCode /\ run'.selectors_impl = ZERO_ADDRESS
         \/ reusable /\ run'.selectors_impl = prior
         \/ runtime # NoCode /\ ~reusable
  <2>1. Loaded.current = live /\ Loaded.proposed = staged
    BY <1>1, LoadedIsLedger
  <2>2. QED
    BY <1>1, <2>1 DEF PlanSelectors, Run
<1>4. ASSUME ~run.redeploy_all, staged.gitCommit = run.commit
      PROVE  ReusesSelectors(ledger[run.proxy], run'.selectors_impl)
  <2>1. FacetsOf(staged) = SourceFacets /\ WellFormed(staged) /\ staged # NoState
        /\ SelectorsLand(staged, code, <<>>)
    BY <1>1, <1>4, StagedIsSource
  <2>2. CASE staged.selectors # ZERO_ADDRESS
    <3>1. runtime # NoCode /\ code[staged.selectors] = runtime
      BY <1>4, <2>1, <2>2, LandsNow DEF SelectorsLand
    <3>2. QED
      BY <1>3, <1>4, <2>2, <3>1 DEF ReusesSelectors
  <2>3. CASE staged.selectors = ZERO_ADDRESS
    <3>1. Serving(staged, SELECTORS_SELECTOR) # {}
      BY <2>1, <2>3, NamesAssumption DEF WellFormed, SelectorOwners
    <3>2. runtime = NoCode
      BY <1>4, <2>1, <3>1 DEF Serving, SelectorsRuntime
    <3>3. run'.selectors_impl \in {ZERO_ADDRESS, live.selectors}
      BY <1>3, <2>3, <3>2
    <3>4. QED
      BY <2>3, <3>3 DEF ReusesSelectors
  <2>4. QED
    BY <2>2, <2>3
<1> HIDE DEF runtime, prior, reusable
<1>5. RerunPlans'
  BY <1>1, <1>2, <1>3, <1>4 DEF RerunInv, RerunPlans, Deploying
<1>6. QED
  BY <1>3, <1>5 DEF RerunInv, AllPlanned

(* And what is staged in the end is what was planned.                      *)
LEMMA PlanMigrationReuses ==
  ASSUME IInv, RecordsInv, RerunInv, NEW storage_keys, NEW unread, PlanMigration(storage_keys, unread)
  PROVE  RerunInv'
<1>1. run \in Run /\ run.step = "migration" /\ run.commit \in Commits /\ run.proxy \in Proxies
      /\ run.facet = Len(Source) + 1
  BY DEF IInv, TypeOK, PlanMigration, Planning
<1>2. ledger' = ledger
  BY DEF PlanMigration
<1>3. PICK state, next_nonce, creations :
        /\ state = NoState \/ \E m : state = Proposed(m)
        /\ run' = NextProxy(state, next_nonce, creations)
  BY DEF PlanMigration
<1>4. /\ run'.step = (IF run.proxy = NProxies THEN "send" ELSE "facets")
      /\ run'.proxy = run.proxy + 1 /\ run'.proposed_facets = NoState.facets
      /\ run'.commit = run.commit /\ run'.redeploy_all = run.redeploy_all
      /\ \A p \in Proxies : /\ p # run.proxy => run'.ledger[p] = run.ledger[p]
                            /\ p = run.proxy => run'.ledger[p].proposed = state
  BY <1>1, <1>3, NextProxyEffect
<1>5. ASSUME ~run.redeploy_all, ledger[run.proxy].proposed.gitCommit = run.commit, state # NoState
      PROVE  /\ \A f \in Facets : ReusesFacet(ledger[run.proxy], f, state.facets[f])
             /\ ReusesSelectors(ledger[run.proxy], state.selectors)
  <2>1. state.facets = run.proposed_facets /\ state.selectors = run.selectors_impl
    BY <1>3, <1>5 DEF Proposed
  <2>2. ReusesSelectors(ledger[run.proxy], state.selectors)
    BY <1>1, <1>5, <2>1 DEF RerunInv, RerunPlans, Deploying
  <2>3. ASSUME NEW f \in Facets
        PROVE  ReusesFacet(ledger[run.proxy], f, run.proposed_facets[f])
    <3>1. CASE run.proposed_facets[f] # NoRecord
      BY <1>1, <1>5, <3>1 DEF RerunInv, RerunPlans, Deploying
    <3>2. CASE run.proposed_facets[f] = NoRecord
      <4>1. FacetsOf(Proposed(ZERO_ADDRESS)) = SourceFacets
        BY <1>1, ProposedSet
      <4>2. f \notin SourceFacets
        BY <3>2, <4>1 DEF FacetsOf, Proposed
      <4>3. FacetsOf(ledger[run.proxy].proposed) = SourceFacets
        BY <1>1, <1>5, StagedIsSource
      <4>4. ledger[run.proxy].proposed.facets[f] = NoRecord
        BY <4>2, <4>3 DEF FacetsOf
      <4>5. QED
        BY <3>2, <4>4 DEF ReusesFacet
    <3>3. QED
      BY <3>1, <3>2
  <2>4. QED
    BY <2>1, <2>2, <2>3
<1>6. ASSUME NEW p \in Proxies, ~run.redeploy_all, ledger[p].proposed.gitCommit = run.commit,
             p < run.proxy + 1, run'.ledger[p].proposed # NoState
      PROVE  /\ \A f \in Facets : ReusesFacet(ledger[p], f, run'.ledger[p].proposed.facets[f])
             /\ ReusesSelectors(ledger[p], run'.ledger[p].proposed.selectors)
  <2>1. CASE p = run.proxy
    BY <1>4, <1>5, <1>6, <2>1
  <2>2. CASE p # run.proxy
    <3>1. p < run.proxy
      BY <1>1, <1>6, <2>2 DEF Proxies
    <3>2. run'.ledger[p] = run.ledger[p]
      BY <1>4, <2>2
    <3>3. QED
      BY <1>1, <1>6, <3>1, <3>2 DEF RerunInv, RerunPlans, Deploying
  <2>3. QED
    BY <2>1, <2>2
<1>7. RerunPlans'
  <2>1. run'.step # "migration" /\ \A f \in Facets : run'.proposed_facets[f] = NoRecord
    BY <1>4 DEF NoState
  <2>2. QED
    BY <1>2, <1>4, <1>6, <2>1 DEF RerunPlans
<1>8. AllPlanned'
  BY <1>4 DEF AllPlanned
<1>9. QED
  BY <1>7, <1>8 DEF RerunInv

(* A migration is planned, or refused, on whatever of the slots and of the *)
(* installed facets is read.                                               *)
PlansMigration == \E storage_keys \in Detections, unread \in SUBSET Facets : PlanMigration(storage_keys, unread)
RefusesMigration == \E storage_keys \in Detections, unread \in SUBSET Facets : RefuseMigration(storage_keys, unread)

(* Nothing else touches a plan but to send it or to drop it.               *)
LEMMA OtherStepsReuse ==
  ASSUME IInv, RerunInv, [Next]_vars, ~PlanFacet, ~PlanSelectors, ~PlansMigration
  PROVE  RerunInv'
<1>1. run \in Run
  BY DEF IInv, TypeOK
<1>2. CASE run'.step \in {"idle", "check"}
  BY <1>2 DEF RerunInv, RerunPlans, AllPlanned, Deploying
<1>3. CASE UNCHANGED <<ledger, run>>
  BY <1>3 DEF RerunInv, RerunPlans, AllPlanned, Deploying
<1>4. CASE Send
  <2>1. /\ ledger' = ledger /\ run.step = "send" /\ run'.step = "send" /\ run'.ledger = run.ledger
        /\ run'.proxy = run.proxy /\ run'.commit = run.commit /\ run'.redeploy_all = run.redeploy_all
        /\ run'.proposed_facets = run.proposed_facets
    BY <1>1, <1>4 DEF Send, Run
  <2>2. QED
    BY <2>1 DEF RerunInv, RerunPlans, AllPlanned, Deploying
<1>5. ASSUME NEW all \in BOOLEAN, StartDeploy(all)
      PROVE  RerunInv'
  <2>1. /\ run'.proxy = 1 /\ run'.step = "facets" /\ \A f \in Facets : run'.proposed_facets[f] = NoRecord
    BY <1>5 DEF StartDeploy, Idle, NoState
  <2>2. \A p \in Proxies : ~(p < 1)
    BY DEF Proxies
  <2>3. QED
    BY <2>1, <2>2 DEF RerunInv, RerunPlans, AllPlanned
<1>6. CASE FinishDeploy \/ FailDeploy \/ RefusesMigration \/ Crash \/ StartAccept \/ FinishAccept
  <2>1. run' = Idle \/ run' = [Idle EXCEPT !.step = "check", !.ledger = ledger]
    BY <1>6 DEF FinishDeploy, FailDeploy, RefusesMigration, RefuseMigration, Crash, StartAccept, FinishAccept
  <2>2. CASE run' = Idle
    BY <1>2, <2>2 DEF Idle
  <2>3. CASE run' = [Idle EXCEPT !.step = "check", !.ledger = ledger]
    <3>1. run'.step = "check"
      BY <2>3 DEF Idle
    <3>2. QED
      BY <1>2, <3>1
  <2>4. QED
    BY <2>1, <2>2, <2>3
<1>7. CASE CheckProxy
  <2>1. run'.step = "check"
    BY <1>1, <1>7 DEF CheckProxy, Run
  <2>2. QED
    BY <1>2, <2>1
<1>8. CASE \/ \E c \in Commits : MoveHead(c)
           \/ ForeignTransaction
           \/ \E p \in Proxies : \E m \in Addresses : Execute(p, m)
           \/ UNCHANGED vars
  BY <1>3, <1>8 DEF MoveHead, ForeignTransaction, Execute, vars
<1>9. QED
  BY <1>4, <1>5, <1>6, <1>7, <1>8 DEF Next, Tool, PlansMigration, RefusesMigration

(* deploy run again on the commit already staged creates no second copy of *)
(* a facet or of selectors(), for any facets shared in any way: what it    *)
(* stages is installed or staged already.                                  *)
THEOREM RerunCreatesNothing == Spec => []RerunReuses
<1>1. Init => RerunInv
  BY DEF Init, Idle, RerunInv, RerunPlans, AllPlanned, Deploying
<1>2. IInv /\ RecordsInv /\ RerunInv /\ [Next]_vars => RerunInv'
  BY PlanFacetReuses, PlanSelectorsReuses, PlanMigrationReuses, OtherStepsReuse DEF PlansMigration
<1>3. RerunInv => RerunReuses
  <2> SUFFICES ASSUME RerunInv, run.step = "send", ~run.redeploy_all, NEW p \in Proxies,
                      ledger[p].proposed.gitCommit = run.commit, run.ledger[p].proposed # NoState
               PROVE  /\ \A f \in Facets : ReusesFacet(ledger[p], f, run.ledger[p].proposed.facets[f])
                      /\ ReusesSelectors(ledger[p], run.ledger[p].proposed.selectors)
    BY DEF RerunReuses, ReusesFacet, ReusesSelectors
  <2>1. p < run.proxy
    BY SizesAssumption DEF RerunInv, AllPlanned, Proxies
  <2>2. QED
    BY <2>1 DEF RerunInv, RerunPlans, Deploying
<1>4. QED
  BY <1>1, <1>2, <1>3, RecordsHold, PTL DEF Spec

-----------------------------------------------------------------------------
(* The orderly environment.                                                *)

(* An orderly step is a step.                                              *)
LEMMA OrderlyIsNext == IInv /\ [OrderlyNext]_vars => [Next]_vars
<1> SUFFICES ASSUME IInv, OrderlyNext PROVE Next
  OBVIOUS
<1>1. ASSUME NEW p \in Proxies, OrderlyExecute(p)
      PROVE  Next
  <2>1. Execute(p, ledger[p].proposed.migration) /\ ledger[p].proposed.migration \in ballots[p]
    BY <1>1 DEF OrderlyExecute, Execute
  <2>2. ledger[p].proposed.migration \in Addresses
    BY <2>1 DEF IInv, TypeOK
  <2>3. QED
    BY <2>1, <2>2 DEF Next
<1>2. CASE Tool \/ PlanMigration(OwnSlots, {}) \/ (\E c \in Commits : MoveHead(c)) \/ Crash \/ ForeignTransaction
  BY <1>2, DetectionsAssumption DEF Next
<1>3. CASE \E all \in BOOLEAN : OrderlyDeploy(all)
  BY <1>3 DEF Next, OrderlyDeploy
<1>4. QED
  BY <1>1, <1>2, <1>3 DEF OrderlyNext, OrderlyRest

(* A migration built from what is installed and run on it arrives at what  *)
(* is proposed: nothing the installed set routed is left behind.           *)
LEMMA MigrationArrives ==
  ASSUME NEW current \in DeploymentState, NEW proposed, WellFormed(proposed), proposed # NoState
  PROVE  Migrate(SelectorOwners(current), BuildMigration(current, proposed, SelectorOwners(current), OwnSlots, {}))
           = SelectorOwners(proposed)
<1> DEFINE old == SelectorOwners(current)
           new == SelectorOwners(proposed)
           written == ToWrite(current, proposed, old, {})
<1>1. BuildMigration(current, proposed, old, OwnSlots, {}) = [s \in written |-> new[s]]
  BY OwnersType, RightlyBuilt
<1>2. new[SELECTORS_SELECTOR] # ZERO_ADDRESS
  BY DEF WellFormed
<1>3. ASSUME NEW s \in Selectors, s \notin written
      PROVE  old[s] = new[s]
  <2>1. CASE new[s] # ZERO_ADDRESS \/ s \in CurrentSelectors(current, {})
    BY <1>3, <2>1 DEF ToWrite
  <2>2. CASE new[s] = ZERO_ADDRESS /\ s \notin CurrentSelectors(current, {})
    <3>1. Serving(current, s) = {} /\ s # SELECTORS_SELECTOR
      BY <1>2, <2>2 DEF CurrentSelectors
    <3>2. old[s] = ZERO_ADDRESS
      BY <3>1 DEF SelectorOwners
    <3>3. QED
      BY <2>2, <3>2
  <2>3. QED
    BY <2>1, <2>2
<1>4. old = [s \in Selectors |-> old[s]] /\ new = [s \in Selectors |-> new[s]]
  BY DEF SelectorOwners
<1>5. DOMAIN [s \in written |-> new[s]] = written
  OBVIOUS
<1> HIDE DEF old, new, written
<1>6. QED
  BY <1>1, <1>3, <1>4, <1>5 DEF Migrate, old, new

(* Where accept's check passes on what is installed, there was nothing to  *)
(* migrate.                                                                *)
LEMMA NothingToMigrate ==
  ASSUME NEW current \in DeploymentState, NEW proposed, VerifyMigrated(current, proposed, SelectorOwners(current))
  PROVE  DOMAIN BuildMigration(current, proposed, SelectorOwners(current), OwnSlots, {}) = {}
<1>1. BuildMigration(current, proposed, SelectorOwners(current), OwnSlots, {})
        = [s \in ToWrite(current, proposed, SelectorOwners(current), {}) |-> SelectorOwners(proposed)[s]]
  BY OwnersType, RightlyBuilt
<1>2. ToWrite(current, proposed, SelectorOwners(current), {}) = {}
  BY DEF ToWrite, VerifyMigrated
<1>3. QED
  BY <1>1, <1>2

(* What is written depends on where the proposed state routes, no more.    *)
LEMMA SameBuild ==
  ASSUME NEW current, NEW proposed, NEW other, NEW routes_, NEW storage_keys, NEW unread,
         SelectorOwners(other) = SelectorOwners(proposed)
  PROVE  BuildMigration(current, other, routes_, storage_keys, unread)
           = BuildMigration(current, proposed, routes_, storage_keys, unread)
BY DEF BuildMigration, SetDelegates

(* A migration that lands goes on landing.                                 *)
LEMMA MigrationCarried ==
  ASSUME NEW current, NEW state,
         NEW onchain, NEW creations, NEW onchain_after, NEW creations_after,
         Carries(onchain, creations, onchain_after, creations_after),
         MigrationLands(current, state, onchain, creations)
  PROVE  MigrationLands(current, state, onchain_after, creations_after)
<1>1. MigrationCode(BuildMigration(current, state, SelectorOwners(current), OwnSlots, {})) # NoCode
  BY DEF MigrationCode, NoCode
<1>2. QED
  BY <1>1 DEF MigrationLands, Carries

(* Whether its migration is recorded does not change where a state routes. *)
LEMMA OwnersWithoutMigration ==
  ASSUME NEW m, NEW n
  PROVE  SelectorOwners(Proposed(m)) = SelectorOwners(Proposed(n))
<1>1. /\ Proposed(m).facets = Proposed(n).facets /\ Proposed(m).gitCommit = Proposed(n).gitCommit
      /\ Proposed(m).selectors = Proposed(n).selectors
  BY DEF Proposed
<1>2. \A s : Serving(Proposed(m), s) = Serving(Proposed(n), s)
  BY <1>1 DEF Serving, FacetsOf
<1> DEFINE Any(facets) == CHOOSE f \in facets : TRUE
<1>3. \A k : SelectorOwners(Proposed(k)) =
        [s \in Selectors |->
           IF Serving(Proposed(k), s) # {} THEN Proposed(k).facets[Any(Serving(Proposed(k), s))].address
           ELSE IF s = SELECTORS_SELECTOR THEN Proposed(k).selectors ELSE ZERO_ADDRESS]
  BY DEF SelectorOwners
<1> HIDE DEF Any
<1>4. QED
  BY <1>1, <1>2, <1>3

(* The routes follow the records as long as neither they nor the votes     *)
(* change.                                                                 *)
LEMMA RoutesKept ==
  ASSUME RoutesFollow, UNCHANGED <<ledger, routes, ballots>>, Carries(code, <<>>, code', <<>>)
  PROVE  RoutesFollow'
<1> SUFFICES ASSUME NEW p \in Proxies
             PROVE  IF Executed(p) THEN routes[p] = SelectorOwners(ledger[p].proposed)
                    ELSE /\ Installed(p)
                         /\ ledger[p].proposed # NoState =>
                              MigrationLands(ledger[p].current, ledger[p].proposed, code', <<>>)
  BY DEF RoutesFollow, Executed, Installed
<1>1. QED
  BY MigrationCarried DEF RoutesFollow

-----------------------------------------------------------------------------
(* Each step of the orderly lifecycle keeps the routes and the records     *)
(* together.                                                               *)

(* A run that plans, and has planned no migration more.                    *)
LEMMA PlanFollows ==
  ASSUME IInv, OrderlyInv, PlanFacet \/ PlanSelectors
  PROVE  OrderlyInv'
<1>1. run \in Run /\ run.step = "facets" /\ run.commit \in Commits /\ run.proxy \in Proxies
  BY DEF IInv, TypeOK, Planning, PlanFacet, PlanSelectors
<1>2. UNCHANGED <<ledger, code, routes, ballots>>
  BY DEF PlanFacet, PlanSelectors, chain
<1>3. /\ run'.step \in {"facets", "migration"} /\ run'.proxy = run.proxy /\ run'.slots = run.slots
      /\ run'.ledger = run.ledger /\ run'.reverted = run.reverted
  <2>1. CASE PlanFacet
    <3> DEFINE f == Source[run.facet]
               hash == facet_initcode[run.commit][run.proxy][f]
               Use(rec, next_nonce, creations) ==
                 [run EXCEPT !.facet = @ + 1,
                             !.proposed_facets = [@ EXCEPT ![f] = rec],
                             !.run_deployed = SetDefault(@, hash, rec),
                             !.next_nonce = next_nonce,
                             !.creations = creations]
               After(r) == /\ r.step = "facets" /\ r.proxy = run.proxy /\ r.slots = run.slots
                           /\ r.ledger = run.ledger /\ r.reverted = run.reverted
    <3>1. ASSUME NEW rec, NEW next_nonce, NEW creations
          PROVE  After(Use(rec, next_nonce, creations))
      BY <1>1 DEF Run
    <3>2. \/ run' = Use(ExistingDeployment(f, hash), run.next_nonce, run.creations)
          \/ run' = Use(Unread(NextNonce, hash), NextNonce + 1, Reserve(FacetCode(hash)))
      BY <2>1 DEF PlanFacet
    <3> HIDE DEF Use, After, f, hash
    <3>3. After(run')
      BY <3>1, <3>2
    <3>4. QED
      BY <3>3 DEF After
  <2>2. CASE PlanSelectors
    BY <1>1, <2>2 DEF PlanSelectors, Run
  <2>3. QED
    BY <2>1, <2>2
<1>4. Carries(code, run.creations, code, run'.creations)
  <2>1. CASE run'.creations = run.creations
    BY <2>1 DEF Carries
  <2>2. CASE run'.creations # run.creations
    <3>1. CanCreate
      <4>1. CASE PlanFacet
        BY <1>1, <2>2, <4>1 DEF PlanFacet, Run
      <4>2. CASE PlanSelectors
        BY <1>1, <2>2, <4>2 DEF PlanSelectors, Run
      <4>3. QED
        BY <4>1, <4>2
    <3>2. PICK c \in Code : run'.creations = Reserve(c)
      <4>1. CASE PlanFacet
        <5> DEFINE hash == facet_initcode[run.commit][run.proxy][Source[run.facet]]
        <5>1. FacetCode(hash) \in Code
          BY <1>1, <4>1, SourceType, SourcesAssumption DEF PlanFacet, Code, FacetCode
        <5>2. run'.creations = Reserve(FacetCode(hash))
          BY <1>1, <2>2, <4>1 DEF PlanFacet, Run
        <5>3. QED
          BY <5>1, <5>2
      <4>2. CASE PlanSelectors
        <5>1. SelectorsRuntime(run.commit, SourceFacets) \in Code
          BY <1>1, SourceType, SelectorsRuntimeType
        <5>2. run'.creations = Reserve(SelectorsRuntime(run.commit, SourceFacets))
          BY <1>1, <2>2, <4>2 DEF PlanSelectors, Run
        <5>3. QED
          BY <5>1, <5>2
      <4>3. QED
        BY <4>1, <4>2
    <3>3. QED
      BY <3>1, <3>2, ReserveCarries
  <2>3. QED
    BY <2>1, <2>2
<1>5. RoutesFollow'
  BY <1>2, NothingMoves, RoutesKept DEF OrderlyInv
<1>6. DeployFollows'
  <2>1. \A p \in Proxies : ~Executed(p)'
    BY <1>1, <1>2 DEF OrderlyInv, DeployFollows, Deploying, Executed
  <2>2. run.proxy > 1 => run.slots = routes
    BY <1>1 DEF OrderlyInv, DeployFollows, Deploying
  <2>3. ASSUME ~run.reverted, NEW p \in Proxies, p < run.proxy, run.ledger[p].proposed # NoState
        PROVE  MigrationLands(ledger[p].current, run.ledger[p].proposed, code, run'.creations)
    <3>1. MigrationLands(ledger[p].current, run.ledger[p].proposed, code, run.creations)
      BY <1>1, <2>3 DEF OrderlyInv, DeployFollows, Deploying
    <3>2. QED
      BY <1>4, <3>1, MigrationCarried
  <2>4. QED
    BY <1>2, <1>3, <2>1, <2>2, <2>3 DEF DeployFollows
<1>7. AcceptFollows'
  BY <1>3 DEF AcceptFollows
<1>8. QED
  BY <1>5, <1>6, <1>7 DEF OrderlyInv

(* A run that stages a migration built it on the routes as they are, since *)
(* nobody votes while it plans.                                            *)
LEMMA PlanMigrationFollows ==
  IInv /\ RecordsInv /\ OrderlyInv /\ PlanMigration(OwnSlots, {}) => OrderlyInv'
<1> SUFFICES ASSUME IInv, RecordsInv, OrderlyInv, PlanMigration(OwnSlots, {}) PROVE OrderlyInv'
  OBVIOUS
<1> DEFINE current == ledger[run.proxy].current
           sets == BuildMigration(current, Proposed(ZERO_ADDRESS), PlanningSlots[run.proxy], OwnSlots, {})
           prior == Loaded.proposed.migration
<1>1. run \in Run /\ run.step = "migration" /\ run.commit \in Commits /\ run.proxy \in Proxies
  BY DEF IInv, TypeOK, PlanMigration, Planning
<1>2. UNCHANGED <<ledger, code, routes, ballots>>
  BY DEF PlanMigration, chain
<1>3. Loaded.current = current
  BY <1>1, LoadedIsLedger
<1>4. PlanningSlots = routes
  BY <1>1, SizesAssumption DEF PlanningSlots, OrderlyInv, DeployFollows, Deploying, Proxies
<1>5. routes[run.proxy] = SelectorOwners(current)
  BY <1>1 DEF OrderlyInv, DeployFollows, Deploying, RoutesFollow, Installed
<1>6. ASSUME NEW m \in Addresses, NEW creations, DOMAIN sets # {}, Lands(m, MigrationCode(sets), code, creations)
      PROVE  MigrationLands(current, Proposed(m), code, creations)
  <2>1. SelectorOwners(Proposed(m)) = SelectorOwners(Proposed(ZERO_ADDRESS))
    BY OwnersWithoutMigration
  <2>2. BuildMigration(current, Proposed(m), SelectorOwners(current), OwnSlots, {}) = sets
    BY <1>4, <1>5, <2>1, SameBuild
  <2>3. Proposed(m).migration = m
    BY DEF Proposed
  <2> HIDE DEF sets
  <2>4. QED
    BY <1>6, <2>2, <2>3 DEF MigrationLands
<1>7. MigrationCode(sets) \in Code
  <2>1. Proposed(ZERO_ADDRESS) \in DeploymentState
    BY <1>1, ProposedWellFormed DEF MaybeAddress
  <2>2. PlanningSlots[run.proxy] \in Routes /\ current \in DeploymentState
    BY <1>1, <1>4 DEF IInv, TypeOK, Entry
  <2>3. sets \in Migrations
    BY <2>1, <2>2, BuildMigrationType, RightlyBuilt, DetectionsAssumption
  <2> HIDE DEF sets
  <2>4. QED
    BY <2>3 DEF Code, MigrationCode
<1>8. PICK state, next_nonce, creations :
        /\ state # NoState => MigrationLands(current, state, code, creations)
        /\ Carries(code, run.creations, code, creations)
        /\ run' = NextProxy(state, next_nonce, creations)
  <2>1. Carries(code, run.creations, code, run.creations)
    BY DEF Carries
  <2>2. CASE run' = NextProxy(NoState, run.next_nonce, run.creations)
    BY <2>1, <2>2
  <2>3. CASE /\ DOMAIN sets # {} /\ prior # ZERO_ADDRESS /\ code[prior] = MigrationCode(sets)
             /\ run' = NextProxy(Proposed(prior), run.next_nonce, run.creations)
    <3>1. prior \in Addresses
      BY <1>1, <2>3, LoadedWellFormed DEF Entry, DeploymentState, MaybeAddress
    <3>2. Lands(prior, MigrationCode(sets), code, run.creations)
      BY <2>3 DEF Lands
    <3> HIDE DEF prior, sets
    <3>3. QED
      BY <1>6, <2>1, <2>3, <3>1, <3>2
  <2>4. CASE /\ DOMAIN sets # {} /\ CanCreate
             /\ run' = NextProxy(Proposed(NextNonce), NextNonce + 1, Reserve(MigrationCode(sets)))
    <3>1. NextNonce \in Addresses
      BY <2>4, CanCreateType
    <3>2. /\ Carries(code, run.creations, code, Reserve(MigrationCode(sets)))
          /\ Lands(NextNonce, MigrationCode(sets), code, Reserve(MigrationCode(sets)))
      BY <1>7, <2>4, ReserveCarries
    <3> HIDE DEF sets
    <3>3. QED
      BY <1>6, <2>4, <3>1, <3>2
  <2>5. QED
    BY <1>3, <2>2, <2>3, <2>4 DEF PlanMigration, Planned
<1> HIDE DEF sets, prior
<1>9. /\ run'.step = (IF run.proxy = NProxies THEN "send" ELSE "facets")
      /\ run'.proxy = run.proxy + 1 /\ run'.reverted = run.reverted /\ run'.creations = creations
      /\ run'.slots = (IF run.proxy = NProxies THEN Idle.slots ELSE PlanningSlots)
      /\ \A p \in Proxies : /\ p # run.proxy => run'.ledger[p] = run.ledger[p]
                            /\ p = run.proxy => run'.ledger[p].proposed = state
  BY <1>1, <1>8, NextProxyEffect
<1>10. RoutesFollow'
  BY <1>2, NothingMoves, RoutesKept DEF OrderlyInv
<1>11. DeployFollows'
  <2>1. \A p \in Proxies : ~Executed(p)'
    BY <1>1, <1>2 DEF OrderlyInv, DeployFollows, Deploying, Executed
  <2>2. run'.step # "send" => run'.slots = routes
    BY <1>4, <1>9
  <2>3. ASSUME ~run.reverted, NEW p \in Proxies, p < run.proxy + 1, run'.ledger[p].proposed # NoState
        PROVE  MigrationLands(ledger[p].current, run'.ledger[p].proposed, code, creations)
    <3>1. CASE p = run.proxy
      BY <1>8, <1>9, <2>3, <3>1
    <3>2. CASE p # run.proxy
      <4>1. p < run.proxy
        BY <1>1, <2>3, <3>2 DEF Proxies
      <4>2. MigrationLands(ledger[p].current, run.ledger[p].proposed, code, run.creations)
        BY <1>1, <1>9, <2>3, <3>2, <4>1 DEF OrderlyInv, DeployFollows, Deploying
      <4>3. QED
        BY <1>8, <1>9, <3>2, <4>2, MigrationCarried
    <3>3. QED
      BY <3>1, <3>2
  <2>4. QED
    BY <1>2, <1>9, <2>1, <2>2, <2>3 DEF DeployFollows
<1>12. AcceptFollows'
  BY <1>9 DEF AcceptFollows
<1>13. QED
  BY <1>10, <1>11, <1>12 DEF OrderlyInv

(* A creation sent brings the migrations nearer.                           *)
LEMMA SendFollows == IInv /\ OrderlyInv /\ Send => OrderlyInv'
<1> SUFFICES ASSUME IInv, OrderlyInv, Send PROVE OrderlyInv'
  OBVIOUS
<1>1. run \in Run /\ run.step = "send"
  BY DEF IInv, TypeOK, Send
<1>2. /\ UNCHANGED <<ledger, routes, ballots>> /\ run'.step = "send" /\ run'.ledger = run.ledger
      /\ run'.proxy = run.proxy /\ (~run'.reverted => ~run.reverted)
  BY <1>1 DEF Send, Run
<1>3. RoutesFollow'
  BY <1>2, SendKeepsCode, RoutesKept DEF OrderlyInv
<1>4. DeployFollows'
  <2>1. \A p \in Proxies : ~Executed(p)'
    BY <1>1, <1>2 DEF OrderlyInv, DeployFollows, Deploying, Executed
  <2>2. ASSUME ~run'.reverted, NEW p \in Proxies, p < run.proxy, run.ledger[p].proposed # NoState
        PROVE  MigrationLands(ledger[p].current, run.ledger[p].proposed, code', run'.creations)
    <3>1. MigrationLands(ledger[p].current, run.ledger[p].proposed, code, run.creations)
      BY <1>1, <1>2, <2>2 DEF OrderlyInv, DeployFollows, Deploying
    <3>2. Carries(code, run.creations, code', run'.creations)
      BY <2>2, SendCarries
    <3>3. QED
      BY <3>1, <3>2, MigrationCarried
  <2>3. QED
    BY <1>2, <2>1, <2>2 DEF DeployFollows
<1>5. AcceptFollows'
  BY <1>2 DEF AcceptFollows
<1>6. QED
  BY <1>3, <1>4, <1>5 DEF OrderlyInv

(* A finished deploy leaves migrations to vote on.                         *)
LEMMA FinishDeployFollows == IInv /\ RerunInv /\ OrderlyInv /\ FinishDeploy => OrderlyInv'
<1> SUFFICES ASSUME IInv, RerunInv, OrderlyInv, FinishDeploy PROVE OrderlyInv'
  OBVIOUS
<1>1. /\ run.step = "send" /\ run.creations = <<>> /\ ~run.reverted
      /\ ballots' = Published(run.ledger) /\ run' = Idle /\ routes' = routes /\ code' = code
  BY DEF FinishDeploy, chain
<1>2. run'.step = "idle"
  BY <1>1 DEF Idle
<1>3. RoutesFollow'
  <2> SUFFICES ASSUME NEW p \in Proxies
               PROVE  /\ ~Executed(p)' /\ Installed(p)'
                      /\ ledger'[p].proposed # NoState =>
                           MigrationLands(ledger'[p].current, ledger'[p].proposed, code', <<>>)
    BY DEF RoutesFollow
  <2> DEFINE planned == run.ledger[p].proposed
  <2>1. /\ ledger'[p].current = ledger[p].current /\ ledger'[p].proposed = Mined(planned)
        /\ planned \in DeploymentState
    BY FinishDeployEffect
  <2>2. routes[p] = SelectorOwners(ledger[p].current)
    BY <1>1 DEF OrderlyInv, DeployFollows, Deploying, RoutesFollow, Installed
  <2>3. ASSUME ledger'[p].proposed # NoState
        PROVE  MigrationLands(ledger'[p].current, ledger'[p].proposed, code, <<>>)
    <3>1. p < run.proxy
      BY <1>1, SizesAssumption DEF RerunInv, AllPlanned, Proxies
    <3>2. planned # NoState
      BY <2>1, <2>3, MinedWellFormed
    <3>3. MigrationLands(ledger[p].current, planned, code, <<>>)
      BY <1>1, <3>1, <3>2 DEF OrderlyInv, DeployFollows, Deploying
    <3>4. SelectorOwners(Mined(planned)) = SelectorOwners(planned) /\ Mined(planned).migration = planned.migration
      BY <2>1, MinedRoutes, MinedSame
    <3>5. QED
      BY <2>1, <3>3, <3>4, SameBuild DEF MigrationLands
  <2>4. ~Executed(p)'
    <3>1. CASE ledger'[p].proposed # NoState
      <4>1. ledger'[p].proposed.migration \in Addresses
        BY <2>3, <3>1 DEF MigrationLands
      <4>2. planned.migration = ledger'[p].proposed.migration
        BY <2>1, MinedSame
      <4>3. ledger'[p].proposed.migration \in ballots'[p]
        BY <1>1, <4>1, <4>2 DEF Published, Addresses, ZERO_ADDRESS
      <4>4. QED
        BY <4>3 DEF Executed
    <3>2. CASE ledger'[p].proposed = NoState
      BY <3>2 DEF Executed
    <3>3. QED
      BY <3>1, <3>2
  <2>5. QED
    BY <1>1, <2>1, <2>2, <2>3, <2>4 DEF Installed
<1>4. DeployFollows' /\ AcceptFollows'
  BY <1>2 DEF DeployFollows, Deploying, AcceptFollows
<1>5. QED
  BY <1>3, <1>4 DEF OrderlyInv

(* accept passes a proxy only once its migration has been executed.        *)
LEMMA CheckProxyFollows == IInv /\ OrderlyInv /\ CheckProxy => OrderlyInv'
<1> SUFFICES ASSUME IInv, OrderlyInv, CheckProxy PROVE OrderlyInv'
  OBVIOUS
<1> DEFINE entry == ledger[run.proxy]
<1>1. /\ run \in Run /\ run.step = "check" /\ run.proxy \in Proxies
      /\ UNCHANGED <<ledger, code, routes, ballots>> /\ Loaded = entry
  <2>1. run \in Run /\ run.step = "check" /\ run.proxy \in 1..NProxies + 1 /\ run.proxy <= NProxies
    BY DEF IInv, TypeOK, Run, CheckProxy
  <2>2. run.proxy \in Proxies
    BY <2>1, SizesAssumption DEF Proxies
  <2>3. Loaded = entry
    BY <2>1 DEF IInv, Memory, Loaded
  <2>4. QED
    BY <2>1, <2>2, <2>3 DEF CheckProxy, chain
<1>2. /\ run'.step = "check" /\ run'.proxy = run.proxy + 1
      /\ \/ entry.proposed = NoState /\ run'.pending = run.pending /\ run'.failed = run.failed
         \/ /\ entry.proposed # NoState /\ VerifyMigrated(entry.current, entry.proposed, routes[run.proxy])
            /\ run'.pending = run.pending \union {run.proxy} /\ run'.failed = run.failed
         \/ run'.pending = run.pending /\ run'.failed
  <2>1. CASE entry.proposed = NoState /\ run' = [run EXCEPT !.proxy = @ + 1]
    BY <1>1, <2>1 DEF Run
  <2>2. CASE /\ entry.proposed # NoState /\ VerifyMigrated(entry.current, entry.proposed, routes[run.proxy])
             /\ run' = [run EXCEPT !.proxy = @ + 1, !.pending = @ \union {run.proxy}]
    BY <1>1, <2>2 DEF Run
  <2>3. CASE run' = [run EXCEPT !.proxy = @ + 1, !.failed = TRUE]
    BY <1>1, <2>3 DEF Run
  <2>4. QED
    BY <1>1, <2>1, <2>2, <2>3 DEF CheckProxy
<1>3. ASSUME entry.proposed # NoState, VerifyMigrated(entry.current, entry.proposed, routes[run.proxy])
      PROVE  Executed(run.proxy)
  <2> SUFFICES ASSUME ~Executed(run.proxy) PROVE FALSE
    OBVIOUS
  <2>1. /\ routes[run.proxy] = SelectorOwners(entry.current)
        /\ MigrationLands(entry.current, entry.proposed, code, <<>>)
    BY <1>1, <1>3 DEF OrderlyInv, RoutesFollow, Installed
  <2>2. DOMAIN BuildMigration(entry.current, entry.proposed, SelectorOwners(entry.current), OwnSlots, {}) = {}
    BY <1>1, <1>3, <2>1, NothingToMigrate DEF IInv, TypeOK, Entry
  <2>3. QED
    BY <2>1, <2>2 DEF MigrationLands
<1>4. RoutesFollow'
  BY <1>1, NothingMoves, RoutesKept DEF OrderlyInv
<1>5. DeployFollows'
  BY <1>2 DEF DeployFollows, Deploying
<1>6. AcceptFollows'
  <2>1. \A p \in Proxies : Executed(p)' = Executed(p)
    BY <1>1 DEF Executed
  <2>2. run.pending \subseteq Proxies /\ \A p \in run.pending : Executed(p)
    BY <1>1 DEF Run, OrderlyInv, AcceptFollows
  <2>3. \A p \in run'.pending : Executed(p)'
    BY <1>1, <1>2, <1>3, <2>1, <2>2
  <2>4. ASSUME ~run'.failed, NEW p \in Proxies, p < run.proxy + 1, ledger[p].proposed # NoState
        PROVE  p \in run'.pending
    <3>1. CASE p = run.proxy
      BY <1>2, <2>4, <3>1
    <3>2. CASE p # run.proxy
      <4>1. p < run.proxy /\ ~run.failed
        BY <1>1, <1>2, <2>4, <3>2 DEF Proxies
      <4>2. QED
        BY <1>1, <1>2, <2>4, <4>1 DEF OrderlyInv, AcceptFollows
    <3>3. QED
      BY <3>1, <3>2
  <2>5. QED
    BY <1>1, <1>2, <2>3, <2>4 DEF AcceptFollows
<1>7. QED
  BY <1>4, <1>5, <1>6 DEF OrderlyInv

(* What an accept that changes the ledger does, orderly: every proxy's     *)
(* executed proposal becomes current, and there was no other.              *)
LEMMA OrderlyAccept ==
  ASSUME IInv, OrderlyInv, FinishAccept
  PROVE  \/ ledger' = ledger
         \/ \A p \in Proxies :
              \/ Executed(p) /\ ledger'[p] = AcceptEntry(ledger[p])
              \/ ledger[p].proposed = NoState /\ ledger'[p] = ledger[p]
<1>1. run \in Run /\ run.step = "check" /\ run.proxy = NProxies + 1 /\ run.ledger = ledger
  BY DEF IInv, TypeOK, Memory, FinishAccept
<1>2. CASE run.failed
  BY <1>2 DEF FinishAccept
<1>3. CASE ~run.failed
  <2>1. ledger' = [p \in Proxies |-> IF p \in run.pending THEN AcceptEntry(ledger[p]) ELSE ledger[p]]
    BY <1>1, <1>3 DEF FinishAccept
  <2>2. ASSUME NEW p \in Proxies
        PROVE  \/ p \in run.pending /\ Executed(p)
               \/ p \notin run.pending /\ ledger[p].proposed = NoState
    <3>1. p < run.proxy
      BY <1>1, SizesAssumption DEF Proxies
    <3>2. QED
      BY <1>1, <1>3, <3>1 DEF OrderlyInv, AcceptFollows
  <2>3. QED
    BY <2>1, <2>2
<1>4. QED
  BY <1>2, <1>3

(* After it the proxies route what the ledger says is installed.           *)
LEMMA FinishAcceptFollows == IInv /\ OrderlyInv /\ FinishAccept => OrderlyInv'
<1> SUFFICES ASSUME IInv, OrderlyInv, FinishAccept PROVE OrderlyInv'
  OBVIOUS
<1>1. run' = Idle /\ UNCHANGED <<code, routes, ballots>>
  BY DEF FinishAccept, chain
<1>2. run'.step = "idle"
  BY <1>1 DEF Idle
<1>3. RoutesFollow'
  <2>1. CASE ledger' = ledger
    BY <1>1, <2>1, NothingMoves, RoutesKept DEF OrderlyInv
  <2>2. CASE \A p \in Proxies :
               \/ Executed(p) /\ ledger'[p] = AcceptEntry(ledger[p])
               \/ ledger[p].proposed = NoState /\ ledger'[p] = ledger[p]
    <3>1. ASSUME NEW p \in Proxies
          PROVE  ledger'[p].proposed = NoState /\ routes[p] = SelectorOwners(ledger'[p].current)
      <4>1. CASE Executed(p) /\ ledger'[p] = AcceptEntry(ledger[p])
        <5>1. routes[p] = SelectorOwners(ledger[p].proposed)
          BY <4>1 DEF OrderlyInv, RoutesFollow
        <5>2. AcceptEntry(ledger[p]).current = ledger[p].proposed /\ AcceptEntry(ledger[p]).proposed = NoState
          BY DEF AcceptEntry
        <5>3. QED
          BY <4>1, <5>1, <5>2
      <4>2. CASE ledger[p].proposed = NoState /\ ledger'[p] = ledger[p]
        BY <4>2 DEF OrderlyInv, RoutesFollow, Executed, Installed
      <4>3. QED
        BY <2>2, <4>1, <4>2
    <3>2. QED
      BY <1>1, <3>1 DEF RoutesFollow, Executed, Installed
  <2>3. QED
    BY <2>1, <2>2, OrderlyAccept
<1>4. DeployFollows' /\ AcceptFollows'
  BY <1>2 DEF DeployFollows, Deploying, AcceptFollows
<1>5. QED
  BY <1>3, <1>4 DEF OrderlyInv

(* What an orderly vote does to the proxy: it routes the whole of what is  *)
(* proposed.                                                               *)
LEMMA OrderlyVote ==
  ASSUME IInv, OrderlyInv, NEW p \in Proxies, OrderlyExecute(p)
  PROVE  LET entry == ledger[p]
             sets == BuildMigration(entry.current, entry.proposed, SelectorOwners(entry.current), OwnSlots, {})
         IN  /\ entry.proposed # NoState /\ entry.proposed.migration \in ballots[p] /\ Installed(p)
             /\ code[entry.proposed.migration].sets = sets
             /\ routes' = [routes EXCEPT ![p] = SelectorOwners(entry.proposed)]
<1> DEFINE entry == ledger[p]
           m == entry.proposed.migration
           sets == BuildMigration(entry.current, entry.proposed, SelectorOwners(entry.current), OwnSlots, {})
<1>1. m \in ballots[p] /\ routes' = [routes EXCEPT ![p] = Migrate(@, code[m].sets)]
  BY DEF OrderlyExecute, Execute
<1>2. m \in Addresses
  BY <1>1 DEF IInv, TypeOK
<1>3. entry.proposed # NoState
  BY <1>2 DEF NoState, Addresses, ZERO_ADDRESS
<1>4. Installed(p) /\ MigrationLands(entry.current, entry.proposed, code, <<>>)
  BY <1>1, <1>3 DEF OrderlyInv, RoutesFollow, Executed
<1>5. code[m] = MigrationCode(sets)
  BY <1>4, LandsNow DEF MigrationLands
<1>6. code[m].sets = sets
  BY <1>5 DEF MigrationCode
<1>7. WellFormed(entry.proposed) /\ entry.current \in DeploymentState
  BY DEF IInv, TypeOK, Entry, RecordsWellFormed
<1>8. Migrate(routes[p], sets) = SelectorOwners(entry.proposed)
  BY <1>3, <1>4, <1>7, MigrationArrives DEF Installed
<1>9. QED
  BY <1>1, <1>3, <1>4, <1>6, <1>8

(* So after it the routes are what is proposed, and nothing else moved.    *)
LEMMA ExecuteFollows ==
  ASSUME IInv, OrderlyInv, NEW p \in Proxies, OrderlyExecute(p)
  PROVE  OrderlyInv'
<1> DEFINE m == ledger[p].proposed.migration
<1>1. /\ UNCHANGED <<ledger, run, code>> /\ ~Deploying
      /\ ballots' = [ballots EXCEPT ![p] = @ \ {m}] /\ m \in ballots[p]
  BY DEF OrderlyExecute, Execute
<1>2. ballots' \in [Proxies -> SUBSET Addresses] /\ ballots \in [Proxies -> SUBSET Addresses]
      /\ routes \in [Proxies -> Routes]
  BY <1>1 DEF IInv, TypeOK
<1>3. ledger[p].proposed # NoState /\ routes' = [routes EXCEPT ![p] = SelectorOwners(ledger[p].proposed)]
  BY OrderlyVote
<1>4. Executed(p)' /\ routes'[p] = SelectorOwners(ledger[p].proposed)
  BY <1>1, <1>2, <1>3 DEF Executed
<1>5. \A q \in Proxies : q # p => Executed(q)' = Executed(q) /\ routes'[q] = routes[q]
  BY <1>1, <1>2, <1>3 DEF Executed
<1>6. RoutesFollow'
  <2> SUFFICES ASSUME NEW q \in Proxies
               PROVE  IF Executed(q)' THEN routes'[q] = SelectorOwners(ledger[q].proposed)
                      ELSE /\ routes'[q] = SelectorOwners(ledger[q].current)
                           /\ ledger[q].proposed # NoState =>
                                MigrationLands(ledger[q].current, ledger[q].proposed, code, <<>>)
    BY <1>1 DEF RoutesFollow, Installed
  <2>1. CASE q = p
    BY <1>4, <2>1
  <2>2. CASE q # p
    BY <1>5, <2>2 DEF OrderlyInv, RoutesFollow, Installed
  <2>3. QED
    BY <2>1, <2>2
<1>7. DeployFollows'
  BY <1>1 DEF DeployFollows, Deploying
<1>8. AcceptFollows'
  <2>1. run.step = "check" => \A q \in run.pending : q \in Proxies /\ Executed(q)
    BY DEF OrderlyInv, AcceptFollows, IInv, TypeOK, Run
  <2>2. QED
    BY <1>1, <1>4, <1>5, <2>1 DEF OrderlyInv, AcceptFollows
<1>9. QED
  BY <1>6, <1>7, <1>8 DEF OrderlyInv

(* A step that changes neither the ledger, nor the routes, the votes and   *)
(* the code, and neither plans nor checks, keeps them together.            *)
LEMMA StillFollows ==
  ASSUME OrderlyInv, UNCHANGED <<ledger, routes, ballots, code>>,
         run' = run \/ run'.step = "idle"
  PROVE  OrderlyInv'
<1>1. RoutesFollow'
  BY NothingMoves, RoutesKept DEF OrderlyInv
<1>2. \A p : Executed(p)' = Executed(p)
  BY DEF Executed
<1>3. CASE run' = run
  BY <1>1, <1>2, <1>3 DEF OrderlyInv, DeployFollows, Deploying, AcceptFollows
<1>4. CASE run'.step = "idle"
  BY <1>1, <1>4 DEF OrderlyInv, DeployFollows, Deploying, AcceptFollows
<1>5. QED
  BY <1>3, <1>4

(* A run that starts does so with nothing left to accept, or accepts.      *)
LEMMA StartFollows ==
  ASSUME OrderlyInv, StartAccept \/ \E all \in BOOLEAN : OrderlyDeploy(all)
  PROVE  OrderlyInv'
<1>1. /\ UNCHANGED <<ledger, routes, ballots, code>> /\ run'.proxy = 1 /\ run'.pending = {}
      /\ \/ run'.step = "check"
         \/ run'.step = "facets" /\ \A p \in Proxies : ~Executed(p)
  BY DEF StartAccept, OrderlyDeploy, StartDeploy, Idle, chain
<1>2. RoutesFollow'
  BY <1>1, NothingMoves, RoutesKept DEF OrderlyInv
<1>3. \A p \in Proxies : Executed(p)' = Executed(p) /\ ~(p < 1)
  BY <1>1 DEF Executed, Proxies
<1>4. DeployFollows' /\ AcceptFollows'
  BY <1>1, <1>3 DEF DeployFollows, Deploying, AcceptFollows
<1>5. QED
  BY <1>2, <1>4 DEF OrderlyInv

(* Every orderly step keeps the routes and the records together.           *)
LEMMA NextFollows == IInv /\ RecordsInv /\ RerunInv /\ OrderlyInv /\ [OrderlyNext]_vars => OrderlyInv'
<1> SUFFICES ASSUME IInv, RecordsInv, RerunInv, OrderlyInv, [OrderlyNext]_vars PROVE OrderlyInv'
  OBVIOUS
<1>1. CASE StartAccept \/ \E all \in BOOLEAN : OrderlyDeploy(all)
  BY <1>1, StartFollows
<1>2. CASE PlanFacet \/ PlanSelectors \/ PlanMigration(OwnSlots, {})
  BY <1>2, PlanFollows, PlanMigrationFollows
<1>3. CASE Send \/ FinishDeploy
  BY <1>3, SendFollows, FinishDeployFollows
<1>4. CASE CheckProxy \/ FinishAccept
  BY <1>4, CheckProxyFollows, FinishAcceptFollows
<1>5. CASE FailDeploy \/ Crash
  <2>1. run' = Idle /\ UNCHANGED <<ledger, routes, ballots, code>>
    BY <1>5 DEF FailDeploy, Crash, chain
  <2>2. run'.step = "idle"
    BY <2>1 DEF Idle
  <2>3. QED
    BY <2>1, <2>2, StillFollows
<1>6. CASE (\E c \in Commits : MoveHead(c)) \/ ForeignTransaction \/ UNCHANGED vars
  BY <1>6, StillFollows DEF MoveHead, ForeignTransaction, vars, chain
<1>7. CASE \E p \in Proxies : OrderlyExecute(p)
  BY <1>7, ExecuteFollows
<1>8. QED
  BY <1>1, <1>2, <1>3, <1>4, <1>5, <1>6, <1>7 DEF OrderlyNext, OrderlyRest, Tool

(* In orderly operation, a proxy routes what the ledger says is installed  *)
(* or, once its vote is through, all of what it says is proposed; and the  *)
(* migration proposed is the one that gets it from the one to the other.   *)
THEOREM OrderlyHolds == OrderlySpec => [](IInv /\ RecordsInv /\ RerunInv /\ OrderlyInv)
<1>1. Init => IInv /\ RecordsInv
  BY InitIInv, InitRecords
<1>2. Init => RerunInv
  BY DEF Init, Idle, RerunInv, RerunPlans, AllPlanned, Deploying
<1>3. Init => OrderlyInv
  <2> SUFFICES ASSUME Init PROVE OrderlyInv
    OBVIOUS
  <2>1. \A p \in Proxies : ledger[p].proposed = NoState /\ SelectorOwners(ledger[p].current) = routes[p]
    BY DEF Init, NoDeployment, NoState, SelectorOwners, Serving, FacetsOf
  <2>2. RoutesFollow
    BY <2>1 DEF RoutesFollow, Executed, Installed
  <2>3. DeployFollows /\ AcceptFollows
    BY DEF Init, Idle, DeployFollows, Deploying, AcceptFollows
  <2>4. QED
    BY <2>2, <2>3 DEF OrderlyInv
<1>4. IInv /\ RecordsInv /\ RerunInv /\ OrderlyInv /\ [OrderlyNext]_vars
        => IInv' /\ RecordsInv' /\ RerunInv' /\ OrderlyInv'
  BY OrderlyIsNext, NextIInv, NextRecords, NextFollows,
     PlanFacetReuses, PlanSelectorsReuses, PlanMigrationReuses, OtherStepsReuse DEF PlansMigration
<1>5. QED
  BY <1>1, <1>2, <1>3, <1>4, PTL DEF OrderlySpec

-----------------------------------------------------------------------------
(* audit finds every delegate on record.                                   *)

(* Where a state routes a selector is a delegate it records.               *)
LEMMA OwnersAreDelegates ==
  ASSUME NEW state \in DeploymentState, NEW s \in Selectors, SelectorOwners(state)[s] # ZERO_ADDRESS
  PROVE  SelectorOwners(state)[s] \in StateDelegates(state)
<1> DEFINE owner == SelectorOwners(state)[s]
<1>1. owner \in Addresses
  BY OwnersType DEF Routes, MaybeAddress
<1>2. CASE Serving(state, s) # {}
  <2> DEFINE f == CHOOSE f \in Serving(state, s) : TRUE
  <2>1. f \in Facets /\ owner = state.facets[f].address
    BY <1>2 DEF Serving, FacetsOf, SelectorOwners
  <2> HIDE DEF f
  <2>2. QED
    BY <1>1, <2>1 DEF StateDelegates
<1>3. CASE Serving(state, s) = {}
  <2>1. owner = state.selectors
    BY <1>3 DEF SelectorOwners
  <2>2. QED
    BY <1>1, <2>1 DEF StateDelegates
<1>4. QED
  BY <1>2, <1>3

(* An orderly vote announces what the ledger proposes.                     *)
LEMMA ExecuteAnnounces ==
  ASSUME IInv, OrderlyInv, AnnouncedAreRecorded, NEW p \in Proxies, OrderlyExecute(p)
  PROVE  AnnouncedAreRecorded'
<1> DEFINE entry == ledger[p]
           m == entry.proposed.migration
           sets == BuildMigration(entry.current, entry.proposed, SelectorOwners(entry.current), OwnSlots, {})
<1>1. /\ ledger' = ledger /\ ballots' = [ballots EXCEPT ![p] = @ \ {m}]
      /\ announced' = [announced EXCEPT
           ![p] = @ \union ({code[m].sets[s] : s \in DOMAIN code[m].sets} \ {ZERO_ADDRESS})]
  BY DEF OrderlyExecute, Execute
<1>2. entry.proposed # NoState /\ m \in ballots[p] /\ code[m].sets = sets
  BY OrderlyVote
<1>3. {sets[s] : s \in DOMAIN sets} \ {ZERO_ADDRESS} \subseteq StateDelegates(entry.proposed)
  <2> SUFFICES ASSUME NEW s \in DOMAIN sets, sets[s] # ZERO_ADDRESS
               PROVE  sets[s] \in StateDelegates(entry.proposed)
    OBVIOUS
  <2>1. s \in Selectors /\ sets[s] = SelectorOwners(entry.proposed)[s]
    <3>1. SelectorOwners(entry.current) \in Routes
      BY OwnersType DEF IInv, TypeOK, Entry
    <3>2. sets = [t \in ToWrite(entry.current, entry.proposed, SelectorOwners(entry.current), {}) |->
                    SelectorOwners(entry.proposed)[t]]
      BY <3>1, RightlyBuilt
    <3>3. QED
      BY <3>2 DEF ToWrite
  <2>2. entry.proposed \in DeploymentState
    BY DEF IInv, TypeOK, Entry
  <2> HIDE DEF sets, entry
  <2>3. QED
    BY <2>1, <2>2, OwnersAreDelegates
<1>4. ballots \in [Proxies -> SUBSET Addresses] /\ announced \in [Proxies -> SUBSET Addresses]
  BY DEF IInv, TypeOK
<1>5. Executed(p)' /\ ~Executed(p)
  BY <1>1, <1>2, <1>4 DEF Executed
<1> HIDE DEF sets
<1>6. announced'[p] \subseteq announced[p] \union StateDelegates(entry.proposed)
  BY <1>1, <1>2, <1>3, <1>4
<1>7. \A q \in Proxies : q # p => announced'[q] = announced[q] /\ Executed(q)' = Executed(q)
  BY <1>1, <1>4 DEF Executed
<1> SUFFICES ASSUME NEW q \in Proxies
             PROVE  announced'[q] \subseteq StateDelegates(ledger[q].current) \union Archived(ledger[q])
                      \union (IF Executed(q)' THEN StateDelegates(ledger[q].proposed) ELSE {})
  BY <1>1 DEF AnnouncedAreRecorded
<1>8. CASE q = p
  BY <1>5, <1>6, <1>8 DEF AnnouncedAreRecorded
<1>9. CASE q # p
  BY <1>7, <1>9 DEF AnnouncedAreRecorded
<1>10. QED
  BY <1>8, <1>9

(* Every orderly step keeps what was announced on record.                  *)
LEMMA NextAnnounced ==
  IInv /\ OrderlyInv /\ AnnouncedAreRecorded /\ [OrderlyNext]_vars => AnnouncedAreRecorded'
<1> SUFFICES ASSUME IInv, OrderlyInv, AnnouncedAreRecorded, [OrderlyNext]_vars PROVE AnnouncedAreRecorded'
  OBVIOUS
<1>1. CASE \E p \in Proxies : OrderlyExecute(p)
  BY <1>1, ExecuteAnnounces
<1>2. CASE FinishDeploy
  <2>1. announced' = announced /\ run.step = "send"
    BY <1>2 DEF FinishDeploy, chain
  <2>2. \A p \in Proxies : /\ ledger'[p].current = ledger[p].current /\ ledger'[p].history = ledger[p].history
                           /\ ~Executed(p)
    BY <1>2, <2>1, FinishDeployEffect DEF OrderlyInv, DeployFollows, Deploying
  <2>3. QED
    BY <2>1, <2>2 DEF AnnouncedAreRecorded, Archived
<1>3. CASE FinishAccept
  <2>1. announced' = announced /\ ballots' = ballots
    BY <1>3 DEF FinishAccept, chain
  <2> SUFFICES ASSUME NEW p \in Proxies
               PROVE  announced[p] \subseteq StateDelegates(ledger'[p].current) \union Archived(ledger'[p])
                        \union (IF Executed(p)' THEN StateDelegates(ledger'[p].proposed) ELSE {})
    BY <2>1 DEF AnnouncedAreRecorded
  <2>2. CASE ledger'[p] = ledger[p]
    BY <2>1, <2>2 DEF AnnouncedAreRecorded, Executed
  <2>3. CASE ledger'[p] = AcceptEntry(ledger[p])
    <3>1. ledger[p] \in Entry /\ WellFormed(ledger[p].current)
      BY DEF IInv, TypeOK, RecordsWellFormed
    <3>2. StateDelegates(ledger[p].proposed) = StateDelegates(ledger'[p].current)
      BY <2>3 DEF AcceptEntry
    <3>3. StateDelegates(ledger[p].current) \union Archived(ledger[p])
            \subseteq StateDelegates(ledger'[p].current) \union Archived(ledger'[p])
      BY <2>3, <3>1, AcceptKeepsRecords
    <3>4. QED
      BY <3>2, <3>3 DEF AnnouncedAreRecorded
  <2>4. QED
    BY <1>3, <2>2, <2>3, FinishAcceptEffect
<1>4. CASE UNCHANGED <<ledger, announced, ballots>>
  BY <1>4 DEF AnnouncedAreRecorded, Executed
<1>5. QED
  BY <1>1, <1>2, <1>3, <1>4
     DEF OrderlyNext, OrderlyRest, Tool, OrderlyDeploy, StartDeploy, PlanFacet, PlanSelectors, PlanMigration, Send,
         FailDeploy, StartAccept, CheckProxy, MoveHead, Crash, ForeignTransaction, vars, chain

(* In orderly operation audit reports no delegate as unrecorded, for any   *)
(* proxies and any number of upgrades, crashes and reverted creations.     *)
THEOREM AuditStaysClean == OrderlySpec => []AuditIsClean
<1>1. Init => AnnouncedAreRecorded
  BY DEF Init, AnnouncedAreRecorded
<1>2. IInv /\ OrderlyInv /\ AnnouncedAreRecorded /\ [OrderlyNext]_vars => AnnouncedAreRecorded'
  BY NextAnnounced
<1>3. AnnouncedAreRecorded => AuditIsClean
  BY DEF AnnouncedAreRecorded, AuditIsClean, Unrecorded, RecordedDelegates
<1>4. QED
  BY <1>1, <1>2, <1>3, OrderlyHolds, PTL DEF OrderlySpec

-----------------------------------------------------------------------------
(* The proxies serve one commit at a time.                                 *)

(* Wherever a recorded state routes there is code.                         *)
LEMMA OwnersHaveCode ==
  ASSUME NEW p \in Proxies, NEW state \in DeploymentState, NEW onchain,
         StateLands(p, state, onchain, <<>>),
         NEW s \in Selectors, SelectorOwners(state)[s] # ZERO_ADDRESS
  PROVE  onchain[SelectorOwners(state)[s]] # NoCode
<1> DEFINE owner == SelectorOwners(state)[s]
<1>1. CASE Serving(state, s) # {}
  <2> DEFINE f == CHOOSE f \in Serving(state, s) : TRUE
  <2>1. f \in FacetsOf(state) /\ owner = state.facets[f].address
    BY <1>1 DEF Serving, SelectorOwners
  <2> HIDE DEF f
  <2>2. onchain[owner] = FacetCode(state.facets[f].initcodeHash)
    BY <2>1 DEF StateLands, FacetLands, Lands
  <2>3. QED
    BY <2>2 DEF FacetCode, NoCode
<1>2. CASE Serving(state, s) = {}
  <2>1. owner = state.selectors
    BY <1>2 DEF SelectorOwners
  <2>2. QED
    BY <2>1, LandsNow DEF StateLands, SelectorsLand
<1>3. QED
  BY <1>1, <1>2

(* A proxy routed as a recorded state says behaves as the state's commit.  *)
LEMMA BehaviourServed ==
  ASSUME NEW p \in Proxies, NEW state \in DeploymentState, WellFormed(state), state # NoState,
         StateLands(p, state, code, <<>>)
  PROVE  Serves(SelectorOwners(state)) = Behaviour(state.gitCommit, p)
<1> DEFINE commit == state.gitCommit
           facets == {facetSrc[commit][p][i] : i \in DOMAIN facetSrc[commit][p]}
           serving(s) == {f \in facets : Exposes(commit, f, s)}
           Any(S) == CHOOSE f \in S : TRUE
           owners == SelectorOwners(state)
<1>1. FacetsOf(state) = facets
  BY DEF StateLands, SourcesAt
<1>2. \A s \in Selectors : serving(s) = Serving(state, s)
  BY <1>1 DEF Serving
<1>3. \A s \in Selectors :
        Behaviour(commit, p)[s] =
          IF serving(s) # {} THEN FacetCode(facet_initcode[commit][p][Any(serving(s))])
          ELSE IF s = SELECTORS_SELECTOR THEN SelectorsRuntime(commit, facets)
          ELSE NoCode
  BY DEF Behaviour
<1>4. \A s \in Selectors :
        owners[s] = IF Serving(state, s) # {} THEN state.facets[Any(Serving(state, s))].address
                    ELSE IF s = SELECTORS_SELECTOR THEN state.selectors ELSE ZERO_ADDRESS
  BY DEF SelectorOwners
<1>5. \A S : S # {} => Any(S) \in S
  OBVIOUS
<1> HIDE DEF Any
<1>6. ASSUME NEW s \in Selectors
      PROVE  CodeAt(owners[s]) = Behaviour(commit, p)[s]
  <2> HIDE DEF owners, facets
  <2>1. CASE Serving(state, s) # {}
    <3> DEFINE f == Any(Serving(state, s))
    <3>1. f \in FacetsOf(state) /\ f \in Facets
      BY <1>5, <2>1 DEF Serving, FacetsOf
    <3>2. owners[s] = state.facets[f].address
      BY <1>4, <2>1
    <3>3. Behaviour(commit, p)[s] = FacetCode(facet_initcode[commit][p][f])
      BY <1>2, <1>3, <2>1
    <3> HIDE DEF f
    <3>4. /\ state.facets[f].initcodeHash = facet_initcode[commit][p][f]
          /\ code[state.facets[f].address] = FacetCode(state.facets[f].initcodeHash)
      BY <3>1, LandsNow DEF StateLands, FacetLands
    <3>5. state.facets[f].address # ZERO_ADDRESS
      BY <3>1, RecordedFilledIn DEF FacetsOf, Addresses, ZERO_ADDRESS
    <3>6. QED
      BY <3>2, <3>3, <3>4, <3>5 DEF CodeAt
  <2>2. CASE Serving(state, s) = {} /\ s = SELECTORS_SELECTOR
    <3>1. owners[s] = state.selectors /\ state.selectors # ZERO_ADDRESS
      BY <1>4, <2>2 DEF WellFormed, owners
    <3>2. code[state.selectors] = SelectorsRuntime(commit, facets)
      BY <1>1, <3>1, LandsNow DEF StateLands, SelectorsLand
    <3>3. Behaviour(commit, p)[s] = SelectorsRuntime(commit, facets)
      BY <1>2, <1>3, <2>2
    <3>4. QED
      BY <3>1, <3>2, <3>3 DEF CodeAt
  <2>3. CASE Serving(state, s) = {} /\ s # SELECTORS_SELECTOR
    BY <1>2, <1>3, <1>4, <2>3 DEF CodeAt
  <2>4. QED
    BY <2>1, <2>2, <2>3
<1>7. Behaviour(commit, p) = [s \in Selectors |-> Behaviour(commit, p)[s]]
  BY DEF Behaviour
<1>8. QED
  BY <1>6, <1>7 DEF Serves

(* Where a proxy routes, and where the ledger says it does, there is code. *)
LEMMA RoutedHaveCode ==
  ASSUME IInv, RecordsInv, OrderlyInv, NEW p \in Proxies, NEW s \in Selectors
  PROVE  /\ routes[p][s] # ZERO_ADDRESS => routes[p][s] \in Addresses /\ code[routes[p][s]] # NoCode
         /\ LET owner == SelectorOwners(ledger[p].current)[s]
            IN  owner # ZERO_ADDRESS => owner \in Addresses /\ code[owner] # NoCode
<1>1. /\ ledger[p].current \in DeploymentState /\ ledger[p].proposed \in DeploymentState
      /\ StateLands(p, ledger[p].current, code, <<>>) /\ StateLands(p, ledger[p].proposed, code, <<>>)
  BY DEF IInv, TypeOK, Entry, RecordsInv, LedgerHolds
<1>2. ASSUME NEW state \in {ledger[p].current, ledger[p].proposed}, SelectorOwners(state)[s] # ZERO_ADDRESS
      PROVE  SelectorOwners(state)[s] \in Addresses /\ code[SelectorOwners(state)[s]] # NoCode
  BY <1>1, <1>2, OwnersType, OwnersHaveCode DEF Routes, MaybeAddress
<1>3. routes[p] \in {SelectorOwners(ledger[p].current), SelectorOwners(ledger[p].proposed)}
  BY DEF OrderlyInv, RoutesFollow, Installed
<1>4. QED
  BY <1>2, <1>3

(* So what they serve stays as code appears elsewhere.                     *)
LEMMA ServesKept ==
  ASSUME IInv, RecordsInv, OrderlyInv, Carries(code, <<>>, code', <<>>), NEW p \in Proxies
  PROVE  /\ [s \in Selectors |-> IF routes[p][s] = ZERO_ADDRESS THEN NoCode ELSE code'[routes[p][s]]]
              = Serves(routes[p])
         /\ LET owners == SelectorOwners(ledger[p].current)
            IN  [s \in Selectors |-> IF owners[s] = ZERO_ADDRESS THEN NoCode ELSE code'[owners[s]]]
                  = Serves(owners)
<1>1. \A a \in Addresses : code[a] # NoCode => code'[a] = code[a]
  BY DEF Carries, Lands
<1>2. QED
  BY <1>1, RoutedHaveCode DEF Serves, CodeAt

(* Each orderly step installs one commit on one proxy, or accepts what     *)
(* they all serve, or changes nothing a caller can see.                    *)
LEMMA NextServes ==
  IInv /\ RecordsInv /\ OrderlyInv /\ [OrderlyNext]_vars =>
    [Atomic!Next]_<<[p \in Proxies |-> Serves(routes[p])],
                    [p \in Proxies |-> Serves(SelectorOwners(ledger[p].current))]>>
<1> DEFINE served == [p \in Proxies |-> Serves(routes[p])]
           accepted == [p \in Proxies |-> Serves(SelectorOwners(ledger[p].current))]
<1> SUFFICES ASSUME IInv, RecordsInv, OrderlyInv, [OrderlyNext]_vars
             PROVE  Atomic!Next \/ UNCHANGED <<served, accepted>>
  OBVIOUS
<1>1. CASE UNCHANGED <<routes, code>> /\ \A p \in Proxies : ledger'[p].current = ledger[p].current
  BY <1>1 DEF Serves, CodeAt
<1>2. CASE Send
  <2>1. UNCHANGED <<routes, ledger>>
    BY <1>2 DEF Send
  <2>2. \A p \in Proxies :
          /\ Serves(routes[p])' = Serves(routes[p])
          /\ Serves(SelectorOwners(ledger[p].current))' = Serves(SelectorOwners(ledger[p].current))
    BY <1>2, <2>1, SendKeepsCode, ServesKept DEF Serves, CodeAt
  <2>3. QED
    BY <2>2
<1>3. ASSUME NEW p \in Proxies, OrderlyExecute(p)
      PROVE  Atomic!Next
  <2> DEFINE proposed == ledger[p].proposed
  <2>1. /\ proposed # NoState /\ Installed(p)
        /\ routes' = [routes EXCEPT ![p] = SelectorOwners(proposed)]
    BY <1>3, OrderlyVote
  <2>2. UNCHANGED <<ledger, code>>
    BY <1>3 DEF OrderlyExecute, Execute
  <2>3. WellFormed(proposed) /\ proposed \in DeploymentState /\ StateLands(p, proposed, code, <<>>)
    BY DEF IInv, TypeOK, Entry, RecordsWellFormed, RecordsInv, LedgerHolds
  <2>4. proposed.gitCommit \in Commits
    BY <2>1, <2>3 DEF WellFormed
  <2>5. Serves(SelectorOwners(proposed)) = Behaviour(proposed.gitCommit, p)
    BY <2>1, <2>3, BehaviourServed
  <2>6. served' = [served EXCEPT ![p] = Behaviour(proposed.gitCommit, p)]
    <3>1. \A q \in Proxies :
            Serves(routes[q])' = IF q = p THEN Serves(SelectorOwners(proposed)) ELSE Serves(routes[q])
      BY <2>1, <2>2 DEF IInv, TypeOK, Serves, CodeAt
    <3>2. QED
      BY <2>5, <3>1
  <2>7. accepted' = accepted
    BY <2>2 DEF Serves, CodeAt
  <2>8. served[p] = accepted[p]
    BY <2>1 DEF Installed
  <2>9. Atomic!Install(p, proposed.gitCommit)
    BY <2>6, <2>7, <2>8 DEF Atomic!Install
  <2>10. QED
    BY <2>4, <2>9 DEF Atomic!Next
<1>4. CASE FinishAccept
  <2>1. UNCHANGED <<routes, code>>
    BY <1>4 DEF FinishAccept, chain
  <2>2. CASE ledger' = ledger
    BY <1>1, <2>1, <2>2
  <2>3. CASE \A p \in Proxies :
               \/ Executed(p) /\ ledger'[p] = AcceptEntry(ledger[p])
               \/ ledger[p].proposed = NoState /\ ledger'[p] = ledger[p]
    <3>1. ASSUME NEW p \in Proxies
          PROVE  SelectorOwners(ledger'[p].current) = routes[p]
      <4>1. CASE Executed(p) /\ ledger'[p] = AcceptEntry(ledger[p])
        <5>1. routes[p] = SelectorOwners(ledger[p].proposed)
          BY <4>1 DEF OrderlyInv, RoutesFollow
        <5>2. AcceptEntry(ledger[p]).current = ledger[p].proposed
          BY DEF AcceptEntry
        <5>3. QED
          BY <4>1, <5>1, <5>2
      <4>2. CASE ledger[p].proposed = NoState /\ ledger'[p] = ledger[p]
        BY <4>2 DEF OrderlyInv, RoutesFollow, Executed, Installed
      <4>3. QED
        BY <2>3, <4>1, <4>2
    <3>2. accepted' = served /\ served' = served
      BY <2>1, <3>1 DEF Serves, CodeAt
    <3>3. QED
      BY <3>2 DEF Atomic!Next, Atomic!Accept
  <2>4. QED
    BY <1>4, <2>2, <2>3, OrderlyAccept
<1>5. CASE FinishDeploy
  <2>1. UNCHANGED <<routes, code>>
    BY <1>5 DEF FinishDeploy, chain
  <2>2. \A p \in Proxies : ledger'[p].current = ledger[p].current
    BY <1>5, FinishDeployEffect
  <2>3. QED
    BY <1>1, <2>1, <2>2
<1>6. CASE UNCHANGED <<ledger, routes, code>>
  BY <1>1, <1>6
<1>7. QED
  BY <1>2, <1>3, <1>4, <1>5, <1>6
     DEF OrderlyNext, OrderlyRest, Tool, OrderlyDeploy, StartDeploy, PlanFacet, PlanSelectors, PlanMigration,
         FailDeploy, StartAccept, CheckProxy, MoveHead, Crash, ForeignTransaction, vars, chain

(* In orderly operation a proxy always serves exactly one commit, goes to  *)
(* the next one in a single step from an accepted state, and the ledger    *)
(* accepts what all of them serve at once: the lifecycle, with its plans,  *)
(* nonces, reuse, crashes and reverts, implements AtomicUpgrade.           *)
THEOREM ServesOneCommitAtATime == OrderlySpec => ServesOneCommit
<1>1. Init => Atomic!Init
  <2> SUFFICES ASSUME Init PROVE Atomic!Init
    OBVIOUS
  <2>1. \A p \in Proxies : Serves(routes[p]) = [s \in Selectors |-> NoCode]
    BY DEF Init, Serves, CodeAt
  <2>2. \A p \in Proxies : SelectorOwners(ledger[p].current) = [s \in Selectors |-> ZERO_ADDRESS]
    BY DEF Init, NoDeployment, NoState, SelectorOwners, Serving, FacetsOf
  <2>3. \A p \in Proxies : Serves(SelectorOwners(ledger[p].current)) = [s \in Selectors |-> NoCode]
    BY <2>2 DEF Serves, CodeAt
  <2>4. QED
    BY <2>1, <2>3 DEF Atomic!Init
<1>2. QED
  BY <1>1, NextServes, OrderlyHolds, PTL DEF OrderlySpec, ServesOneCommit, Atomic!Spec

-----------------------------------------------------------------------------
(* What the ledger records was installed.                                  *)

(* An address a history entry of a state stands for, if it dispatches      *)
(* anything, is where the state routes a selector.                         *)
LEMMA RetiredWasRouted ==
  ASSUME NEW p \in Proxies, NEW state \in DeploymentState, WellFormed(state), ~Clash(state), NEW onchain,
         StateLands(p, state, onchain, <<>>), NEW a \in Addresses, HistoryEntries(state)[a] # NoEntry,
         Dispatches(HistoryEntries(state)[a])
  PROVE  \E s \in Selectors : SelectorOwners(state)[s] = a
<1> DEFINE entry == HistoryEntries(state)[a]
           Any(S) == CHOOSE f \in S : TRUE
<1>1. a # ZERO_ADDRESS
  BY DEF Addresses, ZERO_ADDRESS
<1>2. CASE a = state.selectors
  <2>1. SelectorsRuntime(state.gitCommit, FacetsOf(state)) # NoCode
    BY <1>1, <1>2 DEF StateLands, SelectorsLand
  <2>2. Serving(state, SELECTORS_SELECTOR) = {}
    BY <2>1 DEF SelectorsRuntime, Serving
  <2>3. SelectorOwners(state)[SELECTORS_SELECTOR] = a
    BY <1>2, <2>2, NamesAssumption DEF SelectorOwners
  <2>4. QED
    BY <2>3, NamesAssumption
<1>3. CASE a # state.selectors
  <2> DEFINE f == CHOOSE f \in Facets : state.facets[f].address = a
  <2>1. \E g \in Facets : state.facets[g].address = a
    BY <1>3 DEF HistoryEntries
  <2>2. f \in Facets /\ state.facets[f].address = a
    BY <2>1
  <2>3. /\ entry.gitCommit = state.gitCommit /\ entry.source = {f}
        /\ entry.initcodeHash = state.facets[f].initcodeHash
    BY <1>3, <2>1 DEF HistoryEntries, ArchivedAs
  <2> HIDE DEF f
  <2>4. state.facets[f] # NoRecord
    BY <1>1, <2>2 DEF NoRecord
  <2>5. state.gitCommit \in Commits
    BY <2>2, <2>4 DEF WellFormed, NoState
  <2>6. state.facets[f].initcodeHash # NoHash
    BY <2>2, <2>4, RecordedFilledIn, NamesAssumption
  <2>7. facet_selectors[state.gitCommit][f] # {}
    BY <2>3, <2>6 DEF Dispatches
  <2>8. PICK s \in Selectors : s \in facet_selectors[state.gitCommit][f]
    BY <2>2, <2>5, <2>7, SourcesAssumption
  <2>9. f \in Serving(state, s)
    BY <2>2, <2>4, <2>8 DEF Serving, FacetsOf, Exposes
  <2>10. Any(Serving(state, s)) \in Serving(state, s)
    BY <2>9
  <2>11. SelectorOwners(state)[s] = state.facets[Any(Serving(state, s))].address
    BY <2>9 DEF SelectorOwners
  <2> HIDE DEF Any
  <2>12. SelectorOwners(state)[s] = a
    BY <2>2, <2>9, <2>10, <2>11 DEF Clash
  <2>13. QED
    BY <2>12
<1>4. QED
  BY <1>2, <1>3

(* A step that adds no log and lets no state clash, whatever else it plans. *)
LEMMA StillInstalled ==
  ASSUME InstalledInv, UNCHANGED <<ledger, routes, announced>>,
         \A p \in Proxies : ~Clash(run'.ledger[p].proposed), PassedWereInstalled'
  PROVE  InstalledInv'
BY DEF InstalledInv, RoutesAnnounced, RecordsClear, RecordedWereInstalled, OwnersAnnounced, Archived

(* A fresh memory plans nothing and has passed nothing.                    *)
LEMMA IdleInstalled ==
  ASSUME run' = Idle
  PROVE  PassedWereInstalled' /\ \A p \in Proxies : ~Clash(run'.ledger[p].proposed)
<1>1. ~Clash(NoState)
  BY DEF Clash, Serving, FacetsOf, NoState
<1>2. QED
  BY <1>1 DEF Idle, NoDeployment, PassedWereInstalled

(* Planning a migration is refused where the selectors clash.              *)
LEMMA PlanMigrationInstalled ==
  ASSUME IInv, InstalledInv, NEW storage_keys, NEW unread, PlanMigration(storage_keys, unread)
  PROVE  InstalledInv'
<1>1. run.proxy \in Proxies /\ UNCHANGED <<ledger, routes, announced>>
  BY DEF IInv, Planning, PlanMigration, chain
<1>2. ~Clash(NoState)
  BY DEF Clash, Serving, FacetsOf, NoState
<1>3. \A m : ~Clash(Proposed(m))
  BY DEF PlanMigration, Clash, Serving, FacetsOf, Proposed
<1>4. \E state, next_nonce, creations :
         run' = NextProxy(state, next_nonce, creations) /\ ~Clash(state)
  BY <1>2, <1>3 DEF PlanMigration
<1>5. PICK state, next_nonce, creations :
         run' = NextProxy(state, next_nonce, creations) /\ ~Clash(state)
  BY <1>4
<1>6. /\ run'.step # "check"
      /\ \A p \in Proxies : /\ p # run.proxy => run'.ledger[p] = run.ledger[p]
                            /\ p = run.proxy => run'.ledger[p].proposed = state
  BY <1>1, <1>5, NextProxyEffect
<1>7. \A p \in Proxies : ~Clash(run'.ledger[p].proposed)
  BY <1>5, <1>6 DEF InstalledInv, RecordsClear
<1>8. PassedWereInstalled'
  BY <1>6 DEF PassedWereInstalled
<1>9. QED
  BY <1>1, <1>7, <1>8, StillInstalled

(* deploy writes what it read, but for what it proposes.                   *)
LEMMA FinishDeployInstalled == IInv /\ InstalledInv /\ FinishDeploy => InstalledInv'
<1> SUFFICES ASSUME IInv, InstalledInv, FinishDeploy PROVE InstalledInv'
  OBVIOUS
<1>1. run' = Idle /\ routes' = routes /\ announced' = announced
  BY DEF FinishDeploy, chain
<1>2. \A p \in Proxies : /\ ledger'[p].current = ledger[p].current
                         /\ ledger'[p].history = ledger[p].history
                         /\ Clash(ledger'[p].proposed) <=> Clash(run.ledger[p].proposed)
  BY FinishDeployEffect, MinedRoutes
<1>3. RoutesAnnounced'
  BY <1>1 DEF InstalledInv, RoutesAnnounced
<1>4. RecordsClear' /\ PassedWereInstalled'
  BY <1>1, <1>2, IdleInstalled DEF InstalledInv, RecordsClear
<1>5. RecordedWereInstalled'
  BY <1>1, <1>2 DEF InstalledInv, RecordedWereInstalled, OwnersAnnounced, Archived
<1>6. QED
  BY <1>3, <1>4, <1>5 DEF InstalledInv

(* A proxy passes with every slot it proposes to fill filled, and a slot is *)
(* filled with a log.                                                      *)
LEMMA CheckProxyInstalled == IInv /\ InstalledInv /\ CheckProxy => InstalledInv'
<1> SUFFICES ASSUME IInv, InstalledInv, CheckProxy PROVE InstalledInv'
  OBVIOUS
<1>1. /\ run \in Run /\ run.step = "check" /\ UNCHANGED <<ledger, routes, announced>>
      /\ run.ledger = ledger /\ run.proxy \in Proxies
  BY DEF IInv, TypeOK, Run, Memory, CheckProxy, chain, Proxies
<1> DEFINE passed == VerifyMigrated(Loaded.current, Loaded.proposed, routes[run.proxy])
<1>2. /\ run'.ledger = run.ledger
      /\ run'.pending = run.pending \/ (passed /\ run'.pending = run.pending \union {run.proxy})
  <2>1. CASE run' = [run EXCEPT !.proxy = @ + 1]
    BY <1>1, <2>1 DEF Run
  <2>2. CASE passed /\ run' = [run EXCEPT !.proxy = @ + 1, !.pending = @ \union {run.proxy}]
    BY <1>1, <2>2 DEF Run
  <2>3. CASE run' = [run EXCEPT !.proxy = @ + 1, !.failed = TRUE]
    BY <1>1, <2>3 DEF Run
  <2>4. QED
    BY <2>1, <2>2, <2>3 DEF CheckProxy
<1>3. passed => OwnersAnnounced(run.proxy, ledger[run.proxy].proposed)
  BY <1>1 DEF Loaded, VerifyMigrated, InstalledInv, RoutesAnnounced, OwnersAnnounced
<1> HIDE DEF passed
<1>4. \A p \in run'.pending : OwnersAnnounced(p, ledger[p].proposed)
  BY <1>1, <1>2, <1>3 DEF InstalledInv, PassedWereInstalled
<1>5. PassedWereInstalled'
  BY <1>1, <1>4 DEF PassedWereInstalled, OwnersAnnounced
<1>6. \A p \in Proxies : ~Clash(run'.ledger[p].proposed)
  BY <1>2 DEF InstalledInv, RecordsClear
<1>7. QED
  BY <1>1, <1>5, <1>6, StillInstalled

(* What accept records as installed passed, and what it files away was     *)
(* installed before.                                                       *)
LEMMA FinishAcceptInstalled == IInv /\ RecordsInv /\ InstalledInv /\ FinishAccept => InstalledInv'
<1> SUFFICES ASSUME IInv, RecordsInv, InstalledInv, FinishAccept PROVE InstalledInv'
  OBVIOUS
<1>1. run' = Idle /\ routes' = routes /\ announced' = announced /\ run.step = "check"
  BY DEF FinishAccept, chain
<1>2. \A p \in Proxies : ledger'[p] = ledger[p] \/ (p \in run.pending /\ ledger'[p] = AcceptEntry(ledger[p]))
  BY <1>1 DEF FinishAccept, IInv, TypeOK, Memory
<1>3. RoutesAnnounced' /\ PassedWereInstalled' /\ \A p \in Proxies : ~Clash(run'.ledger[p].proposed)
  BY <1>1, IdleInstalled DEF InstalledInv, RoutesAnnounced
<1>4. ~Clash(NoState)
  BY DEF Clash, Serving, FacetsOf, NoState
<1>5. \A p \in Proxies : ~Clash(ledger'[p].current) /\ ~Clash(ledger'[p].proposed)
  <2> SUFFICES ASSUME NEW p \in Proxies PROVE ~Clash(ledger'[p].current) /\ ~Clash(ledger'[p].proposed)
    OBVIOUS
  <2>1. AcceptEntry(ledger[p]).current = ledger[p].proposed /\ AcceptEntry(ledger[p]).proposed = NoState
    BY DEF AcceptEntry
  <2>2. QED
    BY <1>2, <1>4, <2>1 DEF InstalledInv, RecordsClear
<1>6. ASSUME NEW p \in Proxies
      PROVE  /\ OwnersAnnounced(p, ledger'[p].current)
             /\ \A a \in Archived(ledger'[p]) : Dispatches(ledger'[p].history[a]) => a \in announced[p]
  <2>1. /\ OwnersAnnounced(p, ledger[p].current)
        /\ \A a \in Archived(ledger[p]) : Dispatches(ledger[p].history[a]) => a \in announced[p]
    BY DEF InstalledInv, RecordedWereInstalled
  <2>2. CASE ledger'[p] = ledger[p]
    BY <2>1, <2>2
  <2>3. CASE p \in run.pending /\ ledger'[p] = AcceptEntry(ledger[p])
    <3> DEFINE current == ledger[p].current
               retired == RetiredEntries(current, ledger[p].proposed)
    <3>1. OwnersAnnounced(p, ledger[p].proposed)
      BY <1>1, <2>3 DEF InstalledInv, PassedWereInstalled
    <3>2. OwnersAnnounced(p, ledger'[p].current)
      BY <2>3, <3>1 DEF AcceptEntry
    <3>3. ledger'[p].history = UpdateHistory(ledger[p].history, retired)
      BY <2>3 DEF AcceptEntry
    <3>4. current \in DeploymentState /\ WellFormed(current) /\ StateLands(p, current, code, <<>>) /\ ~Clash(current)
      BY DEF IInv, TypeOK, Entry, RecordsWellFormed, RecordsInv, LedgerHolds, InstalledInv, RecordsClear
    <3>5. ASSUME NEW a \in Archived(ledger'[p]), Dispatches(ledger'[p].history[a])
          PROVE  a \in announced[p]
      <4>1. a \in Addresses /\ ledger'[p].history[a] # NoEntry
        BY DEF Archived
      <4>2. CASE retired[a] # NoEntry
        <5>1. retired[a] = HistoryEntries(current)[a]
          BY <4>1, <4>2 DEF RetiredEntries
        <5>2. ledger'[p].history[a] = HistoryEntries(current)[a]
          BY <3>3, <4>1, <4>2, <5>1 DEF UpdateHistory
        <5> HIDE DEF current, retired
        <5>3. PICK s \in Selectors : SelectorOwners(current)[s] = a
          BY <3>4, <3>5, <4>1, <5>2, RetiredWasRouted
        <5>4. a # ZERO_ADDRESS
          BY <4>1 DEF Addresses, ZERO_ADDRESS
        <5> USE DEF current
        <5>5. QED
          BY <2>1, <5>3, <5>4 DEF OwnersAnnounced
      <4>3. CASE retired[a] = NoEntry
        <5>1. ledger'[p].history[a] = ledger[p].history[a]
          BY <3>3, <4>1, <4>3 DEF UpdateHistory
        <5>2. QED
          BY <2>1, <3>5, <4>1, <5>1 DEF Archived
      <4>4. QED
        BY <4>2, <4>3
    <3>6. QED
      BY <3>2, <3>5
  <2>4. QED
    BY <1>2, <2>2, <2>3
<1>7. RecordedWereInstalled'
  BY <1>1, <1>6 DEF RecordedWereInstalled, OwnersAnnounced
<1>8. RecordsClear'
  BY <1>3, <1>5 DEF RecordsClear
<1>9. QED
  BY <1>3, <1>7, <1>8 DEF InstalledInv

(* A vote logs each slot it fills, and takes back no log.                  *)
LEMMA ExecuteInstalled ==
  ASSUME IInv, InstalledInv, NEW q \in Proxies, NEW m, Execute(q, m)
  PROVE  InstalledInv'
<1> DEFINE sets == code[m].sets
<1>1. /\ ledger' = ledger /\ run' = run
      /\ routes' = [routes EXCEPT ![q] = Migrate(@, sets)]
      /\ announced' = [announced EXCEPT ![q] = @ \union ({sets[s] : s \in DOMAIN sets} \ {ZERO_ADDRESS})]
      /\ routes \in [Proxies -> Routes] /\ announced \in [Proxies -> SUBSET Addresses]
  BY DEF Execute, IInv, TypeOK
<1> HIDE DEF sets
<1>2. \A p \in Proxies : announced[p] \subseteq announced'[p]
  BY <1>1
<1>3. \A p \in Proxies : \A state : OwnersAnnounced(p, state) => OwnersAnnounced(p, state)'
  BY <1>2 DEF OwnersAnnounced
<1>4. RoutesAnnounced'
  <2> SUFFICES ASSUME NEW p \in Proxies, NEW s \in Selectors, routes'[p][s] # ZERO_ADDRESS
               PROVE  routes'[p][s] \in announced'[p]
    BY DEF RoutesAnnounced
  <2>1. CASE p = q /\ s \in DOMAIN sets
    BY <1>1, <2>1 DEF Migrate
  <2>2. CASE ~(p = q /\ s \in DOMAIN sets)
    <3>1. routes'[p][s] = routes[p][s]
      BY <1>1, <2>2 DEF Migrate
    <3>2. QED
      BY <1>2, <3>1 DEF InstalledInv, RoutesAnnounced
  <2>3. QED
    BY <2>1, <2>2
<1>5. RecordsClear' /\ PassedWereInstalled'
  BY <1>1, <1>3 DEF InstalledInv, RecordsClear, PassedWereInstalled, IInv, TypeOK, Run
<1>6. RecordedWereInstalled'
  BY <1>1, <1>2, <1>3 DEF InstalledInv, RecordedWereInstalled, OwnersAnnounced
<1>7. QED
  BY <1>4, <1>5, <1>6 DEF InstalledInv

(* Every step keeps it.                                                    *)
LEMMA NextInstalled == IInv /\ RecordsInv /\ InstalledInv /\ [Next]_vars => InstalledInv'
<1> SUFFICES ASSUME IInv, RecordsInv, InstalledInv, [Next]_vars PROVE InstalledInv'
  OBVIOUS
<1>1. CASE PlanFacet \/ PlanSelectors \/ Send
  <2>1. /\ UNCHANGED <<ledger, routes, announced>> /\ run.step \in {"facets", "send"} /\ run \in Run
    BY <1>1 DEF PlanFacet, PlanSelectors, Send, chain, IInv, TypeOK
  <2>2. run'.ledger = run.ledger /\ run'.step # "check"
    BY <1>1, <2>1 DEF PlanFacet, PlanSelectors, Send, Run
  <2>3. QED
    BY <2>1, <2>2, StillInstalled DEF PassedWereInstalled, InstalledInv, RecordsClear
<1>2. CASE FailDeploy \/ Crash \/ RefusesMigration
  BY <1>2, IdleInstalled, StillInstalled DEF FailDeploy, Crash, RefusesMigration, RefuseMigration, chain
<1>3. CASE StartAccept \/ \E all \in BOOLEAN : StartDeploy(all)
  <2>1. UNCHANGED <<ledger, routes, announced>> /\ run'.ledger = ledger /\ run'.pending = {}
    BY <1>3 DEF StartAccept, StartDeploy, Idle, chain
  <2>2. QED
    BY <2>1, StillInstalled DEF PassedWereInstalled, InstalledInv, RecordsClear
<1>4. CASE FinishDeploy \/ CheckProxy \/ FinishAccept \/ PlansMigration
  BY <1>4, FinishDeployInstalled, CheckProxyInstalled, FinishAcceptInstalled, PlanMigrationInstalled
     DEF PlansMigration
<1>5. CASE \E p \in Proxies : \E m \in Addresses : Execute(p, m)
  BY <1>5, ExecuteInstalled
<1>6. CASE (\E c \in Commits : MoveHead(c)) \/ ForeignTransaction \/ UNCHANGED vars
  <2>1. UNCHANGED <<ledger, routes, announced, run>>
    BY <1>6 DEF MoveHead, ForeignTransaction, vars, chain
  <2>2. QED
    BY <2>1, StillInstalled DEF PassedWereInstalled, InstalledInv, RecordsClear, OwnersAnnounced
<1>7. QED
  BY <1>1, <1>2, <1>3, <1>4, <1>5, <1>6 DEF Next, Tool, PlansMigration, RefusesMigration

(* Every delegate accept records as installed, or archives, was installed  *)
(* on that proxy, whoever votes and whatever fails: audit's warning is due *)
(* only for a facet that dispatches nothing.                               *)
THEOREM RecordedInstalled == Spec => []RecordedWereInstalled
<1>1. Init => InstalledInv
  <2> SUFFICES ASSUME Init PROVE InstalledInv
    OBVIOUS
  <2>1. ~Clash(NoState)
    BY DEF Clash, Serving, FacetsOf, NoState
  <2>2. \A s \in Selectors : SelectorOwners(NoState)[s] = ZERO_ADDRESS
    BY DEF SelectorOwners, Serving, FacetsOf, NoState
  <2>3. RoutesAnnounced /\ RecordsClear /\ PassedWereInstalled
    BY <2>1 DEF Init, RoutesAnnounced, RecordsClear, PassedWereInstalled, Idle, NoDeployment
  <2>4. RecordedWereInstalled
    BY <2>2 DEF Init, RecordedWereInstalled, OwnersAnnounced, NoDeployment, Archived
  <2>5. QED
    BY <2>3, <2>4 DEF InstalledInv
<1>2. IInv /\ RecordsInv /\ InstalledInv /\ [Next]_vars => InstalledInv'
  BY NextInstalled
<1>3. InstalledInv => RecordedWereInstalled
  BY DEF InstalledInv
<1>4. QED
  BY <1>1, <1>2, <1>3, RecordsHold, PTL DEF Spec

-----------------------------------------------------------------------------
(* What check foretells is what deploy does.                               *)

(* Every set of numbers has a least one.                                   *)
LEMMA Least ==
  ASSUME NEW T \in SUBSET Nat, T # {}
  PROVE  \E x \in T : \A y \in T : x <= y
<1>1. PICK x \in T : \A y \in T : <<y, x>> \notin OpToRel(<, Nat)
  BY NatLessThanWellFounded, WFMin, Zenon
<1>2. \A y \in T : y \in Nat /\ x \in Nat
  OBVIOUS
<1>3. \A y \in T : ~(y < x)
  BY <1>1, <1>2, Zenon DEF OpToRel
<1>4. QED
  BY <1>2, <1>3

(* What zero has and each number passes on to the next, every number has.  *)
LEMMA Inductive ==
  ASSUME NEW T \in SUBSET Nat, 0 \in T, \A n \in T : n + 1 \in T
  PROVE  T = Nat
<1> DEFINE rest == Nat \ T
<1>1. SUFFICES ASSUME rest # {} PROVE FALSE
  OBVIOUS
<1>2. PICK x \in rest : \A y \in rest : x <= y
  <2>1. rest \in SUBSET Nat
    OBVIOUS
  <2> HIDE DEF rest
  <2>2. QED
    BY <1>1, <2>1, Least
<1>3. x - 1 \in Nat /\ x - 1 \notin rest
  BY <1>2
<1>4. QED
  BY <1>2, <1>3

(* The plan with which check begins a proxy.                               *)
Unowned(plan) == [owners |-> NothingPlanned.owners, deployed |-> plan.deployed, fresh |-> plan.fresh]

(* The plan after each facet comes of the plan before it.                  *)
LEMMA SourcesInOrder ==
  ASSUME NEW commit, NEW p, NEW entry, NEW plan, Len(facetSrc[commit][p]) \in Nat
  PROVE  /\ CheckSources(commit, p, entry, plan)[0] = Unowned(plan)
         /\ \A i \in 1 .. Len(facetSrc[commit][p]) :
              CheckSources(commit, p, entry, plan)[i]
                = CheckFacet(commit, p, entry, CheckSources(commit, p, entry, plan)[i - 1],
                             facetSrc[commit][p][i])
<1> DEFINE n == Len(facetSrc[commit][p])
           base == Unowned(plan)
           Step(x, i) == CheckFacet(commit, p, entry, x, facetSrc[commit][p][i])
           Goes(f, m) == \A i \in 0 .. m : f[i] = IF i = 0 THEN base ELSE Step(f[i - 1], i)
           U == {m \in Nat : \E f : Goes(f, m)}
<1> HIDE DEF base, Step
<1>1. 0 \in U
  <2>1. Goes([i \in {0} |-> base], 0)
    OBVIOUS
  <2>2. QED
    BY <2>1
<1>2. ASSUME NEW m \in U
      PROVE  m + 1 \in U
  <2>1. PICK f : Goes(f, m)
    OBVIOUS
  <2> DEFINE g == [i \in 0 .. m + 1 |-> IF i = m + 1 THEN Step(f[m], i) ELSE f[i]]
  <2>2. g[m + 1] = Step(f[m], m + 1) /\ \A i \in 0 .. m : g[i] = f[i]
    OBVIOUS
  <2>3. \A i \in 1 .. m : f[i] = Step(f[i - 1], i)
    BY <2>1
  <2>4. f[0] = base
    BY <2>1
  <2> HIDE DEF g
  <2>5. Goes(g, m + 1)
    BY <2>2, <2>3, <2>4
  <2>6. QED
    BY <2>5
<1>3. U = Nat
  <2> HIDE DEF U
  <2>1. QED
    BY <1>1, <1>2, Inductive DEF U
<1>4. PICK f : Goes(f, n)
  BY <1>3
<1> DEFINE g == [i \in 0 .. n |-> f[i]]
<1>5. g = [i \in 0 .. n |-> IF i = 0 THEN base ELSE Step(g[i - 1], i)]
  <2>1. \A i \in 1 .. n : i - 1 \in 0 .. n
    OBVIOUS
  <2>2. \A i \in 0 .. n : f[i] = IF i = 0 THEN base ELSE Step(g[i - 1], i)
    BY <1>4, <2>1
  <2> HIDE DEF g
  <2>3. QED
    BY <2>2 DEF g
<1> DEFINE after == CheckSources(commit, p, entry, plan)
<1>6. after = [i \in 0 .. n |-> IF i = 0 THEN base ELSE Step(after[i - 1], i)]
  <2> HIDE DEF g
  <2>1. QED
    BY <1>5 DEF CheckSources, Unowned, base, Step
<1> HIDE DEF after
<1>7. after[0] = base /\ \A i \in 1 .. n : after[i] = Step(after[i - 1], i)
  <2>1. \A i \in 0 .. n : after[i] = IF i = 0 THEN base ELSE Step(after[i - 1], i)
    BY <1>6
  <2>2. n \in Nat
    OBVIOUS
  <2> HIDE DEF n
  <2>3. QED
    BY <2>1, <2>2
<1>8. QED
  BY <1>7 DEF after, base, Step

(* So does the plan after each proxy.                                      *)
LEMMA ProxiesInOrder ==
  ASSUME NEW commit, NEW entries
  PROVE  /\ Checked(commit, entries)[0] = NothingPlanned
         /\ \A p \in Proxies :
              Checked(commit, entries)[p]
                = CheckSources(commit, p, entries[p], Checked(commit, entries)[p - 1])
                    [Len(facetSrc[commit][p])]
<1> DEFINE Step(x, p) == CheckSources(commit, p, entries[p], x)[Len(facetSrc[commit][p])]
           Goes(f, m) == \A i \in 0 .. m : f[i] = IF i = 0 THEN NothingPlanned ELSE Step(f[i - 1], i)
           U == {m \in Nat : \E f : Goes(f, m)}
<1> HIDE DEF Step
<1>1. 0 \in U
  <2>1. Goes([i \in {0} |-> NothingPlanned], 0)
    OBVIOUS
  <2>2. QED
    BY <2>1
<1>2. ASSUME NEW m \in U
      PROVE  m + 1 \in U
  <2>1. PICK f : Goes(f, m)
    OBVIOUS
  <2> DEFINE g == [i \in 0 .. m + 1 |-> IF i = m + 1 THEN Step(f[m], i) ELSE f[i]]
  <2>2. g[m + 1] = Step(f[m], m + 1) /\ \A i \in 0 .. m : g[i] = f[i]
    OBVIOUS
  <2>3. \A i \in 1 .. m : f[i] = Step(f[i - 1], i)
    BY <2>1
  <2>4. f[0] = NothingPlanned
    BY <2>1
  <2> HIDE DEF g
  <2>5. Goes(g, m + 1)
    BY <2>2, <2>3, <2>4
  <2>6. QED
    BY <2>5
<1>3. U = Nat
  <2> HIDE DEF U
  <2>1. QED
    BY <1>1, <1>2, Inductive DEF U
<1>4. PICK f : Goes(f, NProxies)
  BY <1>3, SizesAssumption
<1> DEFINE g == [i \in 0 .. NProxies |-> f[i]]
<1>5. g = [i \in 0 .. NProxies |-> IF i = 0 THEN NothingPlanned ELSE Step(g[i - 1], i)]
  <2>1. \A i \in 1 .. NProxies : i - 1 \in 0 .. NProxies
    BY SizesAssumption
  <2>2. \A i \in 0 .. NProxies : f[i] = IF i = 0 THEN NothingPlanned ELSE Step(g[i - 1], i)
    BY <1>4, <2>1
  <2> HIDE DEF g
  <2>3. QED
    BY <2>2 DEF g
<1> DEFINE after == Checked(commit, entries)
<1>6. after = [i \in 0 .. NProxies |-> IF i = 0 THEN NothingPlanned ELSE Step(after[i - 1], i)]
  <2> HIDE DEF g
  <2>1. QED
    BY <1>5 DEF Checked, Step
<1> HIDE DEF after
<1>7. after[0] = NothingPlanned /\ \A i \in 1 .. NProxies : after[i] = Step(after[i - 1], i)
  <2>1. \A i \in 0 .. NProxies : after[i] = IF i = 0 THEN NothingPlanned ELSE Step(after[i - 1], i)
    BY <1>6
  <2>2. QED
    BY <2>1, SizesAssumption
<1>8. QED
  BY <1>7 DEF after, Step, Proxies

-----------------------------------------------------------------------------
(* Places and addresses.                                                   *)

(* What a place of the plan is in the run.                                 *)
LEMMA PlaceCases ==
  ASSUME IInv, CreationsApart, NEW plan, PlansAgree(plan, run, code), NEW place \in Places(plan.fresh, code)
  PROVE  \/ place = Nowhere /\ Where(place, run.run_deployed) = ZERO_ADDRESS
         \/ \E a \in Addresses : place = At(a) /\ Where(place, run.run_deployed) = a /\ code[a] # NoCode
         \/ \E h \in plan.fresh :
              /\ h \in Initcodes /\ place = New(h)
              /\ LET reserved == run.run_deployed[h].address
                 IN  /\ Where(place, run.run_deployed) = reserved
                     /\ reserved \in Addresses /\ code[reserved] = NoCode
                     /\ \E i \in DOMAIN run.creations :
                          run.creations[i].address = reserved /\ run.creations[i].code = FacetCode(h)
<1>1. CASE place = Nowhere
  BY <1>1 DEF Where, Nowhere, At
<1>2. ASSUME NEW a \in Addresses, code[a] # NoCode, place = At(a)
      PROVE  Where(place, run.run_deployed) = a
  BY <1>2 DEF Where, At
<1>3. ASSUME NEW h \in plan.fresh, place = New(h)
      PROVE  /\ h \in Initcodes
             /\ LET reserved == run.run_deployed[h].address
                IN  /\ Where(place, run.run_deployed) = reserved
                    /\ reserved \in Addresses /\ code[reserved] = NoCode
                    /\ \E i \in DOMAIN run.creations :
                         run.creations[i].address = reserved /\ run.creations[i].code = FacetCode(h)
  <2>1. h \in Initcodes /\ h # NoHash
    BY NamesAssumption DEF PlansAgree
  <2>2. Where(place, run.run_deployed) = run.run_deployed[h].address
    BY <1>3, <2>1 DEF Where, New
  <2>3. PICK i \in DOMAIN run.creations :
          run.creations[i].address = run.run_deployed[h].address /\ run.creations[i].code = FacetCode(h)
    BY DEF PlansAgree
  <2>4. run.creations \in Seq(Creation)
    BY DEF IInv, TypeOK, Run
  <2>5. run.creations[i].address \in Addresses /\ code[run.creations[i].address] = NoCode
    <3>1. run.creations[i] \in Creation
      BY <2>4
    <3>2. QED
      BY <3>1 DEF CreationsApart, Creation
  <2>6. QED
    BY <2>1, <2>2, <2>3, <2>5
<1>4. \/ place = Nowhere
      \/ \E a \in Addresses : code[a] # NoCode /\ place = At(a)
      \/ \E h \in plan.fresh : place = New(h)
  BY DEF Places
<1>5. QED
  BY <1>1, <1>2, <1>3, <1>4

(* Two places are one only if their addresses are, and only Nowhere is at  *)
(* the zero address.                                                       *)
LEMMA PlacesApart ==
  ASSUME IInv, CreationsApart, NEW plan, PlansAgree(plan, run, code),
         NEW x \in Places(plan.fresh, code), NEW y \in Places(plan.fresh, code)
  PROVE  /\ Where(x, run.run_deployed) = Where(y, run.run_deployed) => x = y
         /\ Where(x, run.run_deployed) = ZERO_ADDRESS <=> x = Nowhere
<1>1. ZERO_ADDRESS \notin Addresses
  BY SizesAssumption DEF ZERO_ADDRESS, Addresses
<1>2. Where(x, run.run_deployed) = ZERO_ADDRESS <=> x = Nowhere
  <2>1. CASE x = Nowhere
    BY <2>1 DEF Where, Nowhere, At
  <2>2. CASE x # Nowhere
    BY <1>1, <2>2, PlaceCases
  <2>3. QED
    BY <2>1, <2>2
<1>3. ASSUME Where(x, run.run_deployed) = Where(y, run.run_deployed)
      PROVE  x = y
  <2>1. CASE Where(x, run.run_deployed) = ZERO_ADDRESS
    BY <1>1, <1>3, <2>1, PlaceCases
  <2>2. CASE Where(x, run.run_deployed) # ZERO_ADDRESS /\ code[Where(x, run.run_deployed)] # NoCode
    <3>1. x = At(Where(x, run.run_deployed))
      BY <2>2, PlaceCases
    <3>2. y = At(Where(y, run.run_deployed))
      BY <1>3, <2>2, PlaceCases
    <3>3. QED
      BY <1>3, <3>1, <3>2
  <2>3. CASE Where(x, run.run_deployed) # ZERO_ADDRESS /\ code[Where(x, run.run_deployed)] = NoCode
    <3>1. PICK h \in plan.fresh, i \in DOMAIN run.creations :
            /\ x = New(h)
            /\ run.creations[i].address = Where(x, run.run_deployed)
            /\ run.creations[i].code = FacetCode(h)
      BY <2>3, PlaceCases
    <3>2. PICK k \in plan.fresh, j \in DOMAIN run.creations :
            /\ y = New(k)
            /\ run.creations[j].address = Where(y, run.run_deployed)
            /\ run.creations[j].code = FacetCode(k)
      BY <1>3, <2>3, PlaceCases
    <3>3. FacetCode(h) = FacetCode(k)
      BY <1>3, <3>1, <3>2 DEF CreationsApart
    <3>4. h = k
      BY <3>3 DEF FacetCode
    <3>5. QED
      BY <3>1, <3>2, <3>4
  <2>4. QED
    BY <2>1, <2>2, <2>3
<1>4. QED
  BY <1>2, <1>3

(* Where check's plan and the run's memory agree, its report is right.     *)
LEMMA AgreeingForetells == IInv /\ RecordsInv /\ ForetoldInv => CheckForetellsDeploy
<1> SUFFICES ASSUME IInv, RecordsInv, ForetoldInv, run.step = "migration", ~run.redeploy_all
             PROVE  LET plan == Checked(run.commit, ledger)[run.proxy]
                        planned == {run.creations[i].code : i \in DOMAIN run.creations}
                    IN  /\ ExportedTwice(run.commit, plan.owners) <=> Clash(Proposed(ZERO_ADDRESS))
                        /\ {c \in planned : c.kind = "facet"} = {FacetCode(h) : h \in plan.fresh}
  BY DEF CheckForetellsDeploy
<1> DEFINE plan == Checked(run.commit, ledger)[run.proxy]
           planned == {run.creations[i].code : i \in DOMAIN run.creations}
<1>1. run.proxy \in Proxies /\ run.facet = Len(Source) + 1 /\ Source = facetSrc[run.commit][run.proxy]
  BY DEF IInv, Planning, Source
<1>2. Len(Source) \in Nat
  BY SourceType DEF IInv, Planning
<1>3. plan = PlanSoFar
  <2>1. run.facet - 1 = Len(facetSrc[run.commit][run.proxy])
    BY <1>1, <1>2
  <2>2. QED
    BY <1>1, <2>1, ProxiesInOrder DEF PlanSoFar
<1>4. PlansAgree(plan, run, code) /\ CreationsApart
  BY <1>3 DEF ForetoldInv
<1> HIDE DEF plan
<1>5. \A f, g \in Facets : plan.owners[f] # plan.owners[g]
                             <=> run.proposed_facets[f].address # run.proposed_facets[g].address
  <2> SUFFICES ASSUME NEW f \in Facets, NEW g \in Facets
               PROVE  plan.owners[f] # plan.owners[g]
                        <=> run.proposed_facets[f].address # run.proposed_facets[g].address
    OBVIOUS
  <2>1. plan.owners[f] \in Places(plan.fresh, code) /\ plan.owners[g] \in Places(plan.fresh, code)
    BY <1>4 DEF PlansAgree
  <2>2. Where(plan.owners[f], run.run_deployed) = Where(plan.owners[g], run.run_deployed)
          => plan.owners[f] = plan.owners[g]
    BY <1>4, <2>1, PlacesApart
  <2>3. QED
    BY <1>4, <2>2 DEF PlansAgree
<1>6. ExportedTwice(run.commit, plan.owners) <=> Clash(Proposed(ZERO_ADDRESS))
  <2>1. \A s \in Selectors : Serving(Proposed(ZERO_ADDRESS), s)
                               = {f \in Facets : plan.owners[f] # Nowhere /\ Exposes(run.commit, f, s)}
    <3>1. \A f \in Facets : plan.owners[f] = Nowhere <=> run.proposed_facets[f] = NoRecord
      BY <1>4 DEF PlansAgree
    <3>2. QED
      BY <3>1 DEF Serving, FacetsOf, Proposed
  <2>2. Proposed(ZERO_ADDRESS).facets = run.proposed_facets
    BY DEF Proposed
  <2>3. QED
    BY <1>5, <2>1, <2>2 DEF ExportedTwice, Clash
<1>7. {c \in planned : c.kind = "facet"} = {FacetCode(h) : h \in plan.fresh}
  <2>1. ASSUME NEW i \in DOMAIN run.creations, run.creations[i].code.kind = "facet"
        PROVE  run.creations[i].code \in {FacetCode(h) : h \in plan.fresh}
    <3>1. run.creations[i].code \in Code
      <4>1. run.creations \in Seq(Creation)
        BY DEF IInv, TypeOK, Run
      <4>2. run.creations[i] \in Creation
        BY <4>1
      <4>3. QED
        BY <4>2 DEF Creation
    <3>2. PICK h \in Initcodes : run.creations[i].code = FacetCode(h)
      BY <2>1, <3>1 DEF Code, NoCode, FacetCode
    <3>3. QED
      BY <1>4, <3>2 DEF PlansAgree
  <2>2. ASSUME NEW h \in plan.fresh
        PROVE  FacetCode(h) \in planned /\ FacetCode(h).kind = "facet"
    BY <1>4 DEF PlansAgree, FacetCode
  <2>3. QED
    BY <2>1, <2>2
<1>8. QED
  BY <1>6, <1>7 DEF plan

-----------------------------------------------------------------------------
(* The planning steps.                                                     *)

(* The plan with f, of creation code `hash`, at one place more.            *)
Placed(plan, f, hash, place) ==
  [ owners   |-> [plan.owners EXCEPT ![f] = place],
    deployed |-> [plan.deployed EXCEPT ![hash] = IF @ = Nowhere THEN place ELSE @],
    fresh    |-> plan.fresh \union ({place.new} \ {NoHash}) ]

(* What is not planned is at the zero address.                             *)
LEMMA UnplannedIsZero ==
  ASSUME IInv, NEW h \in Initcodes
  PROVE  run.run_deployed[h] = NoRecord <=> run.run_deployed[h].address = ZERO_ADDRESS
BY SizesAssumption DEF IInv, Reusable, NoRecord, Addresses, ZERO_ADDRESS

(* A facet check finds is one deploy finds, and at the same address; one   *)
(* it does not is one deploy creates.                                      *)
LEMMA FacetFound ==
  ASSUME IInv, RecordsInv, CreationsApart, run.step = "facets", ~run.redeploy_all,
         NEW f \in Facets, NEW plan, PlansAgree(plan, run, code),
         NEW hash, hash = facet_initcode[run.commit][run.proxy][f],
         NEW existing, existing = ExistingDeployment(f, hash)
  PROVE  \E place :
           /\ CheckFacet(run.commit, run.proxy, ledger[run.proxy], plan, f) = Placed(plan, f, hash, place)
           /\ existing # NoRecord => /\ place \in Places(plan.fresh, code) /\ place # Nowhere
                                     /\ Where(place, run.run_deployed) = existing.address
           /\ existing = NoRecord => place = New(hash) /\ run.run_deployed[hash] = NoRecord
<1> DEFINE entry == ledger[run.proxy]
           live == entry.current.facets[f]
           staged == entry.proposed.facets[f]
           kept == {state \in {entry.current, entry.proposed} : state.facets[f].initcodeHash = hash}
           place == IF entry.current \in kept THEN At(live.address)
                    ELSE IF kept # {} THEN At(staged.address)
                    ELSE IF plan.deployed[hash] # Nowhere THEN plan.deployed[hash]
                    ELSE New(hash)
<1>1. run.commit \in Commits /\ run.proxy \in Proxies /\ hash \in Initcodes /\ hash # NoHash
  BY SourcesAssumption, NamesAssumption DEF IInv, Planning
<1>2. Loaded.current = entry.current /\ Loaded.proposed = entry.proposed
  <2>1. run.proxy >= run.proxy
    BY <1>1 DEF Proxies
  <2>2. QED
    BY <1>1, <2>1 DEF IInv, Memory, RecordsInv, Untouched, Deploying, Loaded
<1>3. ASSUME NEW state \in {entry.current, entry.proposed}, state.facets[f].initcodeHash = hash
      PROVE  /\ At(state.facets[f].address) \in Places(plan.fresh, code)
             /\ At(state.facets[f].address) # Nowhere
             /\ Where(At(state.facets[f].address), run.run_deployed) = state.facets[f].address
             /\ state.facets[f] # NoRecord
  <2>1. state.facets[f] # NoRecord /\ f \in FacetsOf(state)
    BY <1>1, <1>3 DEF FacetsOf, NoRecord
  <2>2. Lands(state.facets[f].address, FacetCode(hash), code, <<>>)
    BY <1>1, <1>3, <2>1 DEF RecordsInv, LedgerHolds, StateLands, FacetLands
  <2>3. code[state.facets[f].address] # NoCode
    BY <2>2 DEF Lands, FacetCode, NoCode
  <2>4. state.facets[f].address \in Addresses
    <3>1. state \in DeploymentState /\ WellFormed(state)
      BY <1>1, <1>3 DEF IInv, TypeOK, Entry, RecordsWellFormed
    <3>2. QED
      BY <2>1, <3>1, RecordedFilledIn
  <2>5. state.facets[f].address # ZERO_ADDRESS
    BY <2>4, SizesAssumption DEF Addresses, ZERO_ADDRESS
  <2>6. QED
    BY <2>1, <2>3, <2>4, <2>5 DEF Places, Where, At, Nowhere
<1>4. /\ plan.deployed[hash] \in Places(plan.fresh, code)
      /\ run.run_deployed[hash].address = Where(plan.deployed[hash], run.run_deployed)
      /\ run.run_deployed[hash] = NoRecord <=> plan.deployed[hash] = Nowhere
  <2>1. /\ plan.deployed[hash] \in Places(plan.fresh, code)
        /\ run.run_deployed[hash].address = Where(plan.deployed[hash], run.run_deployed)
    BY <1>1 DEF PlansAgree
  <2>2. run.run_deployed[hash] = NoRecord <=> run.run_deployed[hash].address = ZERO_ADDRESS
    BY <1>1, UnplannedIsZero
  <2>3. QED
    BY <2>1, <2>2, PlacesApart
<1>5. /\ existing # NoRecord => /\ place \in Places(plan.fresh, code) /\ place # Nowhere
                                /\ Where(place, run.run_deployed) = existing.address
      /\ existing = NoRecord => place = New(hash) /\ run.run_deployed[hash] = NoRecord
  <2>1. CASE live.initcodeHash = hash
    <3>1. existing = live /\ place = At(live.address)
      BY <1>2, <2>1 DEF ExistingDeployment
    <3> HIDE DEF place
    <3>2. QED
      BY <1>3, <2>1, <3>1
  <2>2. CASE live.initcodeHash # hash /\ staged.initcodeHash = hash
    <3>1. existing = staged
      BY <1>2, <2>2 DEF ExistingDeployment
    <3>2. place = At(staged.address)
      BY <2>2
    <3> HIDE DEF place
    <3>3. QED
      BY <1>3, <2>2, <3>1, <3>2
  <2>3. CASE live.initcodeHash # hash /\ staged.initcodeHash # hash /\ plan.deployed[hash] # Nowhere
    <3>1. existing = run.run_deployed[hash]
      BY <1>2, <2>3 DEF ExistingDeployment
    <3>2. place = plan.deployed[hash]
      BY <2>3
    <3>3. existing # NoRecord /\ existing.address = run.run_deployed[hash].address
      BY <1>4, <2>3, <3>1
    <3> HIDE DEF place
    <3>4. QED
      BY <1>4, <2>3, <3>2, <3>3
  <2>4. CASE live.initcodeHash # hash /\ staged.initcodeHash # hash /\ plan.deployed[hash] = Nowhere
    <3>1. existing = NoRecord
      BY <1>2, <1>4, <2>4 DEF ExistingDeployment
    <3>2. place = New(hash)
      BY <2>4
    <3> HIDE DEF place
    <3>3. QED
      BY <1>4, <2>4, <3>1, <3>2
  <2>5. QED
    BY <2>1, <2>2, <2>3, <2>4
<1>6. CheckFacet(run.commit, run.proxy, ledger[run.proxy], plan, f) = Placed(plan, f, hash, place)
  BY DEF CheckFacet, Placed
<1> HIDE DEF place
<1>7. QED
  BY <1>5, <1>6

(* A creation more, at the next nonce, is apart from the others.           *)
LEMMA ReservedApart ==
  ASSUME IInv, CreationsApart, CanCreate, NEW c \in Code,
         run'.creations = Reserve(c), run'.next_nonce = NextNonce + 1, code' = code
  PROVE  CreationsApart'
<1> DEFINE new == [address |-> NextNonce, code |-> c]
           old == run.creations
           n == Len(old)
<1>1. NextNonce \in Addresses /\ NextNonce \in Nat /\ NextNonce # 0 /\ run.next_nonce \in Nat
  BY CanCreateType DEF IInv, TypeOK, Run, Addresses
<1>2. old \in Seq(Creation) /\ n \in Nat /\ DOMAIN old = 1 .. n
  BY DEF IInv, TypeOK, Run
<1>3. new \in Creation /\ new.address = NextNonce
  BY <1>1 DEF Creation
<1>4. run'.creations = Append(old, new)
  BY DEF Reserve
<1>5. /\ DOMAIN run'.creations = 1 .. n + 1 /\ run'.creations[n + 1].address = NextNonce
      /\ \A i \in 1 .. n : run'.creations[i] = old[i]
  <2> HIDE DEF new, old
  <2>1. QED
    BY <1>2, <1>3, <1>4
<1>6. \A i \in 1 .. n : old[i].address \in Nat /\ old[i].address < NextNonce /\ code[old[i].address] = NoCode
  <2> SUFFICES ASSUME NEW i \in 1 .. n
               PROVE  old[i].address \in Nat /\ old[i].address < NextNonce /\ code[old[i].address] = NoCode
    OBVIOUS
  <2>1. old[i] \in Creation
    BY <1>2
  <2>2. old[i].address \in Nat
    BY <2>1 DEF Creation, Addresses
  <2>3. old[i].address < run.next_nonce /\ code[old[i].address] = NoCode
    BY <1>2 DEF CreationsApart
  <2>4. QED
    BY <1>1, <2>2, <2>3 DEF NextNonce
<1>7. \A a \in Addresses : a >= NextNonce => code[a] = NoCode
  BY DEF CreationsApart
<1>8. run'.next_nonce = NextNonce + 1 /\ NextNonce' = NextNonce + 1
  BY <1>1 DEF NextNonce
<1> DEFINE after == run'.creations
<1>9. \A i \in DOMAIN after : after[i].address < NextNonce + 1 /\ code[after[i].address] = NoCode
  <2> SUFFICES ASSUME NEW i \in DOMAIN after
               PROVE  after[i].address < NextNonce + 1 /\ code[after[i].address] = NoCode
    OBVIOUS
  <2>1. CASE i = n + 1
    BY <1>1, <1>5, <1>7, <2>1
  <2>2. CASE i \in 1 .. n
    BY <1>1, <1>5, <1>6, <2>2
  <2>3. QED
    BY <1>2, <1>5, <2>1, <2>2
<1>10. \A i, j \in DOMAIN after : after[i].address = after[j].address => i = j
  <2>1. \A i, j \in 1 .. n : old[i].address = old[j].address => i = j
    BY <1>2 DEF CreationsApart
  <2>2. \A i \in 1 .. n : old[i].address # NextNonce
    BY <1>1, <1>6
  <2> HIDE DEF old, n
  <2>3. \A i \in DOMAIN after : i \in 1 .. n \/ i = n + 1
    BY <1>2, <1>5
  <2> HIDE DEF after
  <2>4. QED
    BY <1>5, <2>1, <2>2, <2>3 DEF after
<1>11. \A a \in Addresses : a >= NextNonce + 1 => code[a] = NoCode
  BY <1>1, <1>7 DEF Addresses
<1>12. QED
  BY <1>8, <1>9, <1>10, <1>11 DEF CreationsApart

(* The creations stay apart while no code is written.                      *)
LEMMA StillApart ==
  ASSUME IInv, CreationsApart, run'.creations = run.creations, run'.next_nonce = run.next_nonce,
         code' = code, nonce' \in Nat, nonce' >= nonce
  PROVE  CreationsApart'
<1>1. nonce \in Nat /\ run.next_nonce \in Nat
  BY DEF IInv, TypeOK, Run
<1>2. \A a \in Addresses : a >= NextNonce' => a >= NextNonce
  BY <1>1 DEF NextNonce, Addresses
<1>3. QED
  BY <1>2 DEF CreationsApart

(* What a creation with code c adds to the facets being created.           *)
LEMMA ReservedCode ==
  ASSUME IInv, CanCreate, NEW c \in Code
  PROVE  /\ {h \in Initcodes : \E i \in DOMAIN Reserve(c) : Reserve(c)[i].code = FacetCode(h)}
              = {h \in Initcodes :
                   c = FacetCode(h) \/ \E i \in DOMAIN run.creations : run.creations[i].code = FacetCode(h)}
         /\ \E i \in DOMAIN Reserve(c) : Reserve(c)[i].address = NextNonce /\ Reserve(c)[i].code = c
         /\ \A i \in DOMAIN run.creations : i \in DOMAIN Reserve(c) /\ Reserve(c)[i] = run.creations[i]
<1> DEFINE new == [address |-> NextNonce, code |-> c]
           old == run.creations
<1>1. old \in Seq(Creation) /\ Len(old) \in Nat /\ DOMAIN old = 1 .. Len(old)
  BY DEF IInv, TypeOK, Run
<1>2. new \in Creation /\ new.address = NextNonce /\ new.code = c
  BY CanCreateType DEF Creation
<1>3. /\ DOMAIN Append(old, new) = 1 .. Len(old) + 1 /\ Append(old, new)[Len(old) + 1] = new
      /\ \A i \in 1 .. Len(old) : Append(old, new)[i] = old[i]
  <2> HIDE DEF new, old
  <2>1. QED
    BY <1>1, <1>2
<1>4. Reserve(c) = Append(old, new)
  BY DEF Reserve
<1>5. \A i \in DOMAIN Reserve(c) : i \in DOMAIN old \/ i = Len(old) + 1
  <2> HIDE DEF new, old
  <2>1. QED
    BY <1>1, <1>3, <1>4
<1>6. /\ \A i \in DOMAIN old : i \in DOMAIN Reserve(c) /\ Reserve(c)[i] = old[i]
      /\ Len(old) + 1 \in DOMAIN Reserve(c) /\ Reserve(c)[Len(old) + 1] = new
  <2> HIDE DEF new, old
  <2>1. QED
    BY <1>1, <1>3, <1>4
<1> HIDE DEF new
<1>7. QED
  BY <1>2, <1>5, <1>6

(* The plan with one facet more agrees with the run that planned it.       *)
LEMMA AgreesAfterFacet ==
  ASSUME IInv, CreationsApart, code' = code, NEW plan, PlansAgree(plan, run, code),
         NEW f \in Facets, NEW hash \in Initcodes,
         NEW place, NEW rec, rec # NoRecord, place # Nowhere,
         NEW fresh, fresh = plan.fresh \union ({place.new} \ {NoHash}), place \in Places(fresh, code),
         Where(place, run'.run_deployed) = rec.address, rec.address \in Addresses,
         run'.proposed_facets = [run.proposed_facets EXCEPT ![f] = rec],
         run'.run_deployed = SetDefault(run.run_deployed, hash, rec),
         fresh = {h \in Initcodes : \E i \in DOMAIN run'.creations : run'.creations[i].code = FacetCode(h)},
         \A h \in fresh : \E i \in DOMAIN run'.creations :
           run'.creations[i].address = run'.run_deployed[h].address /\ run'.creations[i].code = FacetCode(h),
         NEW after, after = Placed(plan, f, hash, place)
  PROVE  PlansAgree(after, run', code')
<1> DEFINE owners == [plan.owners EXCEPT ![f] = place]
           deployed == [plan.deployed EXCEPT ![hash] = IF @ = Nowhere THEN place ELSE @]
<1>1. /\ plan.owners \in [Facets -> Places(plan.fresh, code)]
      /\ plan.deployed \in [Initcodes -> Places(plan.fresh, code)]
      /\ run.proposed_facets \in [Facets -> FacetRecord] /\ run.run_deployed \in [Initcodes -> FacetRecord]
  BY DEF PlansAgree, IInv, TypeOK, Run
<1>2. \A h \in Initcodes :
        run'.run_deployed[h] = IF h = hash /\ run.run_deployed[h] = NoRecord THEN rec ELSE run.run_deployed[h]
  BY <1>1 DEF SetDefault
<1>3. ASSUME NEW x \in Places(plan.fresh, code)
      PROVE  /\ x \in Places(fresh, code)
             /\ Where(x, run'.run_deployed) = Where(x, run.run_deployed)
             /\ (Where(x, run.run_deployed) = ZERO_ADDRESS <=> x = Nowhere)
  <2>1. x \in Places(fresh, code)
    BY DEF Places
  <2>2. x.new = NoHash => Where(x, run'.run_deployed) = Where(x, run.run_deployed)
    BY DEF Where
  <2>3. ASSUME x.new # NoHash
        PROVE  Where(x, run'.run_deployed) = Where(x, run.run_deployed)
    <3>1. PICK h \in Initcodes : x = New(h) /\ run.run_deployed[h].address \in Addresses
      BY <2>3, PlaceCases DEF At, Nowhere
    <3>2. run'.run_deployed[h] = run.run_deployed[h]
      BY <1>2, <3>1, UnplannedIsZero, SizesAssumption DEF Addresses, ZERO_ADDRESS
    <3>3. QED
      BY <2>3, <3>1, <3>2 DEF Where, New
  <2>4. Where(x, run.run_deployed) = ZERO_ADDRESS <=> x = Nowhere
    BY PlacesApart
  <2>5. QED
    BY <2>1, <2>2, <2>3, <2>4
<1>5. owners \in [Facets -> Places(fresh, code)] /\ deployed \in [Initcodes -> Places(fresh, code)]
  <2>1. \A g \in Facets : plan.owners[g] \in Places(fresh, code)
    BY <1>1, <1>3
  <2>2. \A h \in Initcodes : plan.deployed[h] \in Places(fresh, code)
    BY <1>1, <1>3
  <2>3. QED
    BY <1>1, <2>1, <2>2
<1>6. ASSUME NEW g \in Facets
      PROVE  /\ owners[g] = Nowhere <=> run'.proposed_facets[g] = NoRecord
             /\ run'.proposed_facets[g].address = Where(owners[g], run'.run_deployed)
  <2>1. CASE g = f
    <3>1. owners[g] = place /\ run'.proposed_facets[g] = rec
      BY <1>1, <2>1
    <3>2. QED
      BY <3>1
  <2>2. CASE g # f
    <3>1. owners[g] = plan.owners[g] /\ run'.proposed_facets[g] = run.proposed_facets[g]
      BY <1>1, <2>2
    <3>2. Where(plan.owners[g], run'.run_deployed) = Where(plan.owners[g], run.run_deployed)
      BY <1>1, <1>3
    <3>3. /\ plan.owners[g] = Nowhere <=> run.proposed_facets[g] = NoRecord
          /\ run.proposed_facets[g].address = Where(plan.owners[g], run.run_deployed)
      BY DEF PlansAgree
    <3>4. QED
      BY <3>1, <3>2, <3>3
  <2>3. QED
    BY <2>1, <2>2
<1>7. ASSUME NEW h \in Initcodes
      PROVE  run'.run_deployed[h].address = Where(deployed[h], run'.run_deployed)
  <2>1. /\ run.run_deployed[h].address = Where(plan.deployed[h], run.run_deployed)
        /\ plan.deployed[h] \in Places(plan.fresh, code)
    BY <1>1 DEF PlansAgree
  <2>2. /\ Where(plan.deployed[h], run'.run_deployed) = Where(plan.deployed[h], run.run_deployed)
        /\ Where(plan.deployed[h], run.run_deployed) = ZERO_ADDRESS <=> plan.deployed[h] = Nowhere
    BY <1>3, <2>1
  <2>3. CASE h = hash /\ plan.deployed[h] = Nowhere
    <3>1. deployed[h] = place
      BY <1>1, <2>3
    <3>2. run'.run_deployed[h] = rec
      BY <1>2, <2>1, <2>2, <2>3, UnplannedIsZero
    <3>3. QED
      BY <3>1, <3>2
  <2>4. CASE ~(h = hash /\ plan.deployed[h] = Nowhere)
    <3>1. deployed[h] = plan.deployed[h]
      BY <1>1, <2>4
    <3>2. run'.run_deployed[h] = run.run_deployed[h]
      BY <1>2, <2>1, <2>2, <2>4, UnplannedIsZero
    <3>3. QED
      BY <2>1, <2>2, <3>1, <3>2
  <2>5. QED
    BY <2>3, <2>4
<1>8. after = [owners |-> owners, deployed |-> deployed, fresh |-> fresh]
  BY DEF Placed
<1> HIDE DEF owners, deployed
<1>9. /\ after.owners = owners /\ after.deployed = deployed /\ after.fresh = fresh
      /\ after = [owners |-> after.owners, deployed |-> after.deployed, fresh |-> after.fresh]
  BY <1>8
<1>10. /\ after.owners \in [Facets -> Places(after.fresh, code')]
       /\ after.deployed \in [Initcodes -> Places(after.fresh, code')]
  BY <1>5, <1>9
<1>11. QED
  BY <1>6, <1>7, <1>9, <1>10 DEF PlansAgree

(* A step that plans no facet keeps the agreement, for the facets of the   *)
(* same proxy or for none.                                                 *)
LEMMA AgreesStill ==
  ASSUME IInv, code' = code, NEW plan, PlansAgree(plan, run, code), run'.run_deployed = run.run_deployed,
         \/ run'.creations = run.creations
         \/ CanCreate /\ \E c \in Code : c.kind # "facet" /\ run'.creations = Reserve(c),
         NEW owners, owners \in [Facets -> Places(plan.fresh, code)],
         \A f \in Facets : /\ owners[f] = Nowhere <=> run'.proposed_facets[f] = NoRecord
                          /\ run'.proposed_facets[f].address = Where(owners[f], run.run_deployed),
         NEW after, after = [owners |-> owners, deployed |-> plan.deployed, fresh |-> plan.fresh]
  PROVE  PlansAgree(after, run', code')
<1> DEFINE Created(creations) ==
             /\ plan.fresh = {h \in Initcodes : \E i \in DOMAIN creations : creations[i].code = FacetCode(h)}
             /\ \A h \in plan.fresh : \E i \in DOMAIN creations :
                  creations[i].address = run.run_deployed[h].address /\ creations[i].code = FacetCode(h)
<1>1. Created(run'.creations)
  <2>1. CASE run'.creations = run.creations
    BY <2>1 DEF PlansAgree
  <2>2. ASSUME CanCreate, NEW c \in Code, c.kind # "facet", run'.creations = Reserve(c)
        PROVE  Created(run'.creations)
    <3>1. \A h \in Initcodes : c # FacetCode(h)
      BY <2>2 DEF FacetCode
    <3>2. plan.fresh
            = {h \in Initcodes : \E i \in DOMAIN run.creations : run.creations[i].code = FacetCode(h)}
      BY DEF PlansAgree
    <3>3. {h \in Initcodes : \E i \in DOMAIN run'.creations : run'.creations[i].code = FacetCode(h)}
            = plan.fresh
      BY <2>2, <3>1, <3>2, ReservedCode
    <3>4. \A i \in DOMAIN run.creations : i \in DOMAIN run'.creations /\ run'.creations[i] = run.creations[i]
      BY <2>2, ReservedCode
    <3>5. \A h \in plan.fresh : \E i \in DOMAIN run.creations :
            run.creations[i].address = run.run_deployed[h].address /\ run.creations[i].code = FacetCode(h)
      BY DEF PlansAgree
    <3>6. QED
      BY <3>3, <3>4, <3>5
  <2>3. QED
    BY <2>1, <2>2
<1>2. plan.deployed \in [Initcodes -> Places(plan.fresh, code)]
  BY DEF PlansAgree
<1>3. \A h \in Initcodes : run.run_deployed[h].address = Where(plan.deployed[h], run.run_deployed)
  BY DEF PlansAgree
<1>4. QED
  BY <1>1, <1>2, <1>3 DEF PlansAgree

(* Planning a facet, check's step is deploy's.                             *)
LEMMA PlanFacetForetold == IInv /\ RecordsInv /\ ForetoldInv /\ PlanFacet => ForetoldInv'
<1> SUFFICES ASSUME IInv, RecordsInv, ForetoldInv, PlanFacet PROVE ForetoldInv'
  OBVIOUS
<1> DEFINE f == Source[run.facet]
           hash == facet_initcode[run.commit][run.proxy][f]
           existing == ExistingDeployment(f, hash)
           created == Unread(NextNonce, hash)
           entry == ledger[run.proxy]
           plans == CheckSources(run.commit, run.proxy, entry, Checked(run.commit, ledger)[run.proxy - 1])
           plan == PlanSoFar
<1>1. /\ run \in Run /\ run.step = "facets" /\ run.commit \in Commits /\ run.proxy \in Proxies
      /\ Len(Source) \in Nat /\ run.facet \in 1 .. Len(Source) /\ Source = facetSrc[run.commit][run.proxy]
  <2>1. run \in Run /\ run.step = "facets" /\ run.commit \in Commits /\ run.proxy \in Proxies
    BY DEF IInv, TypeOK, PlanFacet, Planning
  <2>2. Source \in Seq(Facets)
    BY <2>1, SourceType
  <2>3. run.facet \in DOMAIN Source
    BY DEF PlanFacet
  <2>4. QED
    BY <2>1, <2>2, <2>3 DEF Source
<1>2. f \in Facets /\ hash \in Initcodes
  <2>1. Source \in Seq(Facets)
    BY <1>1, SourceType
  <2>2. f \in Facets
    BY <1>1, <2>1
  <2> HIDE DEF f
  <2>3. QED
    BY <1>1, <2>2, SourcesAssumption
<1>3. ledger' = ledger /\ code' = code /\ nonce' = nonce /\ CreationsApart
  BY <1>1 DEF PlanFacet, chain, ForetoldInv
<1>4. ASSUME ~run.redeploy_all
      PROVE  \E place :
               /\ PlanSoFar' = Placed(plan, f, hash, place) /\ PlansAgree(plan, run, code)
               /\ existing # NoRecord => /\ place \in Places(plan.fresh, code) /\ place # Nowhere
                                         /\ Where(place, run.run_deployed) = existing.address
               /\ existing = NoRecord => place = New(hash) /\ run.run_deployed[hash] = NoRecord
  <2>1. PlansAgree(plan, run, code)
    BY <1>1, <1>4 DEF ForetoldInv
  <2>2. PlanSoFar' = CheckFacet(run.commit, run.proxy, entry, plan, f)
    <3>1. plans[run.facet] = CheckFacet(run.commit, run.proxy, entry, plans[run.facet - 1], f)
      <4>1. /\ Len(facetSrc[run.commit][run.proxy]) \in Nat /\ f = facetSrc[run.commit][run.proxy][run.facet]
            /\ run.facet \in 1 .. Len(facetSrc[run.commit][run.proxy])
        BY <1>1
      <4>2. QED
        BY <4>1, SourcesInOrder
    <3>2. run'.commit = run.commit /\ run'.proxy = run.proxy /\ run'.facet = run.facet + 1
      BY <1>1 DEF PlanFacet, Run
    <3>3. run'.facet - 1 = run.facet
      BY <1>1, <3>2
    <3>4. PlanSoFar' = plans[run.facet]
      BY <1>3, <3>2, <3>3 DEF PlanSoFar
    <3>5. QED
      BY <3>1, <3>4 DEF PlanSoFar
  <2>3. hash = facet_initcode[run.commit][run.proxy][f] /\ existing = ExistingDeployment(f, hash)
    OBVIOUS
  <2> HIDE DEF plan, f, hash, existing
  <2>4. PICK place :
          /\ CheckFacet(run.commit, run.proxy, entry, plan, f) = Placed(plan, f, hash, place)
          /\ existing # NoRecord => /\ place \in Places(plan.fresh, code) /\ place # Nowhere
                                    /\ Where(place, run.run_deployed) = existing.address
          /\ existing = NoRecord => place = New(hash) /\ run.run_deployed[hash] = NoRecord
    BY <1>1, <1>2, <1>3, <1>4, <2>1, <2>3, FacetFound
  <2>5. QED
    BY <2>1, <2>2, <2>4
<1>5. CASE existing # NoRecord
  <2>1. run' = [run EXCEPT !.facet = @ + 1,
                           !.proposed_facets = [@ EXCEPT ![f] = existing],
                           !.run_deployed = SetDefault(@, hash, existing),
                           !.next_nonce = run.next_nonce,
                           !.creations = run.creations]
    BY <1>5 DEF PlanFacet
  <2>2. existing.address \in Addresses
    BY <1>1, <1>2, <1>5, ExistingType
  <2> HIDE DEF existing, hash, f, plan
  <2>3. /\ run'.proposed_facets = [run.proposed_facets EXCEPT ![f] = existing]
        /\ run'.run_deployed = SetDefault(run.run_deployed, hash, existing)
        /\ run'.next_nonce = run.next_nonce /\ run'.creations = run.creations
        /\ run'.redeploy_all = run.redeploy_all
    BY <1>1, <2>1 DEF Run
  <2>4. CreationsApart'
    <3>1. nonce \in Nat /\ nonce >= nonce
      BY DEF IInv, TypeOK
    <3>2. QED
      BY <1>3, <2>3, <3>1, StillApart
  <2>5. ASSUME ~run.redeploy_all
        PROVE  PlansAgree(PlanSoFar', run', code')
    <3>1. PICK place :
            /\ PlanSoFar' = Placed(plan, f, hash, place) /\ PlansAgree(plan, run, code)
            /\ place \in Places(plan.fresh, code) /\ place # Nowhere
            /\ Where(place, run.run_deployed) = existing.address
      BY <1>4, <1>5, <2>5
    <3>2. place.new \in plan.fresh \union {NoHash}
      BY <3>1 DEF Places, Nowhere, At, New
    <3>3. plan.fresh = plan.fresh \union ({place.new} \ {NoHash})
      BY <3>2
    <3>4. \A h \in plan.fresh : run'.run_deployed[h] = run.run_deployed[h]
      <4> SUFFICES ASSUME NEW h \in plan.fresh PROVE run'.run_deployed[h] = run.run_deployed[h]
        OBVIOUS
      <4>1. New(h) \in Places(plan.fresh, code)
        BY DEF Places
      <4>2. New(h) # Nowhere /\ h \in Initcodes
        BY <3>1, NamesAssumption DEF New, Nowhere, At, PlansAgree
      <4>3. Where(New(h), run.run_deployed) = run.run_deployed[h].address
        BY <4>2, NamesAssumption DEF Where, New
      <4>4. run.run_deployed[h] # NoRecord
        BY <1>3, <3>1, <4>1, <4>2, <4>3, PlacesApart, UnplannedIsZero
      <4>5. QED
        BY <1>1, <2>3, <4>2, <4>4 DEF SetDefault, Run
    <3>5. Where(place, run'.run_deployed) = existing.address
      BY <3>1, <3>2, <3>4 DEF Where
    <3>6. plan.fresh
            = {h \in Initcodes : \E i \in DOMAIN run'.creations : run'.creations[i].code = FacetCode(h)}
      BY <2>3, <3>1 DEF PlansAgree
    <3>7. \A h \in plan.fresh : \E i \in DOMAIN run'.creations :
            run'.creations[i].address = run'.run_deployed[h].address /\ run'.creations[i].code = FacetCode(h)
      BY <2>3, <3>1, <3>4 DEF PlansAgree
    <3>8. PlansAgree(PlanSoFar', run', code')
      BY <1>2, <1>3, <1>5, <2>2, <2>3, <3>1, <3>3, <3>5, <3>6, <3>7, AgreesAfterFacet
    <3>9. QED
      BY <3>8
  <2>6. QED
    BY <2>3, <2>4, <2>5 DEF ForetoldInv
<1>6. CASE existing = NoRecord
  <2>1. /\ CanCreate
        /\ run' = [run EXCEPT !.facet = @ + 1,
                              !.proposed_facets = [@ EXCEPT ![f] = created],
                              !.run_deployed = SetDefault(@, hash, created),
                              !.next_nonce = NextNonce + 1,
                              !.creations = Reserve(FacetCode(hash))]
    BY <1>6 DEF PlanFacet
  <2>2. /\ created.address = NextNonce /\ NextNonce \in Addresses /\ created # NoRecord
        /\ FacetCode(hash) \in Code
    <3>1. NextNonce # ZERO_ADDRESS /\ NextNonce \in Addresses
      BY <2>1, CanCreateType DEF Addresses, ZERO_ADDRESS
    <3>2. FacetCode(hash) \in Code
      BY <1>2 DEF FacetCode, Code
    <3> HIDE DEF hash
    <3>3. created.address = NextNonce
      BY <1>2, <3>1, UnreadType
    <3>4. QED
      BY <3>1, <3>2, <3>3 DEF NoRecord
  <2> HIDE DEF existing, hash, f, plan, created
  <2>3. /\ run'.proposed_facets = [run.proposed_facets EXCEPT ![f] = created]
        /\ run'.run_deployed = SetDefault(run.run_deployed, hash, created)
        /\ run'.next_nonce = NextNonce + 1 /\ run'.creations = Reserve(FacetCode(hash))
        /\ run'.redeploy_all = run.redeploy_all
    BY <1>1, <2>1, <2>2 DEF Run
  <2>4. CreationsApart'
    BY <1>3, <2>1, <2>2, <2>3, ReservedApart
  <2>5. ASSUME ~run.redeploy_all
        PROVE  PlansAgree(PlanSoFar', run', code')
    <3> DEFINE place == New(hash)
               fresh == plan.fresh \union ({place.new} \ {NoHash})
    <3>1. /\ PlanSoFar' = Placed(plan, f, hash, place)
          /\ PlansAgree(plan, run, code) /\ run.run_deployed[hash] = NoRecord
      BY <1>4, <1>6, <2>5
    <3>2. place.new = hash /\ hash # NoHash /\ fresh = plan.fresh \union {hash} /\ place # Nowhere
      BY <1>2, NamesAssumption DEF New, Nowhere, At
    <3>3. place \in Places(fresh, code)
      BY <3>2 DEF Places
    <3>4. /\ run'.run_deployed[hash] = created
          /\ \A h \in Initcodes : h # hash => run'.run_deployed[h] = run.run_deployed[h]
      BY <1>1, <1>2, <2>3, <3>1 DEF SetDefault, Run
    <3>5. Where(place, run'.run_deployed) = created.address
      BY <2>2, <3>2, <3>4 DEF Where
    <3>6. fresh = {h \in Initcodes : \E i \in DOMAIN run'.creations : run'.creations[i].code = FacetCode(h)}
      <4>1. \A h \in Initcodes : FacetCode(hash) = FacetCode(h) <=> h = hash
        BY DEF FacetCode
      <4>2. plan.fresh
              = {h \in Initcodes : \E i \in DOMAIN run.creations : run.creations[i].code = FacetCode(h)}
        BY <3>1 DEF PlansAgree
      <4>3. {h \in Initcodes : \E i \in DOMAIN run'.creations : run'.creations[i].code = FacetCode(h)}
              = {h \in Initcodes : \/ FacetCode(hash) = FacetCode(h)
                                  \/ \E i \in DOMAIN run.creations : run.creations[i].code = FacetCode(h)}
        BY <2>1, <2>2, <2>3, ReservedCode
      <4>4. QED
        BY <1>2, <3>2, <4>1, <4>2, <4>3
    <3>7. ASSUME NEW h \in fresh
          PROVE  \E i \in DOMAIN run'.creations :
                   run'.creations[i].address = run'.run_deployed[h].address /\ run'.creations[i].code = FacetCode(h)
      <4>1. CASE h = hash
        BY <2>1, <2>2, <2>3, <3>4, <4>1, ReservedCode
      <4>2. CASE h # hash
        <5>1. h \in plan.fresh /\ h \in Initcodes
          BY <3>1, <3>2, <4>2 DEF PlansAgree
        <5>2. PICK i \in DOMAIN run.creations :
                run.creations[i].address = run.run_deployed[h].address /\ run.creations[i].code = FacetCode(h)
          BY <3>1, <5>1 DEF PlansAgree
        <5>3. i \in DOMAIN run'.creations /\ run'.creations[i] = run.creations[i]
          BY <2>1, <2>2, <2>3, ReservedCode
        <5>4. QED
          BY <3>4, <4>2, <5>1, <5>2, <5>3
      <4>3. QED
        BY <4>1, <4>2
    <3> HIDE DEF place
    <3>8. fresh = plan.fresh \union ({place.new} \ {NoHash})
      OBVIOUS
    <3> HIDE DEF fresh
    <3>9. QED
      BY <1>2, <1>3, <2>2, <2>3, <3>1, <3>2, <3>3, <3>5, <3>6, <3>7, <3>8, AgreesAfterFacet
  <2>6. QED
    BY <2>3, <2>4, <2>5 DEF ForetoldInv
<1>7. QED
  BY <1>5, <1>6

(* What PlanSelectors and PlanMigration leave of the run's plan.           *)
LEMMA ReservesOnce ==
  ASSUME IInv, CreationsApart, code' = code, nonce' = nonce,
         \/ run'.creations = run.creations /\ run'.next_nonce = run.next_nonce
         \/ /\ CanCreate /\ run'.next_nonce = NextNonce + 1
            /\ \E c \in Code : c.kind # "facet" /\ run'.creations = Reserve(c)
  PROVE  CreationsApart'
<1>1. CASE run'.creations = run.creations /\ run'.next_nonce = run.next_nonce
  <2>1. nonce \in Nat /\ nonce >= nonce
    BY DEF IInv, TypeOK
  <2>2. QED
    BY <1>1, <2>1, StillApart
<1>2. ASSUME CanCreate, run'.next_nonce = NextNonce + 1, NEW c \in Code, run'.creations = Reserve(c)
      PROVE  CreationsApart'
  BY <1>2, ReservedApart
<1>3. QED
  BY <1>1, <1>2

(* selectors() is no facet.                                                *)
LEMMA PlanSelectorsForetold == IInv /\ ForetoldInv /\ PlanSelectors => ForetoldInv'
<1> SUFFICES ASSUME IInv, ForetoldInv, PlanSelectors PROVE ForetoldInv'
  OBVIOUS
<1> DEFINE runtime == SelectorsRuntime(run.commit, SourceFacets)
<1>1. /\ run \in Run /\ run.step = "facets" /\ run.commit \in Commits /\ run.proxy \in Proxies
      /\ ledger' = ledger /\ code' = code /\ nonce' = nonce
  BY DEF IInv, TypeOK, PlanSelectors, Planning, chain
<1>2. runtime # NoCode => runtime \in Code /\ runtime.kind # "facet"
  <2>1. runtime \in Code
    BY <1>1, SourceType, SelectorsRuntimeType
  <2>2. runtime # NoCode => runtime.kind = "selectors"
    BY DEF SelectorsRuntime, SelectorsCode
  <2>3. QED
    BY <2>1, <2>2
<1>3. /\ run'.step = "migration"
      /\ run'.commit = run.commit /\ run'.proxy = run.proxy /\ run'.facet = run.facet
      /\ run'.redeploy_all = run.redeploy_all /\ run'.proposed_facets = run.proposed_facets
      /\ run'.run_deployed = run.run_deployed
      /\ \/ run'.creations = run.creations /\ run'.next_nonce = run.next_nonce
         \/ /\ CanCreate /\ run'.next_nonce = NextNonce + 1 /\ runtime # NoCode
            /\ run'.creations = Reserve(runtime)
  BY <1>1 DEF PlanSelectors, Run
<1>4. CreationsApart
  BY <1>1 DEF ForetoldInv
<1> HIDE DEF runtime
<1>5. CreationsApart'
  BY <1>1, <1>2, <1>3, <1>4, ReservesOnce
<1>6. PlanSoFar' = PlanSoFar
  BY <1>1, <1>3 DEF PlanSoFar
<1>7. ASSUME ~run.redeploy_all
      PROVE  PlansAgree(PlanSoFar', run', code')
  <2>1. PICK plan : plan = PlanSoFar
    OBVIOUS
  <2>2. PlansAgree(plan, run, code)
    BY <1>1, <1>7, <2>1 DEF ForetoldInv
  <2>3. /\ plan.owners \in [Facets -> Places(plan.fresh, code)]
        /\ plan = [owners |-> plan.owners, deployed |-> plan.deployed, fresh |-> plan.fresh]
        /\ \A f \in Facets : /\ plan.owners[f] = Nowhere <=> run'.proposed_facets[f] = NoRecord
                             /\ run'.proposed_facets[f].address = Where(plan.owners[f], run.run_deployed)
    BY <1>3, <2>2 DEF PlansAgree
  <2>4. \/ run'.creations = run.creations
        \/ CanCreate /\ \E c \in Code : c.kind # "facet" /\ run'.creations = Reserve(c)
    BY <1>2, <1>3
  <2>5. PlansAgree(plan, run', code')
    BY <1>1, <1>3, <2>2, <2>3, <2>4, AgreesStill
  <2>6. QED
    BY <1>6, <2>1, <2>5
<1>8. QED
  BY <1>3, <1>5, <1>7 DEF ForetoldInv

(* Nor is a migration; the next proxy begins with what is deployed so far. *)
LEMMA PlanMigrationForetold ==
  ASSUME IInv, ForetoldInv, NEW storage_keys \in Detections, NEW unread, PlanMigration(storage_keys, unread)
  PROVE  ForetoldInv'
<1> DEFINE sets == Planned(storage_keys, unread)
<1>1. /\ run \in Run /\ run.step = "migration" /\ run.commit \in Commits /\ run.proxy \in Proxies
      /\ run.facet = Len(Source) + 1 /\ ledger' = ledger /\ code' = code /\ nonce' = nonce
  BY DEF IInv, TypeOK, PlanMigration, Planning, chain
<1>2. PICK state, next_nonce, creations :
        /\ run' = NextProxy(state, next_nonce, creations)
        /\ \/ creations = run.creations /\ next_nonce = run.next_nonce
           \/ CanCreate /\ next_nonce = NextNonce + 1 /\ creations = Reserve(MigrationCode(sets))
  <2> HIDE DEF sets
  <2>1. QED
    BY DEF PlanMigration, sets
<1>3. /\ run'.step = (IF run.proxy = NProxies THEN "send" ELSE "facets")
      /\ run'.proxy = run.proxy + 1 /\ run'.facet = 1
      /\ run'.commit = run.commit /\ run'.redeploy_all = run.redeploy_all
      /\ run'.proposed_facets = NoState.facets /\ run'.run_deployed = run.run_deployed
      /\ run'.creations = creations /\ run'.next_nonce = next_nonce
  <2>1. NextProxy(state, next_nonce, creations).next_nonce = next_nonce
    BY <1>1 DEF NextProxy, Run
  <2>2. QED
    BY <1>1, <1>2, <2>1, NextProxyEffect
<1>4. \/ run'.creations = run.creations /\ run'.next_nonce = run.next_nonce
      \/ /\ CanCreate /\ run'.next_nonce = NextNonce + 1
         /\ \E c \in Code : c.kind # "facet" /\ run'.creations = Reserve(c)
  <2>1. MigrationCode(sets).kind # "facet"
    BY DEF MigrationCode
  <2>2. MigrationCode(sets) \in Code
    <3>1. Proposed(ZERO_ADDRESS) \in DeploymentState
      BY <1>1, ProposedWellFormed DEF MaybeAddress
    <3>2. Loaded.current \in DeploymentState
      BY <1>1, LoadedWellFormed DEF Entry
    <3>3. PlanningSlots[run.proxy] \in Routes
      BY <1>1 DEF IInv, TypeOK, Run, PlanningSlots
    <3>4. sets \in Migrations
      BY <3>1, <3>2, <3>3, BuildMigrationType DEF PlanMigration, Planned, Refused
    <3> HIDE DEF sets
    <3>5. QED
      BY <3>4 DEF Code, MigrationCode
  <2> HIDE DEF sets
  <2>3. QED
    BY <1>2, <1>3, <2>1, <2>2
<1>5. CreationsApart
  BY <1>1 DEF ForetoldInv
<1>6. CreationsApart'
  BY <1>1, <1>4, <1>5, ReservesOnce
<1>7. ASSUME ~run.redeploy_all, run'.step = "facets"
      PROVE  PlansAgree(PlanSoFar', run', code')
  <2>1. run.proxy # NProxies /\ run.proxy + 1 \in Proxies /\ run.proxy + 1 - 1 = run.proxy
    BY <1>1, <1>3, <1>7, SizesAssumption DEF Proxies
  <2>2. PICK plan : plan = PlanSoFar
    OBVIOUS
  <2>3. PlansAgree(plan, run, code)
    BY <1>1, <1>7, <2>2 DEF ForetoldInv
  <2>4. Len(Source) \in Nat /\ Source = facetSrc[run.commit][run.proxy]
    BY <1>1, SourceType DEF Source
  <2>5. plan = Checked(run.commit, ledger)[run.proxy]
    <3>1. run.facet - 1 = Len(facetSrc[run.commit][run.proxy])
      BY <1>1, <2>4
    <3>2. QED
      BY <1>1, <2>2, <3>1, ProxiesInOrder DEF PlanSoFar
  <2>6. Len(facetSrc[run.commit][run.proxy + 1]) \in Nat
    BY <1>1, <2>1, SourcesAssumption
  <2>7. PlanSoFar' = Unowned(plan)
    <3>1. run'.facet - 1 = 0 /\ run'.proxy - 1 = run.proxy
      <4>1. run'.facet = 1 /\ run'.proxy = run.proxy + 1
        BY <1>3
      <4>2. run.proxy \in Nat
        BY <1>1, SizesAssumption DEF Proxies
      <4>3. PICK facet \in Nat, proxy \in Nat : facet = run'.facet /\ proxy = run'.proxy
        BY <4>1, <4>2
      <4>4. facet = 1 /\ proxy = run.proxy + 1
        BY <4>1, <4>3
      <4>5. facet - 1 = 0 /\ proxy - 1 = run.proxy
        BY <4>2, <4>4
      <4>6. QED
        BY <4>3, <4>5
    <3>2. PlanSoFar' = CheckSources(run'.commit, run'.proxy, ledger'[run'.proxy],
                                    Checked(run'.commit, ledger')[run'.proxy - 1])[run'.facet - 1]
      BY DEF PlanSoFar
    <3>3. PlanSoFar' = CheckSources(run.commit, run.proxy + 1, ledger[run.proxy + 1], plan)[0]
      BY <1>1, <1>3, <2>5, <3>1, <3>2
    <3>4. QED
      BY <2>6, <3>3, SourcesInOrder
  <2>8. /\ NothingPlanned.owners \in [Facets -> Places(plan.fresh, code)]
        /\ \A f \in Facets : /\ NothingPlanned.owners[f] = Nowhere <=> run'.proposed_facets[f] = NoRecord
                             /\ run'.proposed_facets[f].address
                                  = Where(NothingPlanned.owners[f], run.run_deployed)
    <3>1. \A f \in Facets : run'.proposed_facets[f] = NoRecord
      BY <1>3 DEF NoState
    <3>2. NothingPlanned.owners = [f \in Facets |-> Nowhere]
      BY DEF NothingPlanned
    <3>3. Nowhere \in Places(plan.fresh, code)
      BY DEF Places
    <3>4. Where(Nowhere, run.run_deployed) = NoRecord.address
      BY DEF Where, Nowhere, At, NoRecord
    <3>5. QED
      BY <3>1, <3>2, <3>3, <3>4
  <2>9. \/ run'.creations = run.creations
        \/ CanCreate /\ \E c \in Code : c.kind # "facet" /\ run'.creations = Reserve(c)
    BY <1>4
  <2>10. PICK owners : owners = NothingPlanned.owners
    OBVIOUS
  <2>11. PlanSoFar' = [owners |-> owners, deployed |-> plan.deployed, fresh |-> plan.fresh]
    BY <2>7, <2>10 DEF Unowned
  <2>12. QED
    BY <1>1, <1>3, <2>3, <2>8, <2>9, <2>10, <2>11, AgreesStill
<1>8. QED
  BY <1>3, <1>6, <1>7 DEF ForetoldInv

(* A deploy begins with nothing planned.                                   *)
LEMMA StartDeployForetold ==
  ASSUME IInv, NEW all \in BOOLEAN, StartDeploy(all)
  PROVE  ForetoldInv'
<1>1. /\ run'.step = "facets" /\ run'.proxy = 1 /\ run'.facet = 1
      /\ run'.creations = <<>> /\ run'.next_nonce = 0
      /\ run'.commit = head /\ ledger' = ledger /\ code' = code /\ nonce' = nonce
      /\ \A f \in Facets : run'.proposed_facets[f] = NoRecord
      /\ \A h \in Initcodes : run'.run_deployed[h] = NoRecord
  BY DEF StartDeploy, Idle, chain, NoState
<1>2. CreationsApart'
  <2>1. \A a \in Addresses : a >= NextNonce' => code'[a] = NoCode
    BY <1>1 DEF IInv, Unwritten, NextNonce
  <2>2. DOMAIN run'.creations = {}
    BY <1>1
  <2>3. QED
    BY <2>1, <2>2 DEF CreationsApart
<1>3. PlanSoFar' = NothingPlanned
  <2>1. 1 \in Proxies /\ head \in Commits
    BY SizesAssumption DEF Proxies, IInv, TypeOK
  <2>2. Len(facetSrc[head][1]) \in Nat
    BY <2>1, SourcesAssumption
  <2>3. PlanSoFar' = CheckSources(head, 1, ledger[1], Checked(head, ledger)[0])[0]
    BY <1>1 DEF PlanSoFar
  <2>4. PlanSoFar' = Unowned(NothingPlanned)
    BY <2>2, <2>3, SourcesInOrder, ProxiesInOrder
  <2>5. Unowned(NothingPlanned) = NothingPlanned
    BY DEF Unowned, NothingPlanned
  <2>6. QED
    BY <2>4, <2>5
<1>4. PlansAgree(NothingPlanned, run', code')
  <2>1. \A set, onchain : Nowhere \in Places(set, onchain)
    BY DEF Places
  <2>2. Where(Nowhere, run'.run_deployed) = ZERO_ADDRESS /\ NoRecord.address = ZERO_ADDRESS
    BY DEF Where, Nowhere, At, NoRecord
  <2>3. DOMAIN run'.creations = {}
    BY <1>1
  <2>4. /\ NothingPlanned.owners = [f \in Facets |-> Nowhere]
        /\ NothingPlanned.deployed = [h \in Initcodes |-> Nowhere]
        /\ NothingPlanned.fresh = {}
        /\ NothingPlanned = [ owners |-> NothingPlanned.owners, deployed |-> NothingPlanned.deployed,
                              fresh |-> NothingPlanned.fresh ]
    BY DEF NothingPlanned
  <2>5. QED
    BY <1>1, <2>1, <2>2, <2>3, <2>4 DEF PlansAgree
<1>5. QED
  BY <1>1, <1>2, <1>3, <1>4 DEF ForetoldInv

(* The other steps plan nothing, and write no code while a run plans.      *)
LEMMA OtherStepsForetell ==
  ASSUME IInv, ForetoldInv, [Next]_vars, ~PlanFacet, ~PlanSelectors, ~PlansMigration
  PROVE  ForetoldInv'
<1>1. run \in Run /\ nonce \in Nat
  BY DEF IInv, TypeOK
<1>2. ASSUME run' = run, ledger' = ledger, code' = code, nonce' \in Nat, nonce' >= nonce
      PROVE  ForetoldInv'
  <2>1. CreationsApart => CreationsApart'
    BY <1>2, StillApart
  <2>2. PlanSoFar' = PlanSoFar
    BY <1>2 DEF PlanSoFar
  <2>3. QED
    BY <1>2, <2>1, <2>2 DEF ForetoldInv
<1>3. ASSUME run'.step \notin {"facets", "migration"}
      PROVE  ForetoldInv'
  BY <1>3 DEF ForetoldInv
<1>4. CASE Send
  <2>1. run'.step = "send"
    BY <1>1, <1>4 DEF Send, Run
  <2>2. QED
    BY <1>3, <2>1
<1>5. CASE FinishDeploy \/ FailDeploy \/ Crash \/ StartAccept \/ FinishAccept \/ RefusesMigration
  <2>1. run' = Idle \/ run' = [Idle EXCEPT !.step = "check", !.ledger = ledger]
    BY <1>5 DEF FinishDeploy, FailDeploy, Crash, StartAccept, FinishAccept, RefusesMigration, RefuseMigration
  <2>2. CASE run' = Idle
    BY <1>3, <2>2 DEF Idle
  <2>3. CASE run' = [Idle EXCEPT !.step = "check", !.ledger = ledger]
    BY <1>3, <2>3 DEF Idle
  <2>4. QED
    BY <2>1, <2>2, <2>3
<1>6. CASE CheckProxy
  <2>1. run'.step = "check"
    BY <1>1, <1>6 DEF CheckProxy, Run
  <2>2. QED
    BY <1>3, <2>1
<1>7. CASE \/ \E c \in Commits : MoveHead(c)
           \/ \E p \in Proxies : \E m \in Addresses : Execute(p, m)
           \/ UNCHANGED vars
  <2>1. run' = run /\ ledger' = ledger /\ code' = code /\ nonce' = nonce
    BY <1>7 DEF MoveHead, Execute, vars, chain
  <2>2. QED
    BY <1>1, <1>2, <2>1
<1>8. CASE ForeignTransaction
  <2>1. run' = run /\ ledger' = ledger /\ code' = code /\ nonce' = nonce + 1
    BY <1>8 DEF ForeignTransaction
  <2>2. QED
    BY <1>1, <1>2, <2>1
<1>9. QED
  BY <1>4, <1>5, <1>6, <1>7, <1>8, StartDeployForetold DEF Next, Tool, PlansMigration, RefusesMigration

(* What `josuke check` says of a deploy of the same sources and ledger is  *)
(* what a plain deploy does: it refuses a clash if and only if check       *)
(* reports one, and creates the facets check counts as new, for any facets *)
(* shared between sources and proxies in any way.                          *)
THEOREM CheckForetells == Spec => []CheckForetellsDeploy
<1>1. Init => ForetoldInv
  BY DEF Init, Idle, ForetoldInv
<1>2. IInv /\ RecordsInv /\ ForetoldInv /\ [Next]_vars => ForetoldInv'
  BY PlanFacetForetold, PlanSelectorsForetold, PlanMigrationForetold, OtherStepsForetell
     DEF PlansMigration
<1>3. QED
  BY <1>1, <1>2, AgreeingForetells, RecordsHold, PTL DEF Spec
=============================================================================
