----------------------------- MODULE Deployment -----------------------------
(***************************************************************************)
(* The data josuke reasons about and the pure functions over it: what a    *)
(* commit compiles to, the deployment states the ledger records, which     *)
(* address a state routes each selector to, the migration from one state   *)
(* to another, and the checks `verify`, `accept` and `audit` make.         *)
(*                                                                         *)
(* Nothing here has state of its own; Upgrade.tla is the machine.          *)
(***************************************************************************)
EXTENDS Naturals, Sequences

CONSTANTS
  NProxies,            \* entries of josuke.json on this chain, in file order
  Facets,              \* source ids ("src/Foo.sol:Foo")
  Selectors,           \* 4-byte selectors, as 0x-strings in the code
  SELECTORS_SELECTOR,  \* the selector of ERC-8167 selectors()
  Commits,             \* git commits HEAD may be at
  NoCommit,            \* gitCommit of an absent state
  Initcodes,           \* keccak hashes of creation code
  NoHash,              \* initcodeHash of an absent record
  MaxNonce,            \* bound: the sender creates contracts 1..MaxNonce only
  facetSrc,            \* commit |-> proxy |-> the source ids facetSrc resolves to, in order
  facet_selectors,     \* commit |-> facet |-> the selectors its ABI exposes there
  facet_initcode,      \* commit |-> proxy |-> facet |-> its creation code, constructor args included
  ReadsEnvironment,    \* initcodes whose constructor reads its sender, its address or its block
  Fragile,             \* initcodes whose replayed constructor does not rebuild what it built
  NoSlot,              \* the slot of a selector for which none is found
  Detections           \* what slot detection may find: selector |-> the selector whose slot it is

Proxies == 1..NProxies

(***************************************************************************)
(* A CREATE address is a function of (sender, nonce), one to one, so the   *)
(* contract created at nonce n is known by n.  0 is the zero address: an   *)
(* empty storage slot, and an address the ledger does not record.          *)
(***************************************************************************)
ZERO_ADDRESS == 0
Addresses == 1..MaxNonce
MaybeAddress == Addresses \union {ZERO_ADDRESS}

(* A chain with no proxy configured is an error (on_chain). *)
ASSUME SizesAssumption == NProxies \in Nat \ {0} /\ MaxNonce \in Nat
ASSUME NamesAssumption ==
  /\ SELECTORS_SELECTOR \in Selectors
  /\ NoCommit \notin Commits
  /\ NoHash \notin Initcodes
  /\ NoSlot \notin Selectors
(* deploy refuses a facetSrc that resolves to nothing. *)
ASSUME SourcesAssumption ==
  /\ facetSrc \in [Commits -> [Proxies -> Seq(Facets)]]
  /\ \A c \in Commits, p \in Proxies : facetSrc[c][p] # <<>>
  /\ facet_selectors \in [Commits -> [Facets -> SUBSET Selectors]]
  /\ facet_initcode \in [Commits -> [Proxies -> [Facets -> Initcodes]]]
  /\ ReadsEnvironment \subseteq Initcodes /\ Fragile \subseteq Initcodes

(* Each selector has a slot of its own, and detection may find it. *)
OwnSlots == [s \in Selectors |-> s]
ASSUME DetectionsAssumption ==
  Detections \subseteq [Selectors -> Selectors \union {NoSlot}] /\ OwnSlots \in Detections

-----------------------------------------------------------------------------
(* Records of the ledger.                                                  *)

(* A runtime's hash.  What a constructor reads of the creation it runs in   *)
(* (its sender, its own address, the block) it may leave in the code.       *)
Runtime(hash, creation) ==
  [initcode |-> hash, creation |-> IF hash \in ReadsEnvironment THEN creation ELSE ZERO_ADDRESS]
NoRuntime == [initcode |-> NoHash, creation |-> ZERO_ADDRESS]

RuntimeHash == [initcode : Initcodes \union {NoHash}, creation : MaybeAddress]

(* `creation` is the creation whose `from`, `nonce` and `block` are         *)
(* recorded, zero when the constructor read none of them.                   *)
FacetRecord ==
  [ address      : MaybeAddress,
    initcodeHash : Initcodes \union {NoHash},
    codeHash     : RuntimeHash,
    creation     : MaybeAddress ]
NoRecord ==
  [address |-> ZERO_ADDRESS, initcodeHash |-> NoHash, codeHash |-> NoRuntime, creation |-> ZERO_ADDRESS]

(* `current` and `proposed`; NoState is the key being absent. *)
DeploymentState ==
  [ gitCommit : Commits \union {NoCommit},
    facets    : [Facets -> FacetRecord],
    selectors : MaybeAddress,      \* the generated selectors() delegate
    migration : MaybeAddress ]

NoState ==
  [ gitCommit |-> NoCommit,
    facets    |-> [f \in Facets |-> NoRecord],
    selectors |-> ZERO_ADDRESS,
    migration |-> ZERO_ADDRESS ]

(* A former delegate: a facet's record, or the facet set a generated       *)
(* selectors() enumerates (then initcodeHash is absent).                   *)
HistoryEntry ==
  [ gitCommit    : Commits \union {NoCommit},
    source       : SUBSET Facets,
    initcodeHash : Initcodes \union {NoHash},
    codeHash     : RuntimeHash,
    creation     : MaybeAddress ]
ArchivedAs(commit, source, record) ==
  [ gitCommit    |-> commit,
    source       |-> source,
    initcodeHash |-> record.initcodeHash,
    codeHash     |-> record.codeHash,
    creation     |-> record.creation ]
NoEntry == ArchivedAs(NoCommit, {}, NoRecord)

(* One proxy's `deployments[chain]`. *)
Entry ==
  [ current : DeploymentState, proposed : DeploymentState, history : [Addresses -> HistoryEntry] ]
NoDeployment ==
  [ current |-> NoState, proposed |-> NoState, history |-> [a \in Addresses |-> NoEntry] ]

-----------------------------------------------------------------------------
(* Code on chain.  The runtime of a facet is determined by its creation    *)
(* code, which stands for it, and by where it was created.                 *)

NoCode == [kind |-> "none"]
FacetCode(hash) == [kind |-> "facet", initcode |-> hash]
SelectorsCode(list) == [kind |-> "selectors", list |-> list]
MigrationCode(sets) == [kind |-> "migration", sets |-> sets]

(* What a migration writes: slot |-> address, 0 to clear it.  A slot is     *)
(* named by the selector the proxy dispatches through it.                   *)
Migrations == UNION {[S -> MaybeAddress] : S \in SUBSET Selectors}

Code ==
  {NoCode} \union [kind : {"facet"}, initcode : Initcodes]
           \union [kind : {"selectors"}, list : SUBSET Selectors]
           \union [kind : {"migration"}, sets : Migrations]

code_hash(a, code) == IF code[a].kind = "facet" THEN Runtime(code[a].initcode, a) ELSE NoRuntime

(* replay_create: what the constructor builds when it is run again as in    *)
(* `creation`.  It reverts, or builds something else, for a fragile one,    *)
(* then as later.                                                           *)
Replay(hash, creation) == IF hash \in Fragile THEN NoRuntime ELSE Runtime(hash, creation)

(* deploy_environment: what is recorded of the creation at `address`. *)
deploy_environment(hash, address) == IF hash \in ReadsEnvironment THEN address ELSE ZERO_ADDRESS

Routes == [Selectors -> MaybeAddress]

(* A delegatecall to the migration: one SSTORE for each slot it names. *)
Migrate(routes, sets) ==
  [s \in Selectors |-> IF s \in DOMAIN sets THEN sets[s] ELSE routes[s]]

-----------------------------------------------------------------------------
(* deploy.py: which address serves which selector.                         *)

FacetsOf(state) == {f \in Facets : state.facets[f] # NoRecord}

Exposes(commit, f, s) == s \in facet_selectors[commit][f]

(* The facets of `state` that serve s.  Several may, at one address: deploy *)
(* refuses a set in which they differ (Clash).                             *)
Serving(state, s) == {f \in FacetsOf(state) : Exposes(state.gitCommit, f, s)}

SelectorOwners(state) ==
  [s \in Selectors |->
     IF Serving(state, s) # {} THEN state.facets[CHOOSE f \in Serving(state, s) : TRUE].address
     ELSE IF s = SELECTORS_SELECTOR THEN state.selectors
     ELSE ZERO_ADDRESS]

Clash(state) ==
  \E s \in Selectors : \E f, g \in Serving(state, s) : state.facets[f].address # state.facets[g].address

(* A bug: nothing counts as installed, as with no checkout of its commit.  *)
CurrentSelectorsUnread(current, unread) == {}

(* Everything the installed facets expose, read at `current.gitCommit`, but *)
(* for those whose artifact cannot be read: a warning says that they are    *)
(* not zeroed.  The generated selectors() is not among them.                *)
CurrentSelectors(current, unread) == {s \in Selectors : Serving(current, s) \ unread # {}}

(* The code of the generated selectors(), NoCode when a facet has its own. *)
SelectorsRuntime(commit, facets) ==
  IF \E f \in facets : Exposes(commit, f, SELECTORS_SELECTOR)
  THEN NoCode
  ELSE SelectorsCode({SELECTORS_SELECTOR} \union UNION {facet_selectors[commit][f] : f \in facets})

(* What detection reads at the slot it found for s, nothing if it found none. *)
Held(routes, storage_keys, s) ==
  IF storage_keys[s] = NoSlot THEN ZERO_ADDRESS ELSE routes[storage_keys[s]]

(* The selectors to point or to zero, going by the slots found: one whose   *)
(* slot already holds what it should is left alone.                         *)
SetDelegates(current, proposed, routes, storage_keys, unread) ==
  LET new == SelectorOwners(proposed)
  IN  {s \in Selectors : new[s] # ZERO_ADDRESS /\ Held(routes, storage_keys, s) # new[s]}
        \union {s \in CurrentSelectors(current, unread) :
                  new[s] = ZERO_ADDRESS /\ Held(routes, storage_keys, s) # ZERO_ADDRESS}

(* build_migration raises: no slot is found for a selector to point, or one *)
(* slot for two selectors to write.                                         *)
SlotsAreWrong(current, proposed, routes, storage_keys, unread) ==
  \/ \E s \in Selectors : SelectorOwners(proposed)[s] # ZERO_ADDRESS /\ storage_keys[s] = NoSlot
  \/ \E s, t \in SetDelegates(current, proposed, routes, storage_keys, unread) :
       s # t /\ storage_keys[s] = storage_keys[t]

(* The writes that take a proxy whose slots hold `routes` from `current` to *)
(* `proposed`.                                                              *)
BuildMigration(current, proposed, routes, storage_keys, unread) ==
  LET written == SetDelegates(current, proposed, routes, storage_keys, unread)
      writer(slot) == CHOOSE s \in written : storage_keys[s] = slot
  IN  [slot \in {storage_keys[s] : s \in written} |-> SelectorOwners(proposed)[writer(slot)]]

(* The proxy's dispatcher, asked after the migration ran on its live slots: *)
(* each proposed selector reaches its facet, each one known to be dropped   *)
(* reverts.                                                                 *)
Rehearse(current, proposed, routes, sets, unread) ==
  LET new == SelectorOwners(proposed)
      after == Migrate(routes, sets)
  IN  /\ \A s \in Selectors : new[s] # ZERO_ADDRESS => after[s] = new[s]
      /\ \A s \in CurrentSelectors(current, unread) :
           new[s] = ZERO_ADDRESS => after[s] = ZERO_ADDRESS

-----------------------------------------------------------------------------
(* accept.py and verify.py.                                                *)

(* A bug: a clean drop is taken for a migration that ran. *)
VerifyMigratedDroppedOnly(current, proposed, routes) ==
  \A s \in Selectors :
    SelectorOwners(current)[s] # ZERO_ADDRESS /\ SelectorOwners(proposed)[s] = ZERO_ADDRESS
      => routes[s] = ZERO_ADDRESS

(* The live slots are what running proposed's migration leaves. *)
VerifyMigrated(current, proposed, routes) ==
  LET new == SelectorOwners(proposed)
      old == SelectorOwners(current)
  IN  /\ \A s \in Selectors : new[s] # ZERO_ADDRESS => routes[s] = new[s]
      /\ \A s \in Selectors : old[s] # ZERO_ADDRESS /\ new[s] = ZERO_ADDRESS => routes[s] = ZERO_ADDRESS

(* address |-> the history entry of each delegate `state` installs. *)
HistoryEntries(state) ==
  [a \in Addresses |->
     IF a = state.selectors
     THEN ArchivedAs(state.gitCommit, FacetsOf(state), NoRecord)
     ELSE IF \E f \in Facets : state.facets[f].address = a
     THEN LET f == CHOOSE f \in Facets : state.facets[f].address = a
          IN  ArchivedAs(state.gitCommit, {f}, state.facets[f])
     ELSE NoEntry]

(* A bug: only what left the facet set retires, so a facet redeployed      *)
(* under the same source id takes its old address out of the record.       *)
RetiredEntriesBySource(current, accepted) ==
  [a \in Addresses |->
     IF HistoryEntries(current)[a].source \subseteq FacetsOf(accepted) THEN NoEntry ELSE HistoryEntries(current)[a]]

(* The entries of the delegates `current` installs that `accepted` does not. *)
RetiredEntries(current, accepted) ==
  [a \in Addresses |->
     IF HistoryEntries(accepted)[a] # NoEntry THEN NoEntry ELSE HistoryEntries(current)[a]]

(* A bug: assigned, where it should be updated. *)
AssignHistory(history, retired) == retired

(* dict.update: the new entry wins. *)
UpdateHistory(history, retired) ==
  [a \in Addresses |-> IF retired[a] # NoEntry THEN retired[a] ELSE history[a]]

(* A bug: `proposed` is left behind. *)
AcceptEntryKeepingProposed(entry) ==
  [ current  |-> entry.proposed,
    proposed |-> entry.proposed,
    history  |-> UpdateHistory(entry.history, RetiredEntries(entry.current, entry.proposed)) ]

(* The wholesale swap `accept` makes. *)
AcceptEntry(entry) ==
  [ current  |-> entry.proposed,
    proposed |-> NoState,
    history  |-> UpdateHistory(entry.history, RetiredEntries(entry.current, entry.proposed)) ]

(* audit.py: the delegates a state, and an entry, record. *)
StateDelegates(state) ==
  {a \in Addresses : a = state.selectors \/ \E f \in Facets : state.facets[f].address = a}

Archived(entry) == {a \in Addresses : entry.history[a] # NoEntry}

RecordedDelegates(entry) ==
  StateDelegates(entry.current) \union StateDelegates(entry.proposed) \union Archived(entry)

(* The delegates that logs name, zero aside, and nothing records.          *)
Unrecorded(entry, named) == (named \ {ZERO_ADDRESS}) \ RecordedDelegates(entry)

(* verify_facets on one record, of `hash` by the sources at its commit,     *)
(* whose facet is at `address`: the creation recorded is the one that made  *)
(* it, and source, record and chain agree on what it built.                 *)
VerifyFacet(hash, address, record, code) ==
  LET rebuilt == Replay(hash, record.creation)
  IN  /\ record.initcodeHash = hash
      /\ record.creation # ZERO_ADDRESS => record.creation = address
      /\ rebuilt # NoRuntime
      /\ record.codeHash = rebuilt
      /\ code_hash(address, code) = record.codeHash

(* verify_selectors. *)
VerifySelectors(state, code) ==
  state.selectors # ZERO_ADDRESS =>
    code[state.selectors] = SelectorsRuntime(state.gitCommit, FacetsOf(state))

(* verify_proposed_set: what is staged is what facetSrc resolves to.       *)
VerifyProposedSet(p, proposed) ==
  FacetsOf(proposed) = {facetSrc[proposed.gitCommit][p][i] : i \in DOMAIN facetSrc[proposed.gitCommit][p]}

(* A bug: verify passes over the facets it cannot read, as deploy does. *)
VerifyMigrationSwallowing(current, proposed, routes, code, storage_keys, unread) ==
  /\ ~SlotsAreWrong(current, proposed, routes, storage_keys, unread)
  /\ code[proposed.migration] = MigrationCode(BuildMigration(current, proposed, routes, storage_keys, unread))

(* verify_migration: the recorded script is the one josuke would build now. *)
(* A facet of `current` that cannot be read stops the run (selector_owners). *)
VerifyMigration(current, proposed, routes, code, storage_keys, unread) ==
  /\ FacetsOf(current) \intersect unread = {}
  /\ ~SlotsAreWrong(current, proposed, routes, storage_keys, unread)
  /\ code[proposed.migration] = MigrationCode(BuildMigration(current, proposed, routes, storage_keys, unread))

(* verify_history_entry: the entry rewrapped as a state with one facet, or *)
(* with the facet set a selectors() enumerates.                            *)
VerifyHistoryEntry(p, a, entry, code) ==
  IF entry.initcodeHash = NoHash
  THEN code[a] = SelectorsRuntime(entry.gitCommit, entry.source)
  ELSE \A f \in entry.source : VerifyFacet(facet_initcode[entry.gitCommit][p][f], a, entry, code)

-----------------------------------------------------------------------------
(* check.py: the facets that differ between the sources at `commit` and    *)
(* what is staged, or else installed; nothing when nothing is recorded.    *)
Drift(commit, p, entry) ==
  LET head == {facetSrc[commit][p][i] : i \in DOMAIN facetSrc[commit][p]}
      reference == IF entry.proposed # NoState THEN entry.proposed ELSE entry.current
  IN  IF reference = NoState THEN {}
      ELSE {f \in head : reference.facets[f].initcodeHash # facet_initcode[commit][p][f]}
             \union (FacetsOf(reference) \ head)
=============================================================================
