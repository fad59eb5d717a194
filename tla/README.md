# Verification of josuke

josuke keeps a ledger, `josuke.json`, of which facet of which commit is installed behind each
selector of each ERC-8167 proxy, and it plans, deploys, checks and audits upgrades from it.  This
directory holds TLA+ models of the parts of it that keep state, the TLC runs that check them on
small instances, and proofs, checked by TLAPS, of what holds for every instance.  Paths below are
relative to the repository root as `src/...`; line numbers are those of the modelled commit.

1. [The system](#1-the-system)
2. [The modules](#2-the-modules)
3. [The runs](#3-the-runs)
4. [The proofs](#4-the-proofs)
5. [What the models found](#5-what-the-models-found)
6. [What is not modelled](#6-what-is-not-modelled)
7. [Plan](#7-plan)

## 1. The system

Every command is one sequential Python process, but what it acts on is shared: the ledger file is
read at a command's start and written at its end, the chain moves while a command runs, governance
executes a published migration at any time or never, other wallets spend the sender's nonces, a
node cuts, caps and drops answers, a child process runs beside it, and a command stops anywhere.
The hard behaviours are all interleavings of one long command with these.

### Components

| Component | State | Operations | Interacts with |
| --- | --- | --- | --- |
| `deploy.py` | a copy of the ledger; facets, addresses and creations planned so far; one pinned block (`planning_cache`) | plan each facet (reuse or create), plan `selectors()`, build and rehearse the migration, drop or stage `proposed` | broadcast, storage, rehearsal, migration, ledger, worktree (through the caller) |
| `accept.py` | a copy of the ledger, the proxies that passed | check the live slots, swap `proposed` into `current`, archive into `history` | storage, ledger |
| `verify.py` | none | compare ledger, source and chain | worktree, storage, rehearsal |
| `audit.py` | a search bracket; a queue of block windows; what is missing | bisect for the deployment, scan logs in rounds, name unrecorded delegates | ethjsonrpc, worktree, verify |
| `broadcast.py` | the next nonce, unsent creations, hashes sent | reserve a nonce, send in order, wait for receipts | the chain |
| `ethjsonrpc.py` | the batch limit learned per URL, a cache of code | post a batch: halve, resend, split | every reader of the chain |
| `storage.py` | slots known, claims, walks waiting | walk a selector's dispatch, test each slot with a stub, fetch in batches | evm |
| `evm.py` | a child process, three pipes, a cache of answers | call, answer the child's fetches, collect its trace, close | ethjsonrpc, the `evm` tool |
| `signer.py` | the file with the password | unlock, lend it to `cast`, close | broadcast |
| `migration.py`, `rehearsal.py`, `erc8167.py` | none | encode, decode and rehearse a migration; generate `selectors()` | deploy, verify |
| `ledger.py` | the file | load, write, select a chain's proxies | all commands |
| `worktree.py` | worktrees checked out | get a commit's tree, close | verify, audit, check |
| `check.py`, `layout.py` | the baselines read back | compare HEAD's sources with the ledger offline: facets, selectors, storage | worktree, deploy (`existing_deployment`) |
| `facet.py`, `forge.py` | none | find and read build artifacts | deploy, check |
| `cli.py`, `summary.py`, `abi.py`, `trace.py`, `proc.py` | none | commands, output, subprocesses | - |

A deploy and an accept communicate only through the ledger and the chain: deploy writes `proposed`
and publishes the migration, governance executes it, accept reads the slots and moves `proposed`
to `current`.  Nothing tells one of the other, so everything rests on the records agreeing with
the chain at each step of that protocol.

### What makes each component correct

- **deploy, accept, broadcast, ledger.**  What is recorded passes verification against the chain,
  but for the facets deploy warned of; what becomes `current` was installed; what was once `current` is never forgotten; a migration
  that verifies can be accepted; running deploy again stages nothing twice; in the documented order
  of commands a proxy serves one commit at a time; and repeating the commands gets there.
- **audit.**  An audit that ends accounts for every block, reads none twice, blames the node only
  for blocks it lacks, and ends.
- **ethjsonrpc.**  A call ends with every answer, or with an exception that says exactly which
  requests were not answered; what a batch was refused for is not tried again.
- **storage.**  The slot found is the one that routes the selector, though tests are run on storage
  that is mostly unfetched, and there is an answer whenever there is one to find.
- **evm.**  Neither process waits on the other for ever; a trace is complete when a line is acted
  on; relays that share a cache read one block.
- **signer.**  A right password is never refused and no password outlives its session.
- **broadcast.**  What is recorded lies where it was planned, with the code that lies there; a run
  displaces nothing of an earlier one; waiting ends.
- **check.**  What it foretells is what deploy does; a commit it passes reads back all storage that
  any code of the proxy wrote.
- **worktree.**  A tree that is served is complete, and none is left in the user's repository.
- **migration, erc8167.**  The script does what it reads as; `selectors()` returns the list.

`PROJECT.json` lists the hazards behind these, each at its line.

## 2. The modules

| Module | Models | Kind |
| --- | --- | --- |
| `Deployment` | ledger records, routes, migrations, and what the commands compute from them | operators |
| `Upgrade` | deploy, accept, broadcast, the chain, governance, faults | state machine over `Deployment` |
| `AtomicUpgrade` | what an orderly upgrade promises | abstract specification |
| `UpgradeInvariant` | `Upgrade`'s inductive invariants | |
| `CheckLedger` | what check foretells of a deploy | operators over `Upgrade` |
| `MCUpgrade` | two facets, six commits, two proxies | instance of both |
| `BatchOutcome` | how a batch call can end | shared between the next two |
| `PostBatch` | `post_batch` | state machine |
| `Audit` | `find_deploy_block`, `get_logs` | state machine |
| `SlotWalk`, `MCSlotWalk` | `ProxyStorage.fetch` | state machine, instance |
| `Relay` | `EvmRelay`, the child and their pipes | state machine |
| `Keystore` | the keystore session | state machine |
| `Broadcast`, `MCBroadcast` | nonces, sends, receipts, the code cache, a mempool | state machine that extends `Keystore`, instance |
| `StorageLayout` | `_shape`, `_fit`, `_check_storage`, `_compare_storage`, and what solc means by a layout | operators |
| `SourceTrees` | worktrees and their submodules | actions of a component |
| `StorageCheck`, `MCStorageCheck` | check, deploy and accept over both | state machine, instance |
| `Bytecode`, `MCBytecode` | the migration script, its reader, `selectors()`, the EVM that runs them | state machine, instance |
| `Upgrade_proofs`, `Lifecycle_proofs` | theorems on `Upgrade` and `CheckLedger`, refinement of `AtomicUpgrade` | proofs |
| `Audit_proofs`, `PostBatch_proofs`, `Relay_proofs`, `SlotWalk_proofs` | theorems on each | proofs |
| `Broadcast_proofs` | theorems on `Keystore` and `Broadcast` | proofs |
| `StorageCheck_proofs` | theorems on the worktrees of `StorageCheck`, and on what check promises of storage | proofs |

### Deployment and Upgrade

`ledger` is the file, one `Entry` (`current`, `proposed`, `history`) for each proxy on the chain;
`NoState` stands for an absent key.  `run` is the memory of the command that runs, its fields named
after the locals of `run_deploy` and `run_accept`; it is `Idle` between commands.  `code`, `nonce`,
`routes` and `announced` are the chain: contracts by address, the sender's nonce, the value of each
selector's slot, and the delegates a proxy's logs have named.  `ballots` holds, for each proxy, the
published migrations governance has not executed; a superseded one stays there, since nothing takes
it off the chain.

| Action | Code |
| --- | --- |
| `StartDeploy(all)` | `run_deploy` up to its loop (`deploy.py:491`), with or without `--all` |
| `PlanFacet` | one facet of the loop (`deploy.py:544`): `existing_deployment`, else `Broadcast.create` |
| `PlanSelectors` | `deploy_selectors_impl` (`deploy.py:473`) |
| `PlanMigration(storage_keys, unread)` | `proposed`, `build_migration`, the rehearsal, staging or dropping it (`deploy.py:583`), with the slots detection found and the installed facets it could not read |
| `RefuseMigration(storage_keys, unread)` | no slot, one slot twice, or a rehearsal that fails (`deploy.py:419`, `449`, `599`) |
| `Send` | one creation of `send_all` (`broadcast.py:103`), mined or reverted |
| `FinishDeploy` | from the last receipt to `write_ledger` (`deploy.py:618-647`): code hashes, the constructor replay, the environment it records, and the exception after the write if a replay did not reproduce the code |
| `FailDeploy` | any exception before the ledger is written |
| `StartAccept`, `CheckProxy`, `FinishAccept` | `run_accept` (`accept.py:107`), one proxy checked per step |
| `Execute(p, m)` | governance has proxy p delegatecall a published migration |
| `MoveHead`, `Crash`, `ForeignTransaction` | the developer, the operating system, another wallet |

Addresses are nonces (CREATE is injective in them), so "the address is someone else's" is visible
as an address whose code is not what was planned.  Creation code includes constructor arguments.
Runtime code is a function of it and, if the constructor reads its environment
(`ReadsEnvironment`), of the creation: a record's `creation` stands for the `from`, `nonce` and
`block` that `deploy_environment` records, and `verify_facets` replays the constructor there and
checks that it is the creation of the recorded address.  A constructor in `Fragile` does not rebuild
what it built.  `warned` is a history variable, the addresses deploy has said "`verify` will fail
for".  A facet created for several sources or proxies is one dict in the code, completed once it is
mined; in the model all its copies are.

A migration is the set of its writes, slot to address, a slot being named by the selector the proxy
dispatches through it.  Detection (`storage_keys`) may take one slot for another or find none, and
an installed facet's artifact may be missing (`unread`): deploy then passes it over with a warning
(`current_selectors`, `deploy.py:310`), whereas verify and accept stop (`selector_owners`,
`deploy.py:328`).  `Rehearse` asks where the proxy's own slots lead after the script ran, whatever
slots it was built on, of the selectors proposed and of those deploy knows to be dropped.  Between
reading the slots (`PlanningSlots`, pinned by the first proxy) and sending there are steps at which
everything else may happen.

`OrderlySpec` is the environment `src/README.md:63-106` asks for: accept is run once the migration
executed and before the next deploy, and governance executes what the ledger proposes, not while a
deploy runs.  In it detection is right and every installed facet can be read: nobody publishes a
migration deploy said leaves selectors routed.  `HastySpec` lets deploy run before accept.  `Spec`
assumes nothing.

`AtomicUpgrade` says what this buys: a proxy serves exactly one commit; it moves in one step, and
only from what the ledger had accepted; accept takes over what all the proxies serve at once.
`ServesOneCommit` maps each proxy's slots and its recorded owners to the *code* behind them, so a
slot left over, dropped too many, or pointing at a reused address with other code is a violation.

`CheckLedger` walks the facets of each proxy as `_check_proxy` does.  A facet that would be created
has no address, so it is known by its creation code there, and the question is whether two facets
being in one place comes out the same as it does for deploy, which has addresses
(`CheckForetellsDeploy`).  It is evaluated where deploy has planned a proxy's facets and is about to
build its migration, of the ledger and the commit that run started from.

### PostBatch and Audit

`PostBatch`'s node may find any batch too large, by count or by bytes, may cut off its answers after
any number of them, and may be unavailable, slow or down at any post: what one batch learns need not
hold of the next.  Only a request whose answer alone is more than the node sends (`oversized`) is cut
off alone.  A call's requests keep their order, so a list is a set of positions.  The limit
(`_batch_limits`) outlives a call and `attempt` outlives a halving, as in the code.

`BatchOutcome!Outcomes` is the contract between the two: all answered, or answers up to a batch of
requests none of which is answered.  `PostBatch` is checked to end only so (`EndsInAnOutcome`);
`Audit` takes any such outcome in each round of `get_logs`.

`Audit`'s `queue`, `scanned` and `missing` are the locals of `get_logs`; a window is a pair of
blocks, and the scan's order only decides which windows precede a failing batch, so the queue is a
set.  The node holds any set of blocks, and what it says of a rejected window is any of `Words`: a
cap on the range, a range that fits its result limit, or neither.

### SlotWalk

A proxy's dispatch is a sequence of steps, each reading a slot of its own, keyed by the selector or
not: it loads the delegate, or a default, stops on a guard or unless one, loops as often as a word
says, or goes on in a nested frame.  `Call` runs it, as `evm` does, over storage that is real where
fetched, zero elsewhere, and `"stub"` at the slot under test, and yields the events `_proxy_events`
keeps.  The actions are the rounds of `fetch`: `Take` a selector, `Try` its next slot
(`Defer`, `Claim`, `Contest`, `Fail`), `Pass` over one already tried, `Fetch` at the end of a round,
`Finish`.

Its limit: each step reads a slot no other step reads.  A dispatcher that reads the routing slot in
two frames with a guard in the inner one only would let a read after the hand-off steer the call;
`_steered_by` does not chase those, and the model has no such proxy.

### Relay

Two processes and three pipes.  A pipe is two counters, of chunks put in and taken out, two chunks
to a line of either output, so a read may end inside one.  josuke's locations are the calls of
`_readline`, `_read_trace`, `call` and `close`; `select()` may report any nonempty part of what is
ready.  The child's trace goes out when it prints or its buffer is full, and always before the line
that follows it; requests and answers are read as they are written.  `cache` is the one entry of
the shared cache that matters, the block number.

### Keystore and Broadcast

`Keystore` is the session, the prompts and the file without a name.  A password is a sequence of
characters, since the hazard is one written over a longer one.  Whether a `cast` moves the shared
file offset (macOS's `/dev/stdin`) or not (Linux's) is chosen once.

`Broadcast` runs one deploy after another in it: each `Send`, and finding the sender unless
`ETH_FROM` names it, is a cast.  `pool` and `mined` are one sender's transactions, by nonce.  `Send`
may be taken (over a pending transaction of the same nonce, which is how a node takes a replacement),
refused, or taken and not heard of; `Other` is the sender's own transaction from elsewhere, new or
over a pending one; `Drop` is the node's.  An address is its nonce.  `Prefetch` and `Record` are the
end of `run_deploy`: the code of all new contracts in one request through the cache `_codes`, then a
hash of each.  A node that lags answers "no code" for any of the addresses.

`Upgrade`'s `Send` mines at once and its `ForeignTransaction` is `Other`; a transaction that is
dropped or replaced there is a run that fails (`FailDeploy`) or stops (`Crash`).

### StorageLayout, SourceTrees and StorageCheck

A layout is solc's: a graph of types by id, in which a mapping or a dynamic array may lead back to
the struct it belongs to.  `Compared` is the set of pairs `_fit` visits.  `CellsOf`, `Meet` and
`ReadsAs` are the reference the comparison is judged by: the values a declaration reaches, with
regions for what is hashed, followed to `DEPTH` in recursive types.  `LaidOut` is what solc promises
of the types of a commit: sizes are positive, a struct's members are distinct, in order and inside
it, an array's elements are inside it, a mapping and a dynamic array take one slot.
`LayoutAssumption` asks that of every commit, and that the variables of one source lie apart.

`SourceTrees` has one action for each git or forge command of `get` and `close`; each may fail.
`worktrees` and `whole` are git's, the rest is the object's.

`StorageCheck` puts both beside a proxy: a commit's facet is what it declares, and its bytecode is
the cells it touches, so two commits may be one bytecode and two layouts.  Governance runs what is
proposed; what runs has written all it touches.  check compares HEAD's facets among themselves, then
reads back each recorded state, in any order, through trees it opens on first need; a state it cannot
read is a finding.  deploy and accept take their trees from the same module and change the ledger
only once these are closed.  Deploy is run on top of what is accepted (`live = ledger.current`), the
order `src/README.md` asks for: without it finding 1 applies, and check cannot know of code that the
ledger forgot.

`StorageReadsBack` says three things of a commit check has passed.  Wherever a cell its facets reach
meets one that any code the proxy ran has written, it starts and ends with it and means the same (an
enum may have grown).  Cells of its own facets that meet are one cell, under one path.  And a
variable some recorded state declares, if its name is still declared at all, has a declaration of
that name which has each path both have in the old place.  The third is stated per declaration: two
facets may each declare a variable of one name, and one of them alone keeps the place, with fewer
paths in it than the other.

### Bytecode

Code is a sequence of instructions; a word is its 32 bytes.  `Block`, `Encode` and `SelectorsMethod`
are the bytes josuke writes, `Decode` is the reader `verify` uses, and one action per instruction is
the EVM, with memory that grows by words.  A foreign script is any sequence of pieces: a delegate,
either kind of block, a stray `DUP1`.

## 3. The runs

All bounds are CONSTANTS of the cfg or listed as `bound:` in the modules.

| Run | Checks | Shows |
| --- | --- | --- |
| `MCUpgradeHostile` | `IInv`, `RecordsVerify`, `VerifiedMigrationIsAcceptable`, `RerunReuses`, `CheckForetellsDeploy` | one proxy, three commits (one moves a selector between facets, one drops a facet, one clashes), a constructor that does not replay, one that reads its address, a change of HEAD or an `--all`, a fault (a crash, a revert, a foreign transaction, wrong slots, an unread facet), votes at any time: verify fails on what deploy warned of and nothing else, what it passes can be accepted, and check is true to deploy |
| `MCUpgradeRacing` | `RecordedWereInstalled`, `RecordsVerify`, `CheckForetellsDeploy` | two proxies sharing facets, a commit whose two facets are one bytecode and implement `selectors()` themselves, one with a facet that has no functions, votes that run between a deploy's read and its end or between accept's proxies |
| `MCUpgradeOrderly` | `AuditIsClean`, `ServesOneCommit`, `RetiredStayRecorded`, `UpgradeCompletes` | the documented order, two proxies, four commits, three deploys, a fault: refinement of `AtomicUpgrade`; repeating both commands reaches the commit |
| `MCUpgradeHasty` | `AuditIsClean` violated | finding 1 |
| `MCPostBatch` | `EndsInAnOutcome`, `CutOnlyWhenAlone`, `NothingRefusedTwice`, `CallEnds` | two calls of up to five requests under a limit of four, any batch refused, cut off or not answered |
| `MCAudit` | `ScanInv`, `EveryBlockIsAccountedFor`, `NoLogTwice`, `MissingIsLacking`, `AuditEnds` | five blocks, every deployment block, every set of held blocks |
| `MCAuditFuture` | `AuditEnds` violated | finding 2 |
| `MCSlotWalk` | `VerdictsHold`, `FindsTheRoutes`, `ListNotFetched`, `RoundsGetOn` | every dispatcher of three steps with one keyed load, every storage, one selector, a dummy one, and two |
| `MCRelay` | `TraceIsDelivered`, `OneBlock`, `CallEnds`, `ChildExits` | two relays on a cache, two calls each, failures and interrupts anywhere |
| `MCBroadcast` | `PasswordGetsThrough`, `NothingLeftOpen`, `DeployedWherePlanned`, `HashesAreOfTheCode`, `DisplacesNothing`, `WaitEnds` | two runs of up to two creations, one of which may revert, another transaction of the sender, two mishaps |
| `MCStorageCheck` | `StorageReadsBack`, `NothingLeftBehind`, `TreesAreWhole` | nine projects of two to five commits, any two upgrades, a legacy implementation or none |
| `MCBytecode` | `ScriptDoesWhatIsRead`, `SelectorsReturned` | migrations of up to two writes, foreign scripts of up to four pieces, lists of 1 to 9, 255 and 256 selectors |

Why the bounds are enough:

- *Upgrade.*  A property needs at most an old, a new and a superseded deployment: `MaxRequests` 1 or
  2 gives the third. `MaxEvents` bounds changes of HEAD, `--all`s and faults together. Two facets
  give moves, drops, clashes and shared bytecode; two proxies give reuse across proxies and the race
  between them. `MaxNonce` is above what three deploys of two facets, a `selectors()` and a
  migration need; at the bound a deploy fails, which is a behaviour it has anyway. Crash, reverted
  creation, foreign transaction, wrong slots and unread facets share one budget, so each is met at
  every step, but not two in one behaviour. `MCDetections` has two slots exchanged, one slot found
  for two selectors, and none found for one.
- *PostBatch.*  Five requests over a limit of four make two batches, halved twice, and cut.
- *Audit.*  Five blocks are halved three times and capped with remainders; the proofs lift the bound.
- *SlotWalk.*  A walk's decisions concern the slot under test, one before and one after it.
- *Relay.*  A pipe of three chunks fills within two steps and can be left half a step full.
- *Broadcast.*  Two creations make "the first is lost, the second is not"; two runs, one that stops
  and one that knows nothing of it.  A short and a longer password, each after the other.
- *StorageCheck.*  Each project isolates one way declarations change: packing, dropping, structs,
  recursive types, arrays, enums, labels, sharing between facets.  Slots of two units let two
  variables share one; `DEPTH` 3 goes round a recursion once and into what it holds.  Two upgrades
  put one commit into `history` under another.  git and forge fail twice, in one project (`Fragile`),
  since layouts do not matter to that.
- *Bytecode.*  `Block` and `Decode` treat the last block of a delegate, and the one before it,
  differently, and nothing else; four pieces hold two delegates.  The pointer needs a second byte
  from 8 selectors on, the length from 256.

Deadlock is checked wherever the modelled process should not get stuck: all Upgrade runs, SlotWalk,
Relay, Broadcast and StorageCheck.  An audit, a series of calls and a program of the EVM do stop, so
`MCAudit`, `MCAuditFuture`, `MCPostBatch` and `MCBytecode` switch it off.

Exceptions stated in properties: `NothingLeftBehind` excepts a command in which a `git worktree`
itself failed after its checkout was made (nothing could remove it); `WaitEnds`, a wait for a
transaction that was lost (`Lost`): `cast receipt` waits for ever, which no code in src/ prevents;
`HashesAreOfTheCode`, a node that still had no code when asked for that address alone;
`DisplacesNothing`, a sender one of whose transactions the node dropped.

### Fairness

- *Upgrade.*  A running command goes on (WF on its steps).  Deploy and accept exclude one another, so
  that each is run again and again needs SF; so does governance getting to a vote, which a deploy in
  progress disables.  Nothing is assumed of HEAD, crashes or foreign transactions, which their
  budget ends.  The operator running both commands repeatedly is `src/README.md`'s workflow.
- *PostBatch, Audit.*  The loop takes its next step; each request ends somehow, if only in a timeout.
- *Relay.*  Neither process stops while it can go on (WF on each).  A child in an endless call
  (`"hung"`) is allowed, and then only `close` helps: it terminates after five seconds, which are
  taken as enough for any child that can still exit by itself.
- *Broadcast.*  Blocks are made, and the run takes a receipt that is there (WF on each).  The user
  may stop a run, and nothing says a pending transaction stays.
- *SlotWalk* has no fairness: `RoundsGetOn` says each round fetches a new slot, of finitely many.

## 4. The proofs

Each theorem holds for all values of the constants that satisfy the modules' assumptions.

**Upgrade_proofs.**  `InvariantHolds` (`IInv`), `TypeCorrect`, `RetiredStay`
(`RetiredStayRecorded`), `RehearsalDecides`, `VerifiedIsAcceptable`
(`VerifiedMigrationIsAcceptable`).  `TypeOK` alone is not inductive: `Execute` needs what is voted on
to be a migration on chain, which needs `ballots` to hold only addresses below the nonce
(`Unwritten`), which needs a run's creations to be sent at the nonces planned for them or the run to
fail (`MigrationsHeld`: proposed by a run means on chain, or still to be sent, or reverted).
`RecordsWellFormed` and `Planning` carry that every planned facet ends in `proposed` with an address
and something serves `selectors()`; `Memory`, that a run's copy of `current` and `history` is the
file's, is what `RetiredStay` rests on: an accept archives whatever it retires, and a deploy writes
back what it read.

Three theorems say what the checks on a script are worth when the slots it was built on may be wrong
and an installed facet may be unread.  `RehearsalDecides`: the rehearsal passes exactly if the script
leaves every selector that is proposed, or known to be dropped, where a script built on the right
slots does; it never refuses right slots, and it misses writes only other selectors notice (section
5).  `VerifiedIsAcceptable`: what accept would refuse even once it ran, verify refuses now.  verify
reads every facet of `current` or stops, which makes the selectors it expects to be cleared the ones
accept expects (`ReadInFull`).  `UnreadIsNotAccepted`: what deploy
stages with facets unread, accept refuses exactly if a selector only these served is dropped and
still routed; that is the case verify is run for.

**Lifecycle_proofs.**  What an upgrade leaves behind, from five more invariants, each resting on
`IInv` and some of the others.

- `RecordsInv` gives `RecordsHold` and `LedgerVerifies` (`RecordsVerify`).  A record is right only if
  the code is at its address, and a run records what it has not sent yet.  So an invariant relates
  each planned record to a creation still to be sent (`PlanLands`, `Lands`) as well as each recorded
  one to the chain (`LedgerHolds`), and `Untouched` says that a run that planned nothing for a proxy
  writes back what it read.  A record is right also if its code hash and environment are, which are
  read after the mining; until then it is kept for reuse, and every copy of it is the one that is
  kept (`DetailsInv`: `CompleteOrUnread`, `LedgerComplete`, `MemoryComplete`), so all are completed
  together.  `Complete` says that a constructor which does not replay is one deploy warned of, and
  `WarnedAreFragile` that it warned of no other, which makes `RecordsVerify` an equivalence.
- `RerunInv` gives `RerunCreatesNothing` (`RerunReuses`).  It needs `RecordsInv`: reuse compares
  records with code on chain, and finds what is staged only where the record is true.
- `ForetoldInv` gives `CheckForetells` (`CheckForetellsDeploy`).  `check` plans by creation code and
  deploy by address.  Facet by facet the two agree (`PlansAgree`): a place in check's plan is an
  address in the run's memory, the place `New(h)` being where the run creates code `h`.  Two facets
  are then at one address only if they are at one place, which needs a run's creations apart from
  each other and from every contract on chain (`CreationsApart`), and by `RecordsInv` an address
  recorded for code `h` to hold code `h`.  `SourcesInOrder` and `ProxiesInOrder` open the two
  recursive functions of `CheckLedger`.
- `InstalledInv` gives `RecordedInstalled` (`RecordedWereInstalled`).  The chain has moved on by the
  time accept writes, so the argument is over logs, which only grow: every routed delegate has been
  announced, a proxy passes only with all of what is proposed routed, and no state clashes, so each
  facet that dispatches a selector is the one routed for it.
- `OrderlyInv`, under `OrderlySpec`, gives `OrderlyHolds`, `AuditStaysClean` (`AuditIsClean`) and
  `ServesOneCommitAtATime` (`ServesOneCommit`: the initial state, and one step per action, mapped to
  a step of `AtomicUpgrade` or a stutter).  A proxy routes the owners of what is installed, or, once
  voted, all owners of what is proposed; until then the migration proposed takes it from the one to
  the other (`MigrationLands`), which is where dropped and reused facets meet the slots read.

**Audit_proofs.**  `ScanInvariant`, `NothingIsSkipped` (`EveryBlockIsAccountedFor`),
`NothingIsReadTwice` (`NoLogTwice`), under the assumption that `--from-block` names a block of the
chain, without which finding 2 applies.  `WindowsTile`, `HalvesTile` and `NarrowTiles`: narrowing
replaces a window by windows that cover it exactly.  `PartsApart`: windows apart from each other
stay so when each is replaced by parts of it.  `StartsBeyond` and `RoundKeeps`: what a round removes
from the queue is scanned, missing or replaced, also when the start of the history is believed.
`ReportedIsLacking` (`MissingIsLacking`) adds `HeldInv`: what was scanned is held, and the start of
the history that narrowing believes is the first block of a window that was scanned.  On a node
whose blocks are held to the end, what lies below such a block is all that can be missing.

**Relay_proofs.**  `TraceDelivered` (`TraceIsDelivered`), `RelaysReadOneBlock` (`OneBlock`).  The
invariant relates the processes: the child prints only once its trace is written (`PrintsLast`) and
josuke drains for the last time only with the whole line in hand (`HasLine`), so nothing is written
after that drain looks.  For one block, all that was observed is the cached number.

**PostBatch_proofs.**  `BatchHolds` (`BatchInv`), `EveryCallEndsInAnOutcome` (`EndsInAnOutcome`),
`NothingCutIsLost` (`CutOnlyWhenAlone`), `RefusedOnce` (`NothingRefusedTwice`), for calls of any size,
any number of them, and a node that refuses and cuts as it likes.  `Accounted` says that exactly the
pending requests of a call are unanswered, so that a batch cut in half is asked for again where it was
cut.  `BelowRefused`: the limit is below every batch of several refused so far, and a post carries no
more than it.  That a post takes something rests on `Least`: a set of numbers has a least one.

**Broadcast_proofs.**  Of `Keystore`: `PasswordIsGiven` (`PasswordGetsThrough`), `NoFileLeftOpen`
(`NothingLeftOpen`).  `RunsUseTheKeystore`: `Broadcast` implements `Keystore`.  Of `Broadcast`, from
`BroadcastInv`: `RecordedWherePlanned` (`DeployedWherePlanned`), `RecordedHashesHold`
(`HashesAreOfTheCode`), `NothingDisplaced` (`DisplacesNothing`).  A receipt is a run's own only if the
hash is, which needs its nonces in order, each sent once (`NoncesInOrder`, `ReceiptsAreOfTheRun`).
That nothing is displaced needs the pool to have no gap below a pending nonce, but where the run has
a creation still to send (`PendingInOrder`): `cast nonce --block pending` counts up to the first gap,
and would otherwise hand out a nonce with an earlier run's transactions ahead of it.

**SlotWalk_proofs.**  `WalkHolds` (`WalkInv`), `VerdictsAreTheProxys` (`VerdictsHold`),
`ListIsNotFetched` (`ListNotFetched`), `EveryRoundFetches` (`RoundsGetOn`), for dispatchers of any
length, any storage and any requests.  The heart is `TestTells`, a simulation between two runs of one
dispatcher: the test, on storage that is zero where it is not known, and the call the proxy as it is
would make with the stub in the same slot.  They run alike up to the key, since what is read before
it is known (`AgreeingRuns`, from `PassedAreKnown`).  After it they run alike as long as what the
test reads is known (`SteeredAlike`); `Unknown` is empty only if that lasts until the frame that read
the stub makes a call, and from there on both reach it, or both have lost it for good (`LostStays`).
A test that runs out of gas did so by counting the stub, at the key, and so does the real call.  That
the walk is of the slots the dispatch reads, in order, is `OnlyInOrder`.

`RoutesHold` (`RoutesInv`, which is stated beside its proof) and `RoutesAreFound` (`FindsTheRoutes`)
are about all walks together.  A selector is queued, waits or is walked, once, or has its slot, or
came to the end of its dispatch (`WalksApart`); what its walk passed, and what the whole dispatch
reads before the slot it has, was rejected for it or is shared (`PassedAreRejected`,
`OthersAreRejected`; `ClaimedIsReached` takes the order of a walk, in which what is not fetched reads
as zero, over to the order of the whole dispatch); `found` and `claims` are inverse
(`ClaimsAreFound`); a shared slot routes two of the selectors (`SharedRouteTwo`).  What is left to
show is that a slot found routes no other selector probed, though none of their walks may have got
there, having stopped at slots of their own.  If the slot of s routed t
as well, t would have another one (`FoundAlone`).  Were that read later, t's walk would have come past
the slot of s, which is neither rejected for t nor shared (`ReadBefore`).  Were it read earlier, it
would route s too: `RoutedBefore` compares the two dispatches, and says that if a step's slot routes
one of them and a later step's slot the other, the earlier step's slot routes the other as well.  So
s, having come past it, would have found it shared, and no selector has a shared slot.

**StorageCheck_proofs.**  `TreesHold` (`TreesInv`), `NoWorktreeIsLeft` (`NothingLeftBehind`),
`NoTreeLacksSubmodules` (`TreesAreWhole`), for any projects, facets, commits and failures.  A worktree
is in the user's repository only while it is noted in `checkouts`, unless a `git worktree` failed
(`MadeAreNoted`, which also says that what a `get` removes and adds again stays noted), and `close`
removes what is noted.  A tree is kept only when whole (`KeptAreWhole`): the tree a `get` works on is
not kept yet, so one whose clone fails is never handed out, by this `get` or a later one.

`WhatRanIsCompared` (`ReadBackInv`) and `StorageIsReadBack` (`StorageReadsBack`) hold for any
projects, any layouts that meet `LayoutAssumption`, any number of upgrades and any `DEPTH`.  The
argument has two halves.  The first is about two type graphs and says nothing of commands:

- *What is compared.*  `Compared` runs for as many rounds as there are pairs of types; a set that
  only grows within a finite one has stopped by then (`StopsGrowing`), so `Pairs` holds the parts of
  each of its pairs (`PairsAre`).  What `_fit` finds of these is `Covers`: kinds, labels, element
  sizes and member positions of the first graph are those of the second, which may be longer
  (`FitCovers`).
- *Where cells are.*  What is held any number of steps from a place lies in the room of that place,
  or in a region hashed from a position inside it, and the second graph's room will do for the first
  graph's cells (`Within`).  Parts of a struct, and elements of an array however packed, have rooms
  apart (`TurnsApart`, `ElementsApart`), so different turns never meet (`TurnsMiss`).
- *What meets goes together.*  From two places in one spot whose types are a pair, whatever is
  reached from the one and touches what is reached from the other has taken the same turns, so it is
  a pair again and starts and ends alike (`Together`, by induction on the steps).  With names: what
  both have under one path is in one place (`FoundByPath`), as no member moved.
- *Declarations.*  Those that do not overlap have no cells that meet (`RootsMiss`); those that do
  overlap start together and fit.  `KeptReads`, `AgreedCells` and `NamedThere` are the three
  conclusions.

The second half is about the commands.  What has written runs still, or is in the ledger as the
legacy implementation, as current, or in the history (`WrittenIsTold`); a proposal that never ran may
be forgotten.  When accept retires an address, the history entry made for it names a facet with that
very bytecode, though perhaps another facet than the one that wrote (`HistoryEntryIs`), and that is
enough: equal bytecode touches equal cells.  An entry dropped because its address is retired once more
is replaced by such an entry.  While check runs, each recorded state has been kept by HEAD or is
still to be read (`CheckedSoFar`), and the ledger and HEAD stay; so what it passes keeps them all
(`PassedIsKept`), until either changes.

**Techniques.**  The library's induction theorems take an operator, so a recursive function is
opened by the lemma `Inductive`, which states induction for a *set* of numbers: the set of steps at
which a run is well formed, or two runs agree, or up to which some function satisfies the recursion.  `SlotWalk` picks with `Only`, a recursive
function, where `SelectSeq` would do for TLC, since nothing is known of `SelectSeq` to the provers.

Only model-checked:

- every liveness property (fairness and ENABLED are beyond the prover);
- `ScriptDoesWhatIsRead` and `SelectorsReturned`: what an encoder, a decoder and an interpreter make
  of code of any length is induction over data.

## 5. What the models found

1. **deploy forgets an executed proposal** (`deploy.py:610`, run `MCUpgradeHasty`).  Deploy, vote,
   deploy again before accept: nothing is left to migrate, so `proposed` is dropped, and the
   delegates now live are recorded nowhere.  Accept has nothing to accept, audit fails.
2. **An audit from a future block never ends** (`audit.py:155`, run `MCAuditFuture`).  `--from-block`
   past the latest block is an inverted window; halving it gives an empty window and itself.

Remarks, short of findings:

- The rehearsal does not see every wrong slot, though its docstring says that one shows "whichever
  slot slot detection guessed" (`rehearsal.py:15-17`).  Deploy, vote, deploy again with the slot of
  one selector taken for another's: the one it is meant for is routed already, and the one it is
  written to is neither proposed nor dropped, so the dispatcher is asked about neither
  (`deploy.py:342-345`).  `RehearsalDecides` says exactly what it does see.
- The limit is not "the most requests [the node] has taken in one batch" (`ethjsonrpc.py:147`): one
  batch of large answers lowers it for the rest of the run, to a single request at worst, whatever the
  node took before (`231`), and nothing raises it.
- After a batch is halved for its size, `attempt` is not reset: the halves inherit its resends.
- An installed facet whose artifact is missing only makes deploy warn.  If such a facet's selector is
  dropped, the migration it stages leaves that selector routed; verify stops, and once voted accept
  does too, until the artifact can be read, and then refuses it.  Warned and published all the same,
  that is what `OrderlySpec` excludes.
- A facet whose constructor does not replay is recorded, with the run's warning, and reused by the
  next run without one: `verify` then fails on it, in `current` and later in `history`, for good.
- After an `--all` run staged fresh facets, a plain re-run goes back to the installed facets but
  keeps the staged `selectors()`.
- A vote on a superseded migration can still run.  accept then refuses, correctly, and audit may
  report a delegate of it as unrecorded; nothing in the tool prevents or repairs that.
- A deploy that stops after sending leaves contracts the ledger has no record of; the next run
  creates them again.
- The ledger is written in place, by whichever command finishes last; nothing locks it.
- `SourceTrees.close` stops at the first worktree it fails to remove, and deploy's trees are closed
  after everything is sent and mined and before the ledger is written: a worktree that cannot be
  removed costs the record of the deployment.
- `RecordedWereInstalled` first said that all recorded delegates were installed, and could not be
  proved: a facet without functions is created, recorded and archived, and no slot ever leads to it.
  audit's warning that such a delegate was never installed (`audit.py:415`, `423`) is then due.  The
  property now excepts it, and `MCUpgradeRacing` has a commit with such a facet.
- Migrations are sorted when decoded, and `verify` keeps one write per selector: of a script that
  writes a slot twice, which no `encode` makes, the last write need not be the one reported.

## 6. What is not modelled

- **Rendering, parsing and files**: `summary`, `abi`, `trace`, `proc`, `forge`, `facet`, the schema
  check.  No state, or only the output of other tools.
- **Of check**: constructor arguments, contract size, the report.  An internal function in storage
  only warns; the projects have none.  ERC-7201 structs are variables at a hashed slot, and `.evm`
  facets are invisible to check and to the model.
- **Of layout**: running solc, the choice of its version, namespaces.
- **Of ethjsonrpc**: `post_request`'s resends, the loop of `post_batch` for one request.
- **Sourcify, gas estimates and the wording of warnings**: they record nothing that is read later.
  The constructor replay, whose `from`, `nonce` and `block` verify reads back, is modelled by its
  outcome; what a constructor reads of other contracts is not, so one that replays keeps doing so
  and a `Fragile` one never does.
- **Of the rehearsal**: guards.  A proxy dispatches a selector through the one slot that is its own,
  so a script or a call that reverts for another reason does not occur.
- **Slot detection by accept**: it is taken to find each selector's own slot.  A wrong one makes it
  refuse, or compare another selector's slot.
- **The selector a migration's log names** next to each write: verify compares it, and the audit's
  logs here name delegates only.
- **Two commands at once, a torn `josuke.json`**: nothing in the code addresses either.
- **Reorganisations and nodes that lag behind**: every read of a command is taken to be of one
  chain that only grows.
- **Code that comes and goes**: `find_deploy_block` bisects, so `Audit` takes a proxy, once
  deployed, to keep its code.

## 7. Plan

Done, in this order: `Deployment` and `Upgrade` with their environments, `AtomicUpgrade`, `Audit`,
`PostBatch`, `SlotWalk`, `Relay`, `Keystore`; the proofs of section 4; `CheckLedger`,
`StorageLayout`, `SourceTrees`, `StorageCheck`, `Broadcast`, `Bytecode`; then the invariants of
`Upgrade`, `PostBatch`, `Broadcast`, `SlotWalk`, `StorageCheck` and `CheckLedger` and their proofs.

Next to model: `Upgrade`'s broadcast as an abstraction of `Broadcast` (each creation mined, reverted
or lost), checked as a refinement.
