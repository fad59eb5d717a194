---------------------------- MODULE StorageCheck ----------------------------
(***************************************************************************)
(* What `josuke check` promises of a proxy's storage, while deploy, accept *)
(* and governance change what runs on it.  The ledger names the commits a  *)
(* proxy has run; check reads their layouts back from git and compares     *)
(* them with HEAD's.  Every command takes its checkouts from SourceTrees.  *)
(*                                                                         *)
(* A facet's bytecode is what it reads and writes of the storage: two      *)
(* commits whose facet touches the same cells compile to the same address, *)
(* whatever else they declare or call it.                                  *)
(***************************************************************************)
EXTENDS SourceTrees, StorageLayout

CONSTANTS
  Sources,      \* commit |-> its types, and the variables its facets declare and touch
  Projects,     \* sets of commits: a project's history
  Facets,       \* the source ids, in the order of facetSrc
  DEPTH,        \* bound on how deep cells are followed into recursive types
  MaxUpgrades   \* bound on the deploys

ASSUME ProjectsAssumption == UNION Projects = Commits /\ DOMAIN Sources = Commits
ASSUME UpgradesAssumption == DEPTH \in Nat /\ MaxUpgrades \in Nat

ASSUME FacetsAssumption == Facets \in Seq({Facets[i] : i \in DOMAIN Facets})

(* Variables, too, are laid out by solc: those of a source apart.          *)
ASSUME LayoutAssumption ==
  \A c \in Commits :
    LET types == Sources[c].types
        variables == UNION {Sources[c].declares[Facets[i]] : i \in DOMAIN Facets}
    IN  /\ LaidOut(types)
        /\ variables \subseteq [source : {Facets[i] : i \in DOMAIN Facets}, label : STRING, start : Nat, type : DOMAIN types]
        /\ \A v, w \in variables :
             v.source = w.source /\ v.start <= w.start => v = w \/ v.start + types[v.type].size <= w.start

VARIABLES
  project, head,   \* the history, and the commit checked out
  ledger,          \* josuke.json
  live,            \* chain: the commit whose facets the proxy runs
  written,         \* chain: the cells of storage something was written in
  command,         \* the one that runs, its commit, and what it has still to read
  passed,          \* the commit check has just passed, with this ledger
  upgrades         \* bounded by MaxUpgrades

vars == <<project, head, ledger, live, written, command, passed, upgrades, tree_vars>>

FacetIds == {Facets[i] : i \in DOMAIN Facets}
FacetsAt(c) == {f \in FacetIds : Sources[c].declares[f] # {}}
Variables(c, sources) == UNION {Sources[c].declares[f] : f \in sources}

(* storage_layouts of some facets of a commit: with what they import. *)
DeclarationsAt == [c \in Commits |-> [sources \in SUBSET FacetIds |->
  Declarations(Variables(c, sources), Sources[c].types)]]

CellsAt(c, f, labels) ==
  UNION {CellsOf(d, DEPTH) : d \in {d \in DeclarationsAt[c][{f}] : d.label \in labels}}

(* A cell as bytecode and storage know it. *)
Unnamed(cell) == [region |-> cell.region, start |-> cell.start, end |-> cell.end, what |-> cell.what]

Code == [c \in Commits |-> [f \in FacetIds |->
  {Unnamed(cell) : cell \in CellsAt(c, f, Sources[c].touches[f])}]]

(* The addresses commit c installs; none before the first. *)
Installs(c) == IF c = NoCommit THEN {} ELSE {Code[c][f] : f \in FacetsAt(c)}
Routes(c) == IF c = NoCommit THEN {} ELSE {<<f, Code[c][f]>> : f \in FacetsAt(c)}

NotRecorded == [commit |-> NoCommit, sources |-> {}]
Idle == [name |-> "none", commit |-> NoCommit, reading |-> <<>>, failed |-> FALSE, closing |-> FALSE]

Init ==
  /\ project \in Projects /\ head \in project
  /\ \E legacy \in {NotRecorded} \union [commit : project, sources : {{f} : f \in FacetIds}] :
       /\ legacy # NotRecorded => legacy.sources \subseteq FacetsAt(legacy.commit)
       /\ ledger = [legacy |-> legacy, current |-> NoCommit, proposed |-> NoCommit, history |-> {}]
       /\ written = UNION {Code[legacy.commit][f] : f \in legacy.sources}
  /\ live = NoCommit /\ command = Idle /\ passed = NoCommit /\ upgrades = 0
  /\ TreesInit

MoveHead(c) ==
  /\ command = Idle /\ c # head
  /\ head' = c /\ passed' = NoCommit
  /\ UNCHANGED <<project, ledger, live, written, command, upgrades, tree_vars>>

(* Governance runs the migration proposed. *)
Execute ==
  /\ ledger.proposed # NoCommit /\ command.name # "deploy"
  /\ live' = ledger.proposed
  /\ written' = written \union UNION Installs(live')
  /\ UNCHANGED <<project, head, ledger, command, passed, upgrades, tree_vars>>

-----------------------------------------------------------------------------
(* josuke check.                                                           *)

Recorded(c) == IF c = NoCommit THEN {} ELSE {[commit |-> c, sources |-> FacetsAt(c)]}

(* A bug: what was retired is not looked at. *)
RecordedUnretired(entry) ==
  ({entry.legacy} \ {NotRecorded}) \union Recorded(entry.current) \union Recorded(entry.proposed)

(* _recorded_states: all the proxy has run, retired facets by commit. *)
RecordedStates(entry) ==
  ({entry.legacy} \ {NotRecorded}) \union Recorded(entry.current) \union Recorded(entry.proposed)
    \union {[commit |-> r.commit, sources |-> {s.source : s \in {s \in entry.history : s.commit = r.commit}}]
              : r \in entry.history}

Start(name, reading, failed) ==
  /\ command = Idle
  /\ command' = [name |-> name, commit |-> head, reading |-> reading, failed |-> failed, closing |-> FALSE]

(* HEAD's own facets first; then the recorded states, in some order. *)
StartCheck ==
  /\ Start("check", SetToSeq(RecordedStates(ledger)), ~StorageAgrees(DeclarationsAt[head][FacetsAt(head)]))
  /\ passed' = NoCommit
  /\ UNCHANGED <<project, head, ledger, live, written, upgrades, tree_vars>>

(* Baselines.declarations: the SourceTrees are made by the first that needs *)
(* them; the declarations of a commit's sources follow from its tree.      *)
State == Head(command.reading)
DoneReading == command.reading = <<>> \/ (command.failed /\ command.name # "check")

Open ==
  /\ command # Idle /\ ~command.closing /\ ~source_trees.open /\ getting = NotGetting
  /\ command.name = "check" => command.reading # <<>>
  /\ \/ Succeeds /\ \E root_commit \in {head, NoCommit} : OpenTrees(command.name # "check", root_commit)
        /\ UNCHANGED command
     \/ Fails(head) /\ UNCHANGED <<source_trees, getting, worktrees, whole, stuck>>
        /\ command' = IF command.name = "check"
                      THEN [command EXCEPT !.failed = TRUE, !.reading = Tail(@)] ELSE Idle
  /\ UNCHANGED <<project, head, ledger, live, written, passed, upgrades>>

Read ==
  /\ source_trees.open /\ ~command.closing /\ ~DoneReading
  /\ Get(State.commit)
  /\ UNCHANGED <<project, head, ledger, live, written, command, passed, upgrades>>

Work == GetStep /\ UNCHANGED <<project, head, ledger, live, written, command, passed, upgrades>>

(* A tree, or the exception that check notes and the others stop at. *)
Compare ==
  /\ getting.step \in {"got", "failed"} /\ Returned
  /\ LET kept == \/ command.name # "check"
                 \/ StorageKept(DeclarationsAt[State.commit][State.sources], DeclarationsAt[head][FacetsAt(head)])
     IN  command' = [command EXCEPT !.reading = Tail(@), !.failed = @ \/ getting.step = "failed" \/ ~kept]
  /\ UNCHANGED <<project, head, ledger, live, written, passed, upgrades, source_trees, worktrees, whole, stuck, failures>>

Close ==
  /\ command # Idle /\ getting = NotGetting /\ DoneReading
  /\ source_trees.open /\ (RemoveCheckout \/ RemoveFails \/ AllRemoved)
  /\ command' = [command EXCEPT !.closing = TRUE, !.failed = @ \/ stuck' # stuck]
  /\ UNCHANGED <<project, head, ledger, live, written, passed, upgrades>>

Finished(name) ==
  /\ command.name = name /\ DoneReading /\ getting = NotGetting /\ ~source_trees.open
  /\ command.closing \/ name = "check"
  /\ command' = Idle

EndCheck ==
  /\ Finished("check")
  /\ passed' = IF command.failed THEN NoCommit ELSE head
  /\ UNCHANGED <<project, head, ledger, live, written, upgrades, tree_vars>>

-----------------------------------------------------------------------------
(* josuke deploy and josuke accept, as far as storage can tell.            *)

(* Deployed on top of what is accepted: README.md's order. *)
StartDeploy ==
  /\ live = ledger.current /\ upgrades < MaxUpgrades
  /\ Start("deploy", SetToSeq(Recorded(ledger.current)), FALSE)
  /\ upgrades' = upgrades + 1
  /\ UNCHANGED <<project, head, ledger, live, written, passed, tree_vars>>

(* Nothing is proposed when the routes would stay as they are. *)
EndDeploy ==
  /\ Finished("deploy")
  /\ ledger' = IF command.failed THEN ledger
               ELSE [ledger EXCEPT !.proposed =
                       IF Routes(command.commit) = Routes(live) THEN NoCommit ELSE command.commit]
  /\ passed' = NoCommit
  /\ UNCHANGED <<project, head, live, written, upgrades, tree_vars>>

StartAccept ==
  /\ ledger.proposed # NoCommit
  /\ Start("accept", SetToSeq(Recorded(ledger.proposed)) \o SetToSeq(Recorded(ledger.current)), FALSE)
  /\ UNCHANGED <<project, head, ledger, live, written, passed, upgrades, tree_vars>>

(* The entry of an address c installs: the last facet that is there. *)
HistoryEntry(c, address) ==
  LET last == CHOOSE i \in DOMAIN Facets :
                /\ Facets[i] \in FacetsAt(c) /\ Code[c][Facets[i]] = address
                /\ \A j \in DOMAIN Facets : j > i => Facets[j] \notin FacetsAt(c) \/ Code[c][Facets[j]] # address
  IN  [address |-> address, commit |-> c, source |-> Facets[last]]

(* accept moves what its commit no longer installs to `history`. *)
EndAccept ==
  /\ Finished("accept")
  /\ ledger' =
       IF command.failed \/ live # ledger.proposed THEN ledger
       ELSE LET retired == Installs(ledger.current) \ Installs(ledger.proposed)
            IN  [ledger EXCEPT
                   !.current = ledger.proposed, !.proposed = NoCommit,
                   !.history = {r \in @ : r.address \notin retired}
                                 \union {HistoryEntry(ledger.current, a) : a \in retired}]
  /\ passed' = NoCommit
  /\ UNCHANGED <<project, head, live, written, upgrades, tree_vars>>

Next ==
  \/ \E c \in project : MoveHead(c)
  \/ Execute \/ StartCheck \/ StartDeploy \/ StartAccept
  \/ Open \/ Read \/ Work \/ Compare \/ Close
  \/ EndCheck \/ EndDeploy \/ EndAccept

Spec == Init /\ [][Next]_vars

-----------------------------------------------------------------------------
CellsDeclared == [c \in Commits |-> [sources \in SUBSET FacetIds |->
  UNION {CellsOf(d, DEPTH) : d \in DeclarationsAt[c][sources]}]]

(* Where a declaration has the cells of that path.                         *)
PlacesOf(d, path) == {<<cell.region, cell.start>> : cell \in {cell \in CellsOf(d, DEPTH) : cell.path = path}}

(***************************************************************************)
(* When check passes a commit, its facets read back as it is all that any  *)
(* code the proxy ever ran has written, wherever they reach; no two of     *)
(* them see something different in one place; and a variable a recorded    *)
(* state declares is, under its name, still there, with nothing in it      *)
(* somewhere else only.                                                    *)
(***************************************************************************)
StorageReadsBack ==
  passed # NoCommit =>
    LET declared == DeclarationsAt[passed][FacetsAt(passed)]
        cells == CellsDeclared[passed][FacetsAt(passed)]
    IN  /\ \A w \in written, cell \in cells : ReadsAs(w, cell)
        /\ \A a, b \in cells : Meet(a, b) => a = b
        /\ \A state \in RecordedStates(ledger) : \A o \in DeclarationsAt[state.commit][state.sources] :
             LET named == {n \in declared : n.label = o.label}
             IN  named = {} \/ \E n \in named : \A old \in CellsOf(o, DEPTH) :
                   PlacesOf(n, old.path) = {} \/ <<old.region, old.start>> \in PlacesOf(n, old.path)

-----------------------------------------------------------------------------
(* The inductive invariant behind what SourceTrees promises.               *)

Listed(trees) == ToSet(trees.checkouts)

FieldsStay ==
  /\ source_trees = [ open |-> source_trees.open, build |-> source_trees.build,
                      root_commit |-> source_trees.root_commit, root_built |-> source_trees.root_built,
                      checkouts |-> source_trees.checkouts, trees |-> source_trees.trees ]
  /\ source_trees.checkouts \in Seq(Listed(source_trees))
  /\ getting = [commit |-> getting.commit, step |-> getting.step]
  /\ command = [ name |-> command.name, commit |-> command.commit, reading |-> command.reading,
                 failed |-> command.failed, closing |-> command.closing ]

OpenWhileUsed ==
  /\ ~source_trees.open => source_trees = Closed
  /\ getting.step = "idle" => getting = NotGetting
  /\ getting.step # "idle" => source_trees.open

(* What close will remove: the worktrees there are, and any that a get may *)
(* be about to make again.                                                 *)
MadeAreNoted ==
  /\ ~stuck => worktrees \subseteq Listed(source_trees)
  /\ getting.step \in {"clone", "remove", "add_again", "update", "keep"} => getting.commit \in Listed(source_trees)

(* A tree that is kept is complete until close begins, and the one a get   *)
(* works on is not kept yet.                                               *)
KeptAreWhole ==
  /\ ~command.closing => source_trees.trees \subseteq worktrees \intersect whole
  /\ getting.step \in {"add", "clone", "remove", "add_again", "update"} => getting.commit \notin source_trees.trees
  /\ getting.step \in {"clone", "update", "keep"} => getting.commit \in worktrees
  /\ getting.step = "keep" => getting.commit \in whole
  /\ getting.step = "build_root" => getting.commit = source_trees.root_commit

TreesInv == FieldsStay /\ OpenWhileUsed /\ MadeAreNoted /\ KeptAreWhole /\ TreesAreWhole

-----------------------------------------------------------------------------
(* The inductive invariant behind what check promises.                     *)

Kept(state, c) == StorageKept(DeclarationsAt[state.commit][state.sources], DeclarationsAt[c][FacetsAt(c)])

KnownCommits ==
  /\ project \subseteq Commits /\ head \in Commits
  /\ command # Idle => command.commit \in Commits
  /\ command.name = "deploy" => live = ledger.current
  /\ live \in {ledger.current, ledger.proposed}

LedgerNames ==
  /\ ledger = [ legacy |-> ledger.legacy, current |-> ledger.current, proposed |-> ledger.proposed, history |-> ledger.history ]
  /\ ledger.legacy = NotRecorded \/ (ledger.legacy.commit \in Commits /\ ledger.legacy.sources \subseteq FacetIds)
  /\ {ledger.current, ledger.proposed} \subseteq Commits \union {NoCommit}
  /\ IsFiniteSet(ledger.history)
  /\ \A r \in ledger.history : r.commit \in Commits /\ r.source \in FacetIds /\ r.address = Code[r.commit][r.source]

(* The ledger, or what runs, tells that the proxy has run facet f of c.    *)
Tells(c, f) ==
  \/ c = ledger.legacy.commit /\ f \in ledger.legacy.sources
  \/ c \in {ledger.current, live} /\ f \in FacetsAt(c)
  \/ \E r \in ledger.history : r.commit = c /\ r.source = f

WrittenIsTold == \A w \in written : \E c \in Commits, f \in FacetIds : w \in Code[c][f] /\ Tells(c, f)

(* While check runs, each recorded state is kept, or still to be compared. *)
CheckedSoFar ==
  /\ getting.step # "idle" => command.reading # <<>>
  /\ command.name = "check" =>
       /\ command.reading \in Seq(ToSet(command.reading))
       /\ ~command.failed =>
            /\ StorageAgrees(DeclarationsAt[head][FacetsAt(head)])
            /\ \A state \in RecordedStates(ledger) : state \in ToSet(command.reading) \/ Kept(state, head)

PassedIsKept ==
  passed # NoCommit =>
    /\ passed \in Commits
    /\ StorageAgrees(DeclarationsAt[passed][FacetsAt(passed)])
    /\ \A state \in RecordedStates(ledger) : Kept(state, passed)

ReadBackInv == KnownCommits /\ LedgerNames /\ WrittenIsTold /\ CheckedSoFar /\ PassedIsKept
=============================================================================
