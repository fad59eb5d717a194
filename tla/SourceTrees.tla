----------------------------- MODULE SourceTrees -----------------------------
(***************************************************************************)
(* worktree.py: a command's checkouts of recorded commits, each a detached *)
(* git worktree of the user's own repository, where the submodules are     *)
(* cloned from the user's copies and, failing that, from their remotes.    *)
(* A step is one command run, and git or forge may fail in any of them.    *)
(***************************************************************************)
EXTENDS Integers, Sequences

CONSTANTS
  Commits,
  WithSubmodules,   \* the commits that have a .gitmodules
  NoCommit,
  Fragile,          \* bound: the commits for which git and forge may fail
  MaxFailures       \* bound on the commands that fail

ASSUME CommitsAssumption == WithSubmodules \union Fragile \subseteq Commits /\ NoCommit \notin Commits
ASSUME FailuresAssumption == MaxFailures \in Nat

VARIABLES
  source_trees,    \* the SourceTrees of the running command
  getting,         \* the get() in progress: its commit and what it runs next
  worktrees,       \* git: the commits that have a worktree
  whole,           \* git: those whose submodules are all there
  stuck,           \* a `git worktree` of this command failed after its first
  failures         \* bounded by MaxFailures

tree_vars == <<source_trees, getting, worktrees, whole, stuck, failures>>

Closed == [open |-> FALSE, build |-> FALSE, root_commit |-> NoCommit, root_built |-> FALSE, checkouts |-> <<>>, trees |-> {}]
NotGetting == [commit |-> NoCommit, step |-> "idle"]

TreesInit ==
  /\ source_trees = Closed /\ getting = NotGetting
  /\ worktrees = {} /\ whole = {} /\ stuck = FALSE /\ failures = 0

CanFail(commit) == commit \in Fragile /\ failures < MaxFailures
Fails(commit) == CanFail(commit) /\ failures' = failures + 1
Succeeds == UNCHANGED failures

Then(step) == getting' = [getting EXCEPT !.step = step]

(* __init__: the root serves its own commit when it is clean.  The paths   *)
(* are new ones: what an earlier command left is not in their way.         *)
OpenTrees(build, root_commit) ==
  /\ source_trees' = [Closed EXCEPT !.open = TRUE, !.build = build, !.root_commit = root_commit]
  /\ stuck' = FALSE /\ worktrees' = {} /\ whole' = {}
  /\ UNCHANGED getting

(* get: the root, a tree already made, or a new one. *)
Get(commit) ==
  /\ getting.step = "idle"
  /\ getting' = [ commit |-> commit,
                  step   |-> IF commit = source_trees.root_commit
                             THEN IF source_trees.build /\ ~source_trees.root_built THEN "build_root" ELSE "got"
                             ELSE IF commit \in source_trees.trees THEN "got" ELSE "add" ]
  /\ UNCHANGED <<source_trees, worktrees, whole, stuck, failures>>

BuildRoot ==
  /\ getting.step = "build_root"
  /\ \/ Succeeds /\ Then("got") /\ source_trees' = [source_trees EXCEPT !.root_built = TRUE]
     \/ Fails(getting.commit) /\ Then("failed") /\ UNCHANGED source_trees
  /\ UNCHANGED <<worktrees, whole, stuck>>

(* A bug: a checkout is noted for removal only once its tree is complete. *)
CheckoutLate(checkouts, commit) == checkouts

Checkout(checkouts, commit) == Append(checkouts, commit)

(* git worktree add, which refuses a path that is there already. *)
Add ==
  /\ getting.step = "add"
  /\ \/ /\ getting.commit \notin worktrees /\ Succeeds
        /\ worktrees' = worktrees \union {getting.commit}
        /\ source_trees' = [source_trees EXCEPT !.checkouts = Checkout(@, getting.commit)]
        /\ IF getting.commit \in WithSubmodules
           THEN Then("clone") /\ UNCHANGED whole
           ELSE Then("keep") /\ whole' = whole \union {getting.commit}
     \/ /\ getting.commit \in worktrees \/ CanFail(getting.commit)
        /\ failures' = IF getting.commit \in worktrees THEN failures ELSE failures + 1
        /\ Then("failed") /\ UNCHANGED <<source_trees, worktrees, whole>>
  /\ UNCHANGED stuck

(* A bug: the exception of a failed clone is passed over. *)
CloneUnchecked ==
  /\ getting.step = "clone" /\ Then("keep")
  /\ \/ Succeeds /\ whole' = whole \union {getting.commit}
     \/ Fails(getting.commit) /\ UNCHANGED whole
  /\ UNCHANGED <<source_trees, worktrees, stuck>>

(* _clone_submodules; a clone that fails starts the checkout over. *)
Clone ==
  /\ getting.step = "clone"
  /\ \/ Succeeds /\ Then("keep") /\ whole' = whole \union {getting.commit}
     \/ Fails(getting.commit) /\ Then("remove") /\ UNCHANGED whole
  /\ UNCHANGED <<source_trees, worktrees, stuck>>

RemoveIncomplete ==
  /\ getting.step = "remove"
  /\ \/ Succeeds /\ Then("add_again") /\ worktrees' = worktrees \ {getting.commit} /\ UNCHANGED stuck
     \/ Fails(getting.commit) /\ Then("failed") /\ stuck' = TRUE /\ UNCHANGED worktrees
  /\ UNCHANGED <<source_trees, whole>>

AddAgain ==
  /\ getting.step = "add_again"
  /\ \/ Succeeds /\ Then("update") /\ worktrees' = worktrees \union {getting.commit} /\ UNCHANGED stuck
     \/ Fails(getting.commit) /\ Then("failed") /\ stuck' = TRUE /\ UNCHANGED worktrees
  /\ UNCHANGED <<source_trees, whole>>

(* The submodules from their remotes. *)
Update ==
  /\ getting.step = "update"
  /\ \/ Succeeds /\ Then("keep") /\ whole' = whole \union {getting.commit}
     \/ Fails(getting.commit) /\ Then("failed") /\ UNCHANGED whole
  /\ UNCHANGED <<source_trees, worktrees, stuck>>

(* The tree is kept, then built. *)
Keep ==
  /\ getting.step = "keep"
  /\ source_trees' = [source_trees EXCEPT !.trees = @ \union {getting.commit}]
  /\ \/ Succeeds /\ Then("got")
     \/ source_trees.build /\ Fails(getting.commit) /\ Then("failed")
  /\ UNCHANGED <<worktrees, whole, stuck>>

GetStep == BuildRoot \/ Add \/ Clone \/ RemoveIncomplete \/ AddAgain \/ Update \/ Keep

(* The caller has its tree, or handles the exception. *)
Returned == getting' = NotGetting

(* close: one `git worktree remove`; the caller goes on while it succeeds. *)
RemoveCheckout ==
  /\ source_trees.checkouts # <<>>
  /\ LET checkout == Head(source_trees.checkouts)
     IN  /\ checkout \in worktrees /\ Succeeds
         /\ worktrees' = worktrees \ {checkout} /\ whole' = whole \ {checkout}
  /\ source_trees' = [source_trees EXCEPT !.checkouts = Tail(@)]
  /\ UNCHANGED <<getting, stuck>>

(* One that fails leaves the rest, and its exception is the caller's. *)
RemoveFails ==
  /\ source_trees.checkouts # <<>>
  /\ \/ Head(source_trees.checkouts) \notin worktrees /\ Succeeds
     \/ Head(source_trees.checkouts) \in worktrees /\ Fails(Head(source_trees.checkouts))
  /\ source_trees' = Closed /\ stuck' = TRUE
  /\ UNCHANGED <<getting, worktrees, whole>>

AllRemoved ==
  /\ source_trees.open /\ source_trees.checkouts = <<>>
  /\ source_trees' = Closed
  /\ UNCHANGED <<getting, worktrees, whole, stuck, failures>>

-----------------------------------------------------------------------------
(* The tree a command is given is a worktree whose submodules all came,    *)
(* however many clones, removals and updates it took, in whatever order    *)
(* commits are asked for, failed and are asked for again.                  *)
TreesAreWhole ==
  getting.step = "got" /\ getting.commit # source_trees.root_commit =>
    getting.commit \in worktrees \intersect whole

(* A command leaves no worktree of its own in the user's repository, even  *)
(* when a clone, an update or a build failed half way; only a `git worktree` *)
(* that fails itself, after the first one of its checkout, leaves some.    *)
NothingLeftBehind == ~source_trees.open /\ ~stuck => worktrees = {}
=============================================================================
