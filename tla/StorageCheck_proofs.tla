------------------------ MODULE StorageCheck_proofs ------------------------
(***************************************************************************)
(* Proofs about the worktrees that check, deploy and accept make and       *)
(* remove, whatever commits they read and whichever git command fails; and *)
(* about what check promises of storage, for any layouts and histories.    *)
(*                                                                         *)
(* The second goes from a type and its parts, over the places reached from *)
(* two declarations step by step, to their cells; from what _fit compares  *)
(* to what it finds; and then over the steps of the commands.              *)
(***************************************************************************)
EXTENDS StorageCheck, SequenceTheorems, FiniteSetTheorems, WellFoundedInduction, TLAPS

(* Steps that leave a command's trees as they are.                         *)
LEMMA TreesRest ==
  ASSUME TreesInv, UNCHANGED <<source_trees, getting, worktrees, whole>>,
         stuck' = stuck, FieldsStay',
         ~command'.closing => source_trees.trees \subseteq worktrees \intersect whole
  PROVE  TreesInv'
<1>1. /\ source_trees' = source_trees /\ getting' = getting /\ worktrees' = worktrees
      /\ whole' = whole /\ stuck' = stuck
  OBVIOUS
<1>2. OpenWhileUsed' /\ TreesAreWhole'
  BY <1>1 DEF TreesInv, OpenWhileUsed, TreesAreWhole, NotGetting, Closed
<1>3. MadeAreNoted' /\ KeptAreWhole'
  BY <1>1 DEF TreesInv, MadeAreNoted, KeptAreWhole, Listed
<1>4. QED
  BY <1>2, <1>3 DEF TreesInv

(* What Append, Head and Tail do to the checkouts noted.                   *)
LEMMA AppendLists ==
  ASSUME NEW seq, seq \in Seq(ToSet(seq)), NEW c
  PROVE  /\ Append(seq, c) \in Seq(ToSet(Append(seq, c)))
         /\ ToSet(Append(seq, c)) = ToSet(seq) \union {c}
<1> DEFINE set == ToSet(seq)
           all == set \union {c}
           more == Append(seq, c)
<1>1. seq \in Seq(all) /\ c \in all
  <2> HIDE DEF set
  <2>1. seq \in Seq(set)
    BY DEF set
  <2>2. QED
    BY <2>1
<1>2. /\ more \in Seq(all) /\ Len(seq) \in Nat /\ DOMAIN seq = 1 .. Len(seq)
      /\ Len(more) = Len(seq) + 1 /\ DOMAIN more = 1 .. Len(seq) + 1
      /\ \A i \in 1 .. Len(seq) : more[i] = seq[i]
      /\ more[Len(seq) + 1] = c
  <2> HIDE DEF all
  <2>1. QED
    BY <1>1
<1>3. ToSet(more) = all
  <2> HIDE DEF more
  <2>1. \A x \in all : \E i \in DOMAIN more : more[i] = x
    <3> SUFFICES ASSUME NEW x \in all PROVE \E i \in DOMAIN more : more[i] = x
      OBVIOUS
    <3>1. CASE x = c
      BY <1>2, <3>1
    <3>2. CASE x \in set
      <4>1. PICK i \in DOMAIN seq : x = seq[i]
        BY <3>2 DEF ToSet
      <4>2. QED
        BY <1>2, <4>1
    <3>3. QED
      BY <3>1, <3>2
  <2>2. \A i \in DOMAIN more : more[i] \in all
    BY <1>2
  <2>3. QED
    BY <2>1, <2>2 DEF ToSet
<1>4. QED
  BY <1>2, <1>3

LEMMA TailLists ==
  ASSUME NEW seq, seq \in Seq(ToSet(seq)), seq # <<>>
  PROVE  /\ Tail(seq) \in Seq(ToSet(Tail(seq)))
         /\ ToSet(seq) \subseteq ToSet(Tail(seq)) \union {Head(seq)}
<1> DEFINE set == ToSet(seq)
           rest == Tail(seq)
<1>1. /\ rest \in Seq(set) /\ Len(seq) \in Nat \ {0} /\ DOMAIN seq = 1 .. Len(seq) /\ Head(seq) = seq[1]
      /\ Len(rest) = Len(seq) - 1 /\ DOMAIN rest = 1 .. Len(seq) - 1
      /\ \A i \in 1 .. Len(seq) - 1 : rest[i] = seq[i + 1]
  <2> HIDE DEF set
  <2>1. seq \in Seq(set)
    BY DEF set
  <2>2. QED
    BY <2>1
<1> HIDE DEF rest
<1>2. rest \in Seq(ToSet(rest))
  <2> DEFINE left == ToSet(rest)
  <2>1. \A i \in 1 .. Len(rest) : rest[i] \in left
    BY <1>1 DEF ToSet
  <2> HIDE DEF left
  <2>2. rest \in Seq(left)
    BY <1>1, <2>1
  <2>3. QED
    BY <2>2 DEF left
<1>3. \A x \in set : x = Head(seq) \/ x \in ToSet(rest)
  <2> SUFFICES ASSUME NEW j \in 1 .. Len(seq)
               PROVE  seq[j] = Head(seq) \/ seq[j] \in ToSet(rest)
    BY <1>1 DEF ToSet
  <2>1. CASE j = 1
    BY <1>1, <2>1
  <2>2. CASE j # 1
    <3>1. j - 1 \in DOMAIN rest /\ rest[j - 1] = seq[j]
      BY <1>1, <2>2
    <3>2. QED
      BY <3>1 DEF ToSet
  <2>3. QED
    BY <2>1, <2>2
<1>4. QED
  BY <1>2, <1>3 DEF rest

(* What Then leaves of a get.                                              *)
LEMMA ThenIs ==
  ASSUME FieldsStay, NEW step, Then(step)
  PROVE  /\ getting'.commit = getting.commit /\ getting'.step = step
         /\ getting' = [commit |-> getting'.commit, step |-> getting'.step]
<1>1. getting = [commit |-> getting.commit, step |-> getting.step]
  BY DEF FieldsStay
<1>2. getting' = [getting EXCEPT !.step = step]
  BY DEF Then
<1>3. getting' = [commit |-> getting.commit, step |-> step]
  BY <1>1, <1>2
<1>4. QED
  BY <1>3

(* A get that goes no further with the checkout, or not yet.               *)
LEMMA GetHolds ==
  ASSUME TreesInv, source_trees.open, ~command.closing, NEW c, Get(c), command' = command
  PROVE  TreesInv'
<1>1. /\ source_trees' = source_trees /\ worktrees' = worktrees /\ whole' = whole
      /\ stuck' = stuck /\ command' = command
  BY DEF Get
<1> DEFINE step == IF c = source_trees.root_commit
                     THEN IF source_trees.build /\ ~source_trees.root_built THEN "build_root" ELSE "got"
                     ELSE IF c \in source_trees.trees THEN "got" ELSE "add"
<1>2. getting' = [commit |-> c, step |-> step]
  BY DEF Get
<1>3. /\ step \in {"build_root", "got", "add"}
      /\ step = "build_root" => c = source_trees.root_commit
      /\ step = "got" => c = source_trees.root_commit \/ c \in source_trees.trees
      /\ step = "add" => c \notin source_trees.trees
  OBVIOUS
<1> HIDE DEF step
<1>4. getting'.commit = c /\ getting'.step = step /\ getting' = [commit |-> getting'.commit, step |-> getting'.step]
  BY <1>2
<1>5. FieldsStay'
  BY <1>1, <1>4 DEF TreesInv, FieldsStay, Listed
<1>6. OpenWhileUsed'
  BY <1>1, <1>3, <1>4 DEF TreesInv, OpenWhileUsed, Closed
<1>7. MadeAreNoted'
  BY <1>1, <1>3, <1>4 DEF TreesInv, MadeAreNoted, Listed
<1>8. KeptAreWhole'
  BY <1>1, <1>3, <1>4 DEF TreesInv, KeptAreWhole
<1>9. TreesAreWhole'
  BY <1>1, <1>3, <1>4 DEF TreesInv, KeptAreWhole, TreesAreWhole
<1>10. QED
  BY <1>5, <1>6, <1>7, <1>8, <1>9 DEF TreesInv

(* The commands a get runs that neither note a checkout nor keep a tree.    *)
LEMMA InBetween ==
  ASSUME TreesInv, source_trees' = source_trees, command' = command, getting.step # "idle",
         NEW step \in {"got", "failed", "remove", "add_again", "update", "keep"}, Then(step),
         getting.commit \in Listed(source_trees) \/ step \in {"got", "failed"},
         getting.commit \notin source_trees.trees \/ step \in {"got", "failed", "keep"},
         ~stuck' => ~stuck /\ worktrees' \subseteq worktrees \union Listed(source_trees),
         worktrees \ {getting.commit} \subseteq worktrees', whole \subseteq whole',
         ~command.closing /\ getting.commit \in source_trees.trees => getting.commit \in worktrees',
         step \in {"update", "keep"} => getting.commit \in worktrees',
         step = "keep" => getting.commit \in whole',
         step = "got" => getting.commit = source_trees.root_commit
  PROVE  TreesInv'
<1>1. /\ getting'.commit = getting.commit /\ getting'.step = step
      /\ getting' = [commit |-> getting'.commit, step |-> getting'.step]
  BY ThenIs DEF TreesInv
<1>2. FieldsStay'
  BY <1>1 DEF TreesInv, FieldsStay, Listed
<1>3. OpenWhileUsed'
  BY <1>1 DEF TreesInv, OpenWhileUsed, Closed
<1>4. MadeAreNoted'
  <2>1. Listed(source_trees)' = Listed(source_trees)
    BY DEF Listed
  <2>2. QED
    BY <1>1, <2>1 DEF TreesInv, MadeAreNoted
<1>5. KeptAreWhole'
  <2>1. ~command.closing => source_trees.trees \subseteq worktrees' \intersect whole'
    BY DEF TreesInv, KeptAreWhole
  <2>2. QED
    BY <1>1, <2>1 DEF KeptAreWhole
<1>6. TreesAreWhole'
  BY <1>1 DEF TreesAreWhole
<1>7. QED
  BY <1>2, <1>3, <1>4, <1>5, <1>6 DEF TreesInv

LEMMA CloneHolds ==
  ASSUME TreesInv, Clone \/ RemoveIncomplete \/ AddAgain \/ Update, command' = command
  PROVE  TreesInv'
<1> USE DEF TreesInv, MadeAreNoted, KeptAreWhole
<1>1. CASE Clone
  <2>1. Then("keep") \/ Then("remove")
    BY <1>1 DEF Clone
  <2>2. QED
    BY <1>1, <2>1, InBetween DEF Clone
<1>2. CASE RemoveIncomplete
  BY <1>2, InBetween DEF RemoveIncomplete
<1>3. CASE AddAgain
  BY <1>3, InBetween DEF AddAgain
<1>4. CASE Update
  BY <1>4, InBetween DEF Update
<1>5. QED
  BY <1>1, <1>2, <1>3, <1>4

LEMMA BuildRootHolds ==
  ASSUME TreesInv, BuildRoot, command' = command
  PROVE  TreesInv'
<1>1. /\ getting.step = "build_root" /\ getting.commit = source_trees.root_commit
      /\ worktrees' = worktrees /\ whole' = whole /\ stuck' = stuck
  BY DEF BuildRoot, TreesInv, KeptAreWhole
<1>2. CASE Then("failed") /\ source_trees' = source_trees
  BY <1>1, <1>2, InBetween DEF TreesInv, KeptAreWhole
<1>3. CASE Then("got") /\ source_trees' = [source_trees EXCEPT !.root_built = TRUE]
  <2>1. /\ getting'.commit = getting.commit /\ getting'.step = "got"
        /\ getting' = [commit |-> getting'.commit, step |-> getting'.step]
    BY <1>3, ThenIs DEF TreesInv
  <2>2. source_trees' = [ open |-> source_trees.open, build |-> source_trees.build,
                          root_commit |-> source_trees.root_commit, root_built |-> TRUE,
                          checkouts |-> source_trees.checkouts, trees |-> source_trees.trees ]
    <3>1. source_trees = [ open |-> source_trees.open, build |-> source_trees.build,
                           root_commit |-> source_trees.root_commit, root_built |-> source_trees.root_built,
                           checkouts |-> source_trees.checkouts, trees |-> source_trees.trees ]
      BY DEF TreesInv, FieldsStay
    <3>2. QED
      BY <1>3, <3>1
  <2>3. /\ source_trees'.open = source_trees.open /\ source_trees'.root_commit = source_trees.root_commit
        /\ source_trees'.checkouts = source_trees.checkouts /\ source_trees'.trees = source_trees.trees
        /\ source_trees' = [ open |-> source_trees'.open, build |-> source_trees'.build,
                             root_commit |-> source_trees'.root_commit, root_built |-> source_trees'.root_built,
                             checkouts |-> source_trees'.checkouts, trees |-> source_trees'.trees ]
    BY <2>2
  <2>4. Listed(source_trees)' = Listed(source_trees)
    BY <2>3 DEF Listed
  <2>5. FieldsStay'
    BY <2>1, <2>3, <2>4 DEF TreesInv, FieldsStay
  <2>6. OpenWhileUsed'
    BY <1>1, <2>1, <2>3 DEF TreesInv, OpenWhileUsed
  <2>7. MadeAreNoted' /\ KeptAreWhole' /\ TreesAreWhole'
    BY <1>1, <2>1, <2>3, <2>4 DEF TreesInv, MadeAreNoted, KeptAreWhole, TreesAreWhole
  <2>8. QED
    BY <2>5, <2>6, <2>7 DEF TreesInv
<1>4. QED
  BY <1>2, <1>3 DEF BuildRoot

(* A worktree is noted in the step that makes it.                          *)
LEMMA AddHolds ==
  ASSUME TreesInv, Add, command' = command
  PROVE  TreesInv'
<1> DEFINE c == getting.commit
<1>1. getting.step = "add" /\ stuck' = stuck /\ c \notin source_trees.trees
  BY DEF Add, TreesInv, KeptAreWhole
<1>2. CASE Then("failed") /\ UNCHANGED <<source_trees, worktrees, whole>>
  <2>1. source_trees' = source_trees /\ worktrees' = worktrees /\ whole' = whole
    BY <1>2
  <2>2. QED
    BY <1>1, <1>2, <2>1, InBetween DEF TreesInv, KeptAreWhole
<1>3. CASE /\ worktrees' = worktrees \union {c}
           /\ source_trees' = [source_trees EXCEPT !.checkouts = Checkout(@, c)]
           /\ \/ Then("clone") /\ whole' = whole
              \/ Then("keep") /\ whole' = whole \union {c}
  <2>1. /\ getting'.commit = c /\ getting'.step \in {"clone", "keep"}
        /\ getting' = [commit |-> getting'.commit, step |-> getting'.step]
        /\ getting'.step = "keep" => c \in whole'
        /\ whole \subseteq whole'
    BY <1>3, ThenIs DEF TreesInv
  <2> DEFINE more == Append(source_trees.checkouts, c)
  <2>2. source_trees' = [ open |-> source_trees.open, build |-> source_trees.build,
                          root_commit |-> source_trees.root_commit, root_built |-> source_trees.root_built,
                          checkouts |-> more, trees |-> source_trees.trees ]
    <3>1. source_trees = [ open |-> source_trees.open, build |-> source_trees.build,
                           root_commit |-> source_trees.root_commit, root_built |-> source_trees.root_built,
                           checkouts |-> source_trees.checkouts, trees |-> source_trees.trees ]
      BY DEF TreesInv, FieldsStay
    <3>2. source_trees' = [source_trees EXCEPT !.checkouts = more]
      BY <1>3 DEF Checkout
    <3> HIDE DEF more
    <3>3. QED
      BY <3>1, <3>2
  <2>3. more \in Seq(ToSet(more)) /\ ToSet(more) = Listed(source_trees) \union {c}
    <3>1. source_trees.checkouts \in Seq(ToSet(source_trees.checkouts))
      BY DEF TreesInv, FieldsStay, Listed
    <3>2. QED
      BY <3>1, AppendLists DEF Listed
  <2> HIDE DEF more
  <2>4. /\ source_trees'.open = source_trees.open /\ source_trees'.root_commit = source_trees.root_commit
        /\ source_trees'.checkouts = more /\ source_trees'.trees = source_trees.trees
        /\ source_trees' = [ open |-> source_trees'.open, build |-> source_trees'.build,
                             root_commit |-> source_trees'.root_commit, root_built |-> source_trees'.root_built,
                             checkouts |-> source_trees'.checkouts, trees |-> source_trees'.trees ]
    BY <2>2
  <2>5. Listed(source_trees)' = Listed(source_trees) \union {c}
    BY <2>3, <2>4 DEF Listed
  <2>6. source_trees'.checkouts \in Seq(Listed(source_trees)')
    BY <2>3, <2>4 DEF Listed
  <2>7. FieldsStay'
    BY <2>1, <2>4, <2>6 DEF TreesInv, FieldsStay
  <2>8. OpenWhileUsed'
    BY <1>1, <2>1, <2>4 DEF TreesInv, OpenWhileUsed
  <2>9. MadeAreNoted'
    BY <1>1, <1>3, <2>1, <2>5 DEF TreesInv, MadeAreNoted
  <2>10. KeptAreWhole' /\ TreesAreWhole'
    BY <1>1, <1>3, <2>1, <2>4 DEF TreesInv, KeptAreWhole, TreesAreWhole
  <2>11. QED
    BY <2>7, <2>8, <2>9, <2>10 DEF TreesInv
<1>4. QED
  BY <1>2, <1>3 DEF Add

LEMMA KeepHolds ==
  ASSUME TreesInv, Keep, command' = command
  PROVE  TreesInv'
<1> DEFINE c == getting.commit
<1>1. /\ getting.step = "keep" /\ c \in worktrees \intersect whole
      /\ worktrees' = worktrees /\ whole' = whole /\ stuck' = stuck
      /\ source_trees' = [source_trees EXCEPT !.trees = @ \union {c}]
      /\ Then("got") \/ Then("failed")
  BY DEF Keep, TreesInv, KeptAreWhole
<1>2. /\ getting'.commit = c /\ getting'.step \in {"got", "failed"}
      /\ getting' = [commit |-> getting'.commit, step |-> getting'.step]
  BY <1>1, ThenIs DEF TreesInv
<1> DEFINE more == source_trees.trees \union {c}
<1>3. source_trees' = [ open |-> source_trees.open, build |-> source_trees.build,
                        root_commit |-> source_trees.root_commit, root_built |-> source_trees.root_built,
                        checkouts |-> source_trees.checkouts, trees |-> more ]
  <2>1. source_trees = [ open |-> source_trees.open, build |-> source_trees.build,
                         root_commit |-> source_trees.root_commit, root_built |-> source_trees.root_built,
                         checkouts |-> source_trees.checkouts, trees |-> source_trees.trees ]
    BY DEF TreesInv, FieldsStay
  <2>2. source_trees' = [source_trees EXCEPT !.trees = more]
    BY <1>1
  <2> HIDE DEF more
  <2>3. QED
    BY <2>1, <2>2
<1> HIDE DEF more
<1>4. /\ source_trees'.open = source_trees.open /\ source_trees'.root_commit = source_trees.root_commit
      /\ source_trees'.checkouts = source_trees.checkouts /\ source_trees'.trees = more
      /\ source_trees' = [ open |-> source_trees'.open, build |-> source_trees'.build,
                           root_commit |-> source_trees'.root_commit, root_built |-> source_trees'.root_built,
                           checkouts |-> source_trees'.checkouts, trees |-> source_trees'.trees ]
  BY <1>3
<1>5. Listed(source_trees)' = Listed(source_trees)
  BY <1>4 DEF Listed
<1>6. FieldsStay'
  BY <1>2, <1>4, <1>5 DEF TreesInv, FieldsStay
<1>7. OpenWhileUsed'
  BY <1>1, <1>2, <1>4 DEF TreesInv, OpenWhileUsed
<1>8. MadeAreNoted'
  BY <1>1, <1>2, <1>5 DEF TreesInv, MadeAreNoted
<1>9. KeptAreWhole' /\ TreesAreWhole'
  BY <1>1, <1>2, <1>4 DEF TreesInv, KeptAreWhole, TreesAreWhole, more
<1>10. QED
  BY <1>6, <1>7, <1>8, <1>9 DEF TreesInv

(* The caller has its tree or its exception.                               *)
LEMMA ReturnedHolds ==
  ASSUME TreesInv, Returned, UNCHANGED <<source_trees, worktrees, whole, stuck>>,
         command'.closing = command.closing,
         command' = [ name |-> command'.name, commit |-> command'.commit, reading |-> command'.reading,
                      failed |-> command'.failed, closing |-> command'.closing ]
  PROVE  TreesInv'
<1>1. /\ source_trees' = source_trees /\ worktrees' = worktrees /\ whole' = whole /\ stuck' = stuck
      /\ getting' = NotGetting /\ getting'.step = "idle" /\ getting'.commit = NoCommit
  BY DEF Returned, NotGetting
<1>2. FieldsStay'
  BY <1>1 DEF TreesInv, FieldsStay, Listed, NotGetting
<1>3. OpenWhileUsed'
  BY <1>1 DEF TreesInv, OpenWhileUsed, Closed, NotGetting
<1>4. MadeAreNoted'
  BY <1>1 DEF TreesInv, MadeAreNoted, Listed
<1>5. KeptAreWhole' /\ TreesAreWhole'
  BY <1>1 DEF TreesInv, KeptAreWhole, TreesAreWhole
<1>6. QED
  BY <1>2, <1>3, <1>4, <1>5 DEF TreesInv

(* close removes what was noted, one by one, or gives up.                  *)
LEMMA CloseHolds ==
  ASSUME TreesInv, Close
  PROVE  TreesInv'
<1>1. getting = NotGetting /\ getting.step = "idle" /\ source_trees.open
  BY DEF Close, NotGetting
<1>2. /\ command' = [ name |-> command'.name, commit |-> command'.commit, reading |-> command'.reading,
                      failed |-> command'.failed, closing |-> command'.closing ]
      /\ command'.closing = TRUE
  <2> DEFINE failed == command.failed \/ stuck' # stuck
  <2>1. command = [ name |-> command.name, commit |-> command.commit, reading |-> command.reading,
                    failed |-> command.failed, closing |-> command.closing ]
    BY DEF TreesInv, FieldsStay
  <2>2. command' = [command EXCEPT !.closing = TRUE, !.failed = failed]
    BY DEF Close
  <2> HIDE DEF failed
  <2>3. command' = [ name |-> command.name, commit |-> command.commit, reading |-> command.reading,
                     failed |-> failed, closing |-> TRUE ]
    BY <2>1, <2>2
  <2>4. QED
    BY <2>3
<1>3. CASE RemoveCheckout
  <2> DEFINE seq == source_trees.checkouts
             rest == Tail(seq)
  <2>1. /\ seq # <<>> /\ getting' = getting /\ stuck' = stuck
        /\ worktrees' = worktrees \ {Head(seq)}
        /\ source_trees' = [source_trees EXCEPT !.checkouts = rest]
    BY <1>3 DEF RemoveCheckout
  <2>2. source_trees' = [ open |-> source_trees.open, build |-> source_trees.build,
                          root_commit |-> source_trees.root_commit, root_built |-> source_trees.root_built,
                          checkouts |-> rest, trees |-> source_trees.trees ]
    <3>1. source_trees = [ open |-> source_trees.open, build |-> source_trees.build,
                           root_commit |-> source_trees.root_commit, root_built |-> source_trees.root_built,
                           checkouts |-> source_trees.checkouts, trees |-> source_trees.trees ]
      BY DEF TreesInv, FieldsStay
    <3> HIDE DEF rest
    <3>2. QED
      BY <2>1, <3>1
  <2>3. rest \in Seq(ToSet(rest)) /\ Listed(source_trees) \subseteq ToSet(rest) \union {Head(seq)}
    <3>1. seq \in Seq(ToSet(seq))
      BY DEF TreesInv, FieldsStay, Listed
    <3> HIDE DEF seq
    <3>2. QED
      BY <2>1, <3>1, TailLists DEF Listed, seq
  <2> HIDE DEF rest
  <2>4. /\ source_trees'.open = source_trees.open
        /\ source_trees'.checkouts = rest
        /\ source_trees' = [ open |-> source_trees'.open, build |-> source_trees'.build,
                             root_commit |-> source_trees'.root_commit, root_built |-> source_trees'.root_built,
                             checkouts |-> source_trees'.checkouts, trees |-> source_trees'.trees ]
    BY <2>2
  <2>5. Listed(source_trees)' = ToSet(rest)
    BY <2>4 DEF Listed
  <2>6. FieldsStay'
    BY <1>2, <2>1, <2>3, <2>4, <2>5 DEF TreesInv, FieldsStay
  <2>7. OpenWhileUsed'
    BY <1>1, <2>1, <2>4 DEF TreesInv, OpenWhileUsed, NotGetting
  <2>8. MadeAreNoted'
    <3> HIDE DEF seq
    <3>1. QED
      BY <1>1, <2>1, <2>3, <2>5 DEF TreesInv, MadeAreNoted
  <2>9. KeptAreWhole' /\ TreesAreWhole'
    BY <1>1, <1>2, <2>1 DEF KeptAreWhole, TreesAreWhole
  <2>10. QED
    BY <2>6, <2>7, <2>8, <2>9 DEF TreesInv
<1>4. CASE RemoveFails \/ AllRemoved
  <2>1. source_trees' = Closed /\ getting' = getting /\ worktrees' = worktrees
    BY <1>4 DEF RemoveFails, AllRemoved
  <2>2. ~stuck' => worktrees = {}
    <3>1. CASE RemoveFails
      BY <3>1 DEF RemoveFails
    <3>2. CASE AllRemoved
      <4>1. stuck' = stuck /\ source_trees.checkouts = <<>>
        BY <3>2 DEF AllRemoved
      <4>2. Listed(source_trees) = {}
        BY <4>1 DEF Listed, ToSet
      <4>3. QED
        BY <4>1, <4>2 DEF TreesInv, MadeAreNoted
    <3>3. QED
      BY <1>4, <3>1, <3>2
  <2>3. source_trees'.checkouts = <<>> /\ Listed(source_trees)' = {}
    BY <2>1 DEF Closed, Listed, ToSet
  <2>4. source_trees' = [ open |-> source_trees'.open, build |-> source_trees'.build,
                          root_commit |-> source_trees'.root_commit, root_built |-> source_trees'.root_built,
                          checkouts |-> source_trees'.checkouts, trees |-> source_trees'.trees ]
    BY <2>1 DEF Closed
  <2>5. FieldsStay'
    BY <1>2, <2>1, <2>3, <2>4 DEF TreesInv, FieldsStay
  <2>6. OpenWhileUsed'
    BY <1>1, <2>1 DEF OpenWhileUsed, Closed
  <2>7. MadeAreNoted'
    BY <1>1, <2>1, <2>2 DEF MadeAreNoted
  <2>8. KeptAreWhole' /\ TreesAreWhole'
    BY <1>1, <1>2, <2>1 DEF KeptAreWhole, TreesAreWhole
  <2>9. QED
    BY <2>5, <2>6, <2>7, <2>8 DEF TreesInv
<1>5. QED
  BY <1>3, <1>4 DEF Close

(* The paths are new: nothing is left of an earlier command in its way.    *)
LEMMA OpenTreesHolds ==
  ASSUME TreesInv, getting = NotGetting, NEW build, NEW root, OpenTrees(build, root), command' = command
  PROVE  TreesInv'
<1>1. /\ getting' = getting /\ getting.step = "idle" /\ stuck' = FALSE /\ worktrees' = {} /\ whole' = {}
      /\ source_trees' = [Closed EXCEPT !.open = TRUE, !.build = build, !.root_commit = root]
  BY DEF OpenTrees, NotGetting
<1>2. source_trees' = [open |-> TRUE, build |-> build, root_commit |-> root, root_built |-> FALSE,
                       checkouts |-> <<>>, trees |-> {}]
  BY <1>1 DEF Closed
<1>3. /\ source_trees'.open /\ source_trees'.checkouts = <<>> /\ source_trees'.trees = {}
      /\ source_trees' = [ open |-> source_trees'.open, build |-> source_trees'.build,
                           root_commit |-> source_trees'.root_commit, root_built |-> source_trees'.root_built,
                           checkouts |-> source_trees'.checkouts, trees |-> source_trees'.trees ]
  BY <1>2
<1>4. FieldsStay'
  <2>1. source_trees'.checkouts \in Seq(Listed(source_trees)')
    BY <1>3
  <2>2. QED
    BY <1>1, <1>3, <2>1 DEF TreesInv, FieldsStay
<1>5. OpenWhileUsed'
  BY <1>1, <1>3 DEF OpenWhileUsed
<1>6. MadeAreNoted' /\ KeptAreWhole' /\ TreesAreWhole'
  BY <1>1, <1>3 DEF MadeAreNoted, KeptAreWhole, TreesAreWhole
<1>7. QED
  BY <1>4, <1>5, <1>6 DEF TreesInv

(* A change of the command, when no trees are kept that close has begun to *)
(* remove.                                                                 *)
LEMMA OtherCommand ==
  ASSUME TreesInv, UNCHANGED <<source_trees, getting, worktrees, whole, stuck>>,
         command' = [ name |-> command'.name, commit |-> command'.commit, reading |-> command'.reading,
                      failed |-> command'.failed, closing |-> command'.closing ],
         command'.closing = command.closing \/ ~source_trees.open
  PROVE  TreesInv'
<1>1. /\ source_trees' = source_trees /\ getting' = getting /\ worktrees' = worktrees
      /\ whole' = whole /\ stuck' = stuck
  OBVIOUS
<1>2. FieldsStay'
  BY <1>1 DEF TreesInv, FieldsStay, Listed
<1>3. ~command'.closing => source_trees.trees \subseteq worktrees \intersect whole
  <2>1. CASE command'.closing = command.closing
    BY <2>1 DEF TreesInv, KeptAreWhole
  <2>2. CASE ~source_trees.open
    <3>1. source_trees.trees = {}
      BY <2>2 DEF TreesInv, OpenWhileUsed, Closed
    <3>2. QED
      BY <3>1
  <2>3. QED
    BY <2>1, <2>2
<1>4. QED
  BY <1>1, <1>2, <1>3, TreesRest

(* A command that starts has no trees yet, and one that ends has none left. *)
LEMMA StartHolds ==
  ASSUME TreesInv, NEW name, NEW reading, NEW failed, Start(name, reading, failed), UNCHANGED tree_vars
  PROVE  TreesInv'
<1>1. /\ UNCHANGED <<source_trees, getting, worktrees, whole, stuck>>
      /\ command = Idle
      /\ command' = [name |-> name, commit |-> head, reading |-> reading, failed |-> failed, closing |-> FALSE]
  BY DEF Start, tree_vars
<1>2. /\ command'.closing = command.closing
      /\ command' = [ name |-> command'.name, commit |-> command'.commit, reading |-> command'.reading,
                      failed |-> command'.failed, closing |-> command'.closing ]
  BY <1>1 DEF Idle
<1>3. QED
  BY <1>1, <1>2, OtherCommand

LEMMA FinishedHolds ==
  ASSUME TreesInv, NEW name, Finished(name), UNCHANGED tree_vars
  PROVE  TreesInv'
<1>1. /\ UNCHANGED <<source_trees, getting, worktrees, whole, stuck>>
      /\ command' = Idle /\ ~source_trees.open
  BY DEF Finished, tree_vars
<1>2. command' = [ name |-> command'.name, commit |-> command'.commit, reading |-> command'.reading,
                   failed |-> command'.failed, closing |-> command'.closing ]
  BY <1>1 DEF Idle
<1>3. QED
  BY <1>1, <1>2, OtherCommand

LEMMA OpenHolds ==
  ASSUME TreesInv, Open
  PROVE  TreesInv'
<1>1. ~source_trees.open /\ getting = NotGetting
  BY DEF Open
<1>2. CASE \E root \in {head, NoCommit} : OpenTrees(command.name # "check", root) /\ command' = command
  <2> DEFINE build == command.name # "check"
  <2>1. PICK root \in {head, NoCommit} : OpenTrees(build, root) /\ command' = command
    BY <1>2
  <2> HIDE DEF build
  <2>2. QED
    BY <1>1, <2>1, OpenTreesHolds
<1>3. CASE /\ UNCHANGED <<source_trees, getting, worktrees, whole, stuck>>
           /\ command' = IF command.name = "check"
                         THEN [command EXCEPT !.failed = TRUE, !.reading = Tail(@)] ELSE Idle
  <2>1. command' = [ name |-> command'.name, commit |-> command'.commit, reading |-> command'.reading,
                     failed |-> command'.failed, closing |-> command'.closing ]
    <3>1. command = [ name |-> command.name, commit |-> command.commit, reading |-> command.reading,
                      failed |-> command.failed, closing |-> command.closing ]
      BY DEF TreesInv, FieldsStay
    <3> DEFINE rest == Tail(command.reading)
    <3> HIDE DEF rest
    <3>2. \/ command' = [command EXCEPT !.failed = TRUE, !.reading = rest]
          \/ command' = Idle
      BY <1>3 DEF rest
    <3>3. CASE command' = [command EXCEPT !.failed = TRUE, !.reading = rest]
      <4>1. command' = [ name |-> command.name, commit |-> command.commit, reading |-> rest,
                         failed |-> TRUE, closing |-> command.closing ]
        BY <3>1, <3>3
      <4>2. QED
        BY <4>1
    <3>4. CASE command' = Idle
      BY <3>4 DEF Idle
    <3>5. QED
      BY <3>2, <3>3, <3>4
  <2>2. QED
    BY <1>1, <1>3, <2>1, OtherCommand
<1>4. QED
  BY <1>2, <1>3 DEF Open

LEMMA CompareHolds ==
  ASSUME TreesInv, Compare
  PROVE  TreesInv'
<1> DEFINE kept == \/ command.name # "check"
                   \/ StorageKept(DeclarationsAt[State.commit][State.sources], DeclarationsAt[head][FacetsAt(head)])
           rest == Tail(command.reading)
           failed == command.failed \/ getting.step = "failed" \/ ~kept
<1>1. /\ Returned /\ UNCHANGED <<source_trees, worktrees, whole, stuck>>
      /\ command' = [command EXCEPT !.reading = rest, !.failed = failed]
  BY DEF Compare
<1>2. command = [ name |-> command.name, commit |-> command.commit, reading |-> command.reading,
                  failed |-> command.failed, closing |-> command.closing ]
  BY DEF TreesInv, FieldsStay
<1> HIDE DEF rest, failed
<1>3. command' = [ name |-> command.name, commit |-> command.commit, reading |-> rest,
                   failed |-> failed, closing |-> command.closing ]
  BY <1>1, <1>2
<1>4. /\ command'.closing = command.closing
      /\ command' = [ name |-> command'.name, commit |-> command'.commit, reading |-> command'.reading,
                      failed |-> command'.failed, closing |-> command'.closing ]
  BY <1>3
<1>5. QED
  BY <1>1, <1>4, ReturnedHolds

LEMMA AsideHolds ==
  ASSUME TreesInv, UNCHANGED <<command, tree_vars>>
  PROVE  TreesInv'
<1>1. UNCHANGED <<source_trees, getting, worktrees, whole, stuck>> /\ command' = command
  BY DEF tree_vars
<1>2. /\ command'.closing = command.closing
      /\ command' = [ name |-> command'.name, commit |-> command'.commit, reading |-> command'.reading,
                      failed |-> command'.failed, closing |-> command'.closing ]
  BY <1>1 DEF TreesInv, FieldsStay
<1>3. QED
  BY <1>1, <1>2, OtherCommand

(* What a command has checked out is noted and, once kept, complete, in    *)
(* every state, for any projects, facets and failures.                     *)
THEOREM TreesHold == Spec => []TreesInv
<1>1. Init => TreesInv
  <2> SUFFICES ASSUME Init PROVE TreesInv
    OBVIOUS
  <2>1. /\ source_trees = Closed /\ getting = NotGetting /\ worktrees = {} /\ command = Idle
    BY DEF Init, TreesInit
  <2>2. FieldsStay
    BY <2>1 DEF FieldsStay, Closed, NotGetting, Idle
  <2>3. OpenWhileUsed /\ MadeAreNoted /\ KeptAreWhole /\ TreesAreWhole
    BY <2>1 DEF OpenWhileUsed, MadeAreNoted, KeptAreWhole, TreesAreWhole, Closed, NotGetting
  <2>4. QED
    BY <2>2, <2>3 DEF TreesInv
<1>2. TreesInv /\ [Next]_vars => TreesInv'
  <2> SUFFICES ASSUME TreesInv, [Next]_vars PROVE TreesInv'
    OBVIOUS
  <2>1. CASE (\E c \in project : MoveHead(c)) \/ Execute \/ UNCHANGED vars
    <3>1. UNCHANGED <<command, tree_vars>>
      BY <2>1 DEF MoveHead, Execute, vars
    <3>2. QED
      BY <3>1, AsideHolds
  <2>2. CASE StartCheck \/ StartDeploy \/ StartAccept
    <3>1. UNCHANGED tree_vars /\ \E name, reading, failed : Start(name, reading, failed)
      BY <2>2 DEF StartCheck, StartDeploy, StartAccept
    <3>2. QED
      BY <3>1, StartHolds
  <2>3. CASE Open
    BY <2>3, OpenHolds
  <2>4. CASE Read
    <3>1. source_trees.open /\ ~command.closing /\ Get(State.commit) /\ command' = command
      BY <2>4 DEF Read
    <3>2. QED
      BY <3>1, GetHolds
  <2>5. CASE Work
    <3>1. GetStep /\ command' = command
      BY <2>5 DEF Work
    <3>2. QED
      BY <3>1, BuildRootHolds, AddHolds, CloneHolds, KeepHolds DEF GetStep
  <2>6. CASE Compare
    BY <2>6, CompareHolds
  <2>7. CASE Close
    BY <2>7, CloseHolds
  <2>8. CASE EndCheck \/ EndDeploy \/ EndAccept
    <3>1. UNCHANGED tree_vars /\ \E name : Finished(name)
      BY <2>8 DEF EndCheck, EndDeploy, EndAccept
    <3>2. QED
      BY <3>1, FinishedHolds
  <2>9. QED
    BY <2>1, <2>2, <2>3, <2>4, <2>5, <2>6, <2>7, <2>8 DEF Next
<1>3. QED
  BY <1>1, <1>2, PTL DEF Spec

(* Once a command is over, none of its worktrees is left in the user's     *)
(* repository, whichever clone, update or build failed; only a failed      *)
(* `git worktree` leaves some.                                             *)
THEOREM NoWorktreeIsLeft == Spec => []NothingLeftBehind
<1>1. TreesInv => NothingLeftBehind
  <2> SUFFICES ASSUME TreesInv, ~source_trees.open, ~stuck PROVE worktrees = {}
    BY DEF NothingLeftBehind
  <2>1. source_trees.checkouts = <<>>
    BY DEF TreesInv, OpenWhileUsed, Closed
  <2>2. Listed(source_trees) = {}
    BY <2>1 DEF Listed, ToSet
  <2>3. QED
    BY <2>2 DEF TreesInv, MadeAreNoted
<1>2. QED
  BY <1>1, TreesHold, PTL

(* A tree a command is given has all its submodules, however often commits *)
(* are asked for and however many clones and updates failed.               *)
THEOREM NoTreeLacksSubmodules == Spec => []TreesAreWhole
<1>1. TreesInv => TreesAreWhole
  BY DEF TreesInv
<1>2. QED
  BY <1>1, TreesHold, PTL

-----------------------------------------------------------------------------
(* Numbers.                                                                *)

(* Every set of numbers has a least one.                                   *)
LEMMA Least ==
  ASSUME NEW T \in SUBSET Nat, T # {}
  PROVE  \E x \in T : \A y \in T : x <= y
<1>1. PICK x \in T : \A y \in T : <<y, x>> \notin OpToRel(<, Nat)
  BY NatLessThanWellFounded, WFMin, Zenon
<1>2. \A y \in T : y \in Nat /\ x \in Nat
  OBVIOUS
<1>3. \A y \in T : ~(y < x)
  BY <1>1, <1>2, Zenon DEF OpToRel
<1>4. QED
  BY <1>2, <1>3

(* What zero has and each number passes on to the next, every number has.  *)
LEMMA Inductive ==
  ASSUME NEW T \in SUBSET Nat, 0 \in T, \A n \in T : n + 1 \in T
  PROVE  T = Nat
<1> DEFINE rest == Nat \ T
<1>1. SUFFICES ASSUME rest # {} PROVE FALSE
  OBVIOUS
<1>2. PICK x \in rest : \A y \in rest : x <= y
  <2>1. rest \in SUBSET Nat
    OBVIOUS
  <2> HIDE DEF rest
  <2>2. QED
    BY <1>1, <2>1, Least
<1>3. x - 1 \in Nat /\ x - 1 \notin rest
  BY <1>2
<1>4. QED
  BY <1>2, <1>3

(* A function can be iterated from any value.                              *)
Iterates(f, S, G, x) == f \in [Nat -> S] /\ f[0] = x /\ \A n \in Nat : f[n + 1] = G[f[n]]

(* Iterating can be described without recursion, step by step.             *)
LEMMA Iterated ==
  ASSUME NEW S, NEW G, G \in [S -> S], NEW x, x \in S
  PROVE  \E f : Iterates(f, S, G, x)
<1> DEFINE Goes(f, n) == f \in [0 .. n -> S] /\ f[0] = x /\ \A i \in 1 .. n : f[i] = G[f[i - 1]]
           U == {n \in Nat : \E f : Goes(f, n)}
           V == {n \in Nat : \A f, g : \A m, k \in Nat :
                   n <= m /\ n <= k /\ Goes(f, m) /\ Goes(g, k) => f[n] = g[n]}
<1>1. U = Nat
  <2>1. 0 \in U
    <3>1. Goes([i \in 0 .. 0 |-> x], 0)
      OBVIOUS
    <3>2. QED
      BY <3>1
  <2>2. ASSUME NEW n \in U PROVE n + 1 \in U
    <3>1. n \in Nat /\ n + 1 \in Nat
      OBVIOUS
    <3>2. PICK f : Goes(f, n)
      OBVIOUS
    <3> DEFINE g == [i \in 0 .. n + 1 |-> IF i = n + 1 THEN G[f[n]] ELSE f[i]]
    <3>3. \A i \in 0 .. n : f[i] \in S
      BY <3>2
    <3>4. g \in [0 .. n + 1 -> S] /\ g[0] = x
      BY <3>1, <3>2, <3>3
    <3>5. ASSUME NEW i \in 1 .. n + 1 PROVE g[i] = G[g[i - 1]]
      <4>1. CASE i = n + 1
        BY <3>1, <4>1
      <4>2. CASE i # n + 1
        <5>1. i \in 1 .. n /\ i - 1 \in 0 .. n /\ i - 1 # n + 1
          BY <3>1, <4>2
        <5>2. QED
          BY <3>2, <4>2, <5>1
      <4>3. QED
        BY <4>1, <4>2
    <3>6. Goes(g, n + 1)
      BY <3>4, <3>5
    <3> HIDE DEF Goes, g
    <3>7. QED
      BY <3>1, <3>6
  <2> HIDE DEF U
  <2>3. QED
    BY <2>1, <2>2, Inductive DEF U
<1>2. V = Nat
  <2>1. 0 \in V
    OBVIOUS
  <2>2. ASSUME NEW n \in V PROVE n + 1 \in V
    <3>1. n \in Nat /\ n + 1 \in Nat
      OBVIOUS
    <3>2. ASSUME NEW f, NEW g, NEW m \in Nat, NEW k \in Nat, n + 1 <= m, n + 1 <= k, Goes(f, m), Goes(g, k)
          PROVE  f[n + 1] = g[n + 1]
      <4>1. n <= m /\ n <= k /\ n + 1 \in 1 .. m /\ n + 1 \in 1 .. k /\ (n + 1) - 1 = n
        BY <3>1, <3>2
      <4>2. f[n] = g[n]
        <5> HIDE DEF Goes
        <5>1. QED
          BY <3>2, <4>1
      <4>3. QED
        BY <3>2, <4>1, <4>2
    <3> HIDE DEF Goes
    <3>3. QED
      BY <3>1, <3>2
  <2> HIDE DEF V
  <2>3. QED
    BY <2>1, <2>2, Inductive DEF V
<1> DEFINE F(n) == CHOOSE f : Goes(f, n)
           all == [n \in Nat |-> F(n)[n]]
<1>3. \A n \in Nat : Goes(F(n), n)
  <2> HIDE DEF Goes
  <2>1. QED
    BY <1>1
<1>4. ASSUME NEW n \in Nat PROVE F(n + 1)[n] = F(n)[n]
  <2>1. n + 1 \in Nat /\ n <= n + 1 /\ n <= n
    OBVIOUS
  <2>2. \A f, g : Goes(f, n + 1) /\ Goes(g, n) => f[n] = g[n]
    <3> HIDE DEF Goes
    <3>1. QED
      BY <1>2, <2>1
  <2> HIDE DEF Goes, F
  <2>3. QED
    BY <1>3, <2>1, <2>2
<1>5. all \in [Nat -> S]
  <2> HIDE DEF F
  <2>1. QED
    BY <1>3
<1>6. all[0] = x
  <2> HIDE DEF F
  <2>1. QED
    BY <1>3
<1>7. ASSUME NEW n \in Nat PROVE all[n + 1] = G[all[n]]
  <2>1. n + 1 \in Nat /\ n + 1 \in 1 .. n + 1 /\ (n + 1) - 1 = n
    OBVIOUS
  <2> HIDE DEF F
  <2>2. F(n + 1)[n + 1] = G[F(n + 1)[n]]
    BY <1>3, <2>1
  <2>3. QED
    BY <1>4, <2>1, <2>2
<1> HIDE DEF all
<1>8. QED
  BY <1>5, <1>6, <1>7 DEF Iterates

-----------------------------------------------------------------------------
(* Where an array has its elements.                                        *)

(* Products, quotients and remainders, as the provers take them.           *)
LEMMA Multiplied ==
  ASSUME NEW a \in Nat, NEW b \in Nat, a <= b, NEW c \in Nat
  PROVE  a * c \in Nat /\ b * c \in Nat /\ a * c <= b * c
<1>1. b - a \in Nat /\ (b - a) * c \in Nat /\ b * c = a * c + (b - a) * c /\ a * c \in Nat /\ b * c \in Nat
  OBVIOUS
<1>2. QED
  BY <1>1

(* What division leaves.                                                   *)
LEMMA Divided ==
  ASSUME NEW j \in Nat, NEW m \in Nat \ {0}
  PROVE  \E q, r \in Nat : q = j \div m /\ r = j % m /\ r < m /\ m * q \in Nat /\ j = m * q + r
<1>1. PICK q : q = j \div m
  OBVIOUS
<1>2. PICK r : r = j % m
  OBVIOUS
<1>3. j % m = j - m * (j \div m)
  OBVIOUS
<1>4. j \div m \in Nat
  OBVIOUS
<1>5. j % m \in 0 .. m - 1
  OBVIOUS
<1>6. q \in Nat /\ r \in Nat /\ r < m /\ r = j - m * q
  BY <1>1, <1>2, <1>3, <1>4, <1>5
<1>7. m * q \in Nat /\ j = m * q + r
  BY <1>6
<1>8. QED
  BY <1>1, <1>2, <1>6, <1>7

(* Elements do not overlap.                                                *)
LEMMA ElementsApart ==
  ASSUME NEW size \in Nat \ {0}, NEW j \in Nat
  PROVE  /\ Element(size, j) \in Nat
         /\ \A k \in Nat : j < k => Element(size, j) + size <= Element(size, k)
<1>1. CASE size >= SLOT
  <2>1. \A k \in Nat : Element(size, k) = k * size /\ k * size \in Nat
    BY <1>1, SlotAssumption DEF Element
  <2>2. ASSUME NEW k \in Nat, j < k PROVE j * size + size <= k * size
    <3>1. j + 1 \in Nat /\ j + 1 <= k /\ (j + 1) * size = j * size + size
      BY <2>2
    <3>2. QED
      BY <3>1, Multiplied
  <2>3. QED
    BY <2>1, <2>2
<1>2. CASE size < SLOT
  <2> DEFINE m == SLOT \div size
  <2>1. m \in Nat \ {0} /\ m * size <= SLOT
    <3>1. SLOT \in Nat \ {0}
      BY SlotAssumption
    <3>2. PICK q, r \in Nat : q = SLOT \div size /\ r < size /\ size * q \in Nat /\ SLOT = size * q + r
      BY <3>1, Divided
    <3>3. m = q
      BY <3>2
    <3> HIDE DEF m
    <3>4. m # 0
      <4> SUFFICES ASSUME m = 0 PROVE FALSE
        OBVIOUS
      <4>1. size * q = 0
        BY <3>3
      <4>2. QED
        BY <1>2, <3>1, <3>2, <4>1
    <3>5. QED
      BY <3>2, <3>3, <3>4
  <2>2. SLOT \in Nat /\ ~(size >= SLOT)
    BY <1>2, SlotAssumption
  <2>3. \A k \in Nat : Element(size, k) = (k \div m) * SLOT + (k % m) * size
    BY <2>2 DEF Element
  <2> HIDE DEF m
  <2>4. \A k \in Nat : \E q, r \in Nat :
          q = k \div m /\ r = k % m /\ r < m /\ m * q \in Nat /\ k = m * q + r
    BY <2>1, Divided
  <2>5. ASSUME NEW k \in Nat PROVE (k \div m) * SLOT \in Nat /\ (k % m) * size \in Nat
    <3>1. PICK q, r \in Nat : q = k \div m /\ r = k % m
      BY <2>4
    <3>2. q * SLOT \in Nat /\ r * size \in Nat
      BY <2>2
    <3>3. QED
      BY <3>1, <3>2
  <2>6. ASSUME NEW k \in Nat, j < k
        PROVE  (j \div m) * SLOT + (j % m) * size + size <= (k \div m) * SLOT + (k % m) * size
    <3>1. PICK q, r \in Nat : q = j \div m /\ r = j % m /\ r < m /\ m * q \in Nat /\ j = m * q + r
      BY <2>4
    <3>2. PICK u, v \in Nat : u = k \div m /\ v = k % m /\ v < m /\ m * u \in Nat /\ k = m * u + v
      BY <2>4
    <3>5. q \in Nat /\ r \in Nat /\ u \in Nat /\ v \in Nat /\ r < m /\ v < m /\ j = m * q + r /\ k = m * u + v
      BY <3>1, <3>2
    <3>6. r + 1 \in Nat /\ r + 1 <= m /\ (r + 1) * size = r * size + size /\ r * size \in Nat /\ v * size \in Nat
          /\ m * size \in Nat /\ q * SLOT \in Nat /\ u * SLOT \in Nat
      BY <2>1, <2>2, <3>5
    <3>7. q <= u
      <4> SUFFICES ASSUME u < q PROVE FALSE
        BY <3>5
      <4>1. u + 1 \in Nat /\ u + 1 <= q /\ (u + 1) * m = m * u + m /\ q * m = m * q
        BY <2>1, <3>5
      <4>2. (u + 1) * m <= q * m
        BY <2>1, <3>5, <4>1, Multiplied
      <4>3. m * u \in Nat /\ m * q \in Nat
        BY <2>1, <3>5
      <4>4. QED
        BY <2>1, <2>6, <3>5, <4>1, <4>2, <4>3
    <3>8. CASE q = u
      <4>1. m * q \in Nat /\ m * q = m * u
        BY <2>1, <3>5, <3>8
      <4>2. r + 1 <= v
        BY <2>6, <3>5, <4>1
      <4>3. (r + 1) * size <= v * size
        BY <3>5, <3>6, <4>2, Multiplied
      <4>4. QED
        BY <3>1, <3>2, <3>6, <3>8, <4>3
    <3>9. CASE q < u
      <4>1. (r + 1) * size <= m * size
        BY <2>1, <3>5, <3>6, Multiplied
      <4>2. q + 1 \in Nat /\ q + 1 <= u /\ (q + 1) * SLOT = q * SLOT + SLOT
        BY <2>2, <3>5, <3>9
      <4>3. (q + 1) * SLOT <= u * SLOT
        BY <2>2, <3>5, <4>2, Multiplied
      <4>4. QED
        BY <2>1, <2>2, <3>1, <3>2, <3>6, <4>1, <4>2, <4>3
    <3>10. QED
      BY <3>5, <3>7, <3>8, <3>9
  <2>7. QED
    BY <2>3, <2>5, <2>6
<1>3. QED
  BY <1>1, <1>2, SlotAssumption

-----------------------------------------------------------------------------
(* What a type's parts are reached by: a turn is the part and, in an array, *)
(* the element.                                                            *)

(* The turns there are to take in a type; of a dynamic array, as many as PartsAt follows.*)
Taken(t, i, j) ==
  \/ t.kind = "mapping" /\ i = 2 /\ j = 0
  \/ t.kind = "dynamic_array" /\ i = 1 /\ j \in 0 .. 1
  \/ t.kind = "array" /\ i = 1 /\ j \in 0 .. t.length - 1
  \/ t.kind = "struct" /\ i \in 1 .. Len(t.at) /\ j = 0

(* Parts in the room of the type itself, and not hashed away.              *)
Inline(t) == t.kind \in {"array", "struct"}

(* How far into that room, or the hashed one, a turn leads.                *)
Offset(types, t, i, j) ==
  CASE t.kind \in {"array", "dynamic_array"} -> Element(types[t.parts[1]].size, j)
    [] t.kind = "struct"                     -> t.at[i]
    [] OTHER                                 -> 0

(* What a region is hashed with, besides a position.                       *)
Hashed(types, t) == IF t.kind = "mapping" THEN types[t.parts[1]].label ELSE "data"

(* The name a turn adds to the path.                                       *)
NameOf(t, i) ==
  CASE t.kind = "mapping" -> "key"
    [] t.kind = "struct"  -> t.labels[i]
    [] OTHER              -> "element"

(* The place a turn leads to.                                              *)
Child(types, p, i, j) ==
  LET t == types[p.type]
  IN  [ type   |-> t.parts[i],
        region |-> IF Inline(t) THEN p.region ELSE Append(p.region, <<p.start, Hashed(types, t)>>),
        start  |-> (IF Inline(t) THEN p.start ELSE 0) + Offset(types, t, i, j),
        path   |-> Append(p.path, NameOf(t, i)) ]

(* Every label, and the names of parts that have none.                     *)
Names == STRING \union {"address", "key", "element", "data"}

(* Every place there could be, of some types.                              *)
AllPlaces(types) ==
  [type : DOMAIN types, region : Seq(Nat \X Names), start : Nat, path : Seq(Names)]

(* LaidOut, of types as a shape has them.                                  *)
Laid(types) ==
  /\ IsFiniteSet(DOMAIN types)
  /\ \A id \in DOMAIN types :
       LET t == types[id]
           size(i) == types[t.parts[i]].size
       IN  /\ t = [ kind |-> t.kind, size |-> t.size, label |-> t.label, parts |-> t.parts,
                   labels |-> t.labels, at |-> t.at, length |-> t.length ]
           /\ t.kind \in Kinds /\ t.size \in Nat /\ t.size > 0 /\ t.label \in Names /\ t.length \in Nat
           /\ t.parts \in Seq(DOMAIN types) /\ t.labels \in Seq(Names) /\ t.at \in Seq(Nat)
           /\ t.kind = "mapping" => Len(t.parts) = 2 /\ t.size = SLOT
           /\ t.kind \in {"array", "dynamic_array"} => Len(t.parts) = 1
           /\ t.kind = "dynamic_array" => t.size = SLOT
           /\ t.kind = "struct" => Len(t.parts) = Len(t.at) /\ Len(t.labels) = Len(t.at) /\ IsInjective(t.labels)
           /\ t.kind \in {"value", "enum", "function", "bytes"} => Len(t.parts) = 0
           /\ t.kind \notin {"value", "function", "bytes"} => t.label = ""
           /\ t.kind = "array" => \A j \in 0 .. t.length - 1 : Element(size(1), j) + size(1) <= t.size
           /\ t.kind = "struct" =>
                /\ \A i \in DOMAIN t.at : t.at[i] + size(i) <= t.size
                /\ \A i, j \in DOMAIN t.at : i < j => t.at[i] + size(i) <= t.at[j]

(* The places one step from a place, as Places has them.                   *)
Step(types, p) ==
  {[type |-> part.type, region |-> part.region, start |-> part.start, path |-> Append(p.path, part.name)]
     : part \in PartsAt(types, types[p.type], p.region, p.start)}

(* What is known of a type that is laid out.                               *)
LEMMA TypeIs ==
  ASSUME NEW types, Laid(types), NEW id \in DOMAIN types, NEW t, t = types[id]
  PROVE  /\ t.kind \in Kinds /\ t.size \in Nat /\ t.size > 0 /\ t.label \in Names /\ t.length \in Nat
         /\ t.parts \in Seq(DOMAIN types) /\ t.labels \in Seq(Names) /\ t.at \in Seq(Nat)
         /\ t.kind = "mapping" => Len(t.parts) = 2 /\ t.size = SLOT
         /\ t.kind \in {"array", "dynamic_array"} => Len(t.parts) = 1
         /\ t.kind = "dynamic_array" => t.size = SLOT
         /\ t.kind = "struct" => Len(t.parts) = Len(t.at) /\ Len(t.labels) = Len(t.at) /\ IsInjective(t.labels)
         /\ t.kind \in {"value", "enum", "function", "bytes"} => Len(t.parts) = 0
         /\ t.kind \notin {"value", "function", "bytes"} => t.label = ""
BY DEF Laid

(* The parts of a type that hold its turns.                                *)
LEMMA TurnIs ==
  ASSUME NEW types, Laid(types), NEW id \in DOMAIN types, NEW t, t = types[id],
         NEW i, NEW j, Taken(t, i, j)
  PROVE  /\ i \in 1 .. Len(t.parts) /\ i \in Nat /\ j \in Nat /\ t.parts[i] \in DOMAIN types
         /\ t.kind \in {"mapping", "array", "dynamic_array"} => t.parts[1] \in DOMAIN types
         /\ Offset(types, t, i, j) \in Nat /\ NameOf(t, i) \in Names /\ Hashed(types, t) \in Names
<1>1. /\ t.parts \in Seq(DOMAIN types) /\ t.labels \in Seq(Names) /\ t.at \in Seq(Nat) /\ t.length \in Nat
      /\ t.kind = "mapping" => Len(t.parts) = 2
      /\ t.kind \in {"array", "dynamic_array"} => Len(t.parts) = 1
      /\ t.kind = "struct" => Len(t.parts) = Len(t.at) /\ Len(t.labels) = Len(t.at)
  <2>1. t.parts \in Seq(DOMAIN types) /\ t.labels \in Seq(Names) /\ t.at \in Seq(Nat) /\ t.length \in Nat
    BY TypeIs, ZenonT(60)
  <2>2. t.kind = "mapping" => Len(t.parts) = 2
    BY TypeIs, ZenonT(60)
  <2>3. t.kind \in {"array", "dynamic_array"} => Len(t.parts) = 1
    BY TypeIs, ZenonT(60)
  <2>4. t.kind = "struct" => Len(t.parts) = Len(t.at) /\ Len(t.labels) = Len(t.at)
    BY TypeIs, ZenonT(60)
  <2>5. QED
    BY <2>1, <2>2, <2>3, <2>4
<1>2. i \in 1 .. Len(t.parts) /\ i \in Nat /\ j \in Nat
  <2>1. CASE t.kind = "mapping"
    <3>1. i = 2 /\ j = 0 /\ Len(t.parts) = 2
      BY <1>1, <2>1 DEF Taken
    <3>2. QED
      BY <3>1
  <2>2. CASE t.kind = "dynamic_array"
    <3>1. i = 1 /\ j \in 0 .. 1 /\ Len(t.parts) = 1
      BY <1>1, <2>2 DEF Taken
    <3>2. QED
      BY <3>1
  <2>3. CASE t.kind = "array"
    <3>1. i = 1 /\ j \in 0 .. t.length - 1 /\ Len(t.parts) = 1
      BY <1>1, <2>3 DEF Taken
    <3>2. QED
      BY <1>1, <3>1
  <2>4. CASE t.kind = "struct"
    <3>1. i \in 1 .. Len(t.at) /\ j = 0
      BY <2>4 DEF Taken
    <3>2. Len(t.at) \in Nat
      BY <1>1
    <3>3. QED
      BY <1>1, <2>4, <3>1, <3>2
  <2>5. QED
    BY <2>1, <2>2, <2>3, <2>4 DEF Taken
<1>3. t.parts[i] \in DOMAIN types
  BY <1>1, <1>2
<1>4. t.kind \in {"mapping", "array", "dynamic_array"} => t.parts[1] \in DOMAIN types
  BY <1>1
<1>5. Offset(types, t, i, j) \in Nat
  <2>1. CASE t.kind \in {"array", "dynamic_array"}
    <3>1. types[t.parts[1]].size \in Nat \ {0}
      <4>1. PICK part : part = types[t.parts[1]]
        OBVIOUS
      <4>2. part.size \in Nat /\ part.size > 0
        BY <1>4, <2>1, <4>1, TypeIs
      <4>3. QED
        BY <4>1, <4>2
    <3>2. Element(types[t.parts[1]].size, j) \in Nat
      BY <1>2, <3>1, ElementsApart
    <3>3. QED
      BY <2>1, <3>2 DEF Offset
  <2>2. CASE t.kind = "struct"
    <3>1. t.at[i] \in Nat
      BY <1>1, <1>2, <2>2
    <3>2. QED
      BY <2>2, <3>1 DEF Offset
  <2>3. CASE t.kind \notin {"array", "dynamic_array", "struct"}
    BY <2>3 DEF Offset
  <2>4. QED
    BY <2>1, <2>2, <2>3
<1>6. NameOf(t, i) \in Names
  <2>1. CASE t.kind = "struct"
    <3>1. t.labels[i] \in Names
      BY <1>1, <1>2, <2>1
    <3>2. QED
      BY <2>1, <3>1 DEF NameOf
  <2>2. CASE t.kind # "struct"
    BY <2>2 DEF NameOf, Names
  <2>3. QED
    BY <2>1, <2>2
<1>7. Hashed(types, t) \in Names
  <2>1. CASE t.kind = "mapping"
    <3>1. PICK part : part = types[t.parts[1]]
      OBVIOUS
    <3>2. part.label \in Names
      BY <1>4, <2>1, <3>1, TypeIs
    <3>3. QED
      BY <2>1, <3>1, <3>2 DEF Hashed
  <2>2. CASE t.kind # "mapping"
    BY <2>2 DEF Hashed, Names
  <2>3. QED
    BY <2>1, <2>2
<1>8. QED
  BY <1>2, <1>3, <1>4, <1>5, <1>6, <1>7

(* Where a turn leads, by kind.                                            *)
LEMMA ChildIs ==
  ASSUME NEW types, Laid(types), NEW p \in AllPlaces(types), NEW t, t = types[p.type],
         NEW i, NEW j, Taken(t, i, j), NEW c, c = Child(types, p, i, j)
  PROVE  /\ c \in AllPlaces(types) /\ c.type = t.parts[i] /\ c.path = Append(p.path, NameOf(t, i))
         /\ Inline(t) => c.region = p.region /\ c.start = p.start + Offset(types, t, i, j)
         /\ ~Inline(t) => c.region = Append(p.region, <<p.start, Hashed(types, t)>>) /\ c.start = Offset(types, t, i, j)
<1>1. p.type \in DOMAIN types /\ p.region \in Seq(Nat \X Names) /\ p.start \in Nat /\ p.path \in Seq(Names)
  BY DEF AllPlaces
<1>2. /\ t.parts[i] \in DOMAIN types /\ Offset(types, t, i, j) \in Nat /\ NameOf(t, i) \in Names
      /\ Hashed(types, t) \in Names
  BY <1>1, TurnIs
<1> DEFINE region == IF Inline(t) THEN p.region ELSE Append(p.region, <<p.start, Hashed(types, t)>>)
           start == (IF Inline(t) THEN p.start ELSE 0) + Offset(types, t, i, j)
           path == Append(p.path, NameOf(t, i))
<1>3. c = [type |-> t.parts[i], region |-> region, start |-> start, path |-> path]
  BY DEF Child
<1>4. region \in Seq(Nat \X Names) /\ path \in Seq(Names)
  BY <1>1, <1>2
<1>5. start \in Nat
  BY <1>1, <1>2
<1>6. /\ Inline(t) => region = p.region /\ start = p.start + Offset(types, t, i, j)
      /\ ~Inline(t) => region = Append(p.region, <<p.start, Hashed(types, t)>>) /\ start = Offset(types, t, i, j)
  BY <1>2
<1>7. path = Append(p.path, NameOf(t, i))
  OBVIOUS
<1> HIDE DEF region, start, path
<1>8. c \in AllPlaces(types)
  BY <1>2, <1>3, <1>4, <1>5 DEF AllPlaces
<1>9. QED
  BY <1>3, <1>6, <1>7, <1>8

(* The parts of a place are its turns.                                     *)
LEMMA StepIs ==
  ASSUME NEW types, Laid(types), NEW p \in AllPlaces(types), NEW t, t = types[p.type], NEW c
  PROVE  c \in Step(types, p) <=> \E i, j : Taken(t, i, j) /\ c = Child(types, p, i, j)
<1>1. /\ p.type \in DOMAIN types /\ t.kind \in Kinds /\ t.length \in Nat /\ t.parts \in Seq(DOMAIN types)
      /\ t.at \in Seq(Nat) /\ DOMAIN t.parts = 1 .. Len(t.parts)
      /\ t.kind = "struct" => Len(t.parts) = Len(t.at)
  <2>1. p.type \in DOMAIN types
    BY DEF AllPlaces
  <2>2. /\ t.kind \in Kinds /\ t.length \in Nat /\ t.parts \in Seq(DOMAIN types)
        /\ t.at \in Seq(Nat)
        /\ t.kind = "struct" => Len(t.parts) = Len(t.at)
    BY <2>1, TypeIs
  <2>3. DOMAIN t.parts = 1 .. Len(t.parts)
    <3>1. PICK parts : parts = t.parts
      OBVIOUS
    <3>2. parts \in Seq(DOMAIN types)
      BY <2>2, <3>1
    <3>3. QED
      BY <3>1, <3>2
  <2>4. QED
    BY <2>1, <2>2, <2>3
<1> DEFINE size == types[t.parts[1]].size
           hashed(what) == Append(p.region, <<p.start, what>>)
           parts == PartsAt(types, t, p.region, p.start)
           place(part) == [ type |-> part.type, region |-> part.region, start |-> part.start,
                            path |-> Append(p.path, part.name) ]
<1>2. c \in Step(types, p) <=> \E part \in parts : c = place(part)
  BY DEF Step
<1>3. CASE t.kind = "mapping"
  <2>1. parts = {[type |-> t.parts[2], region |-> hashed(types[t.parts[1]].label), start |-> 0, name |-> "key"]}
    BY <1>3 DEF PartsAt
  <2> DEFINE next == [ type |-> t.parts[2], region |-> hashed(types[t.parts[1]].label), start |-> 0,
                       path |-> Append(p.path, "key") ]
             part1 == [ type |-> t.parts[2], region |-> hashed(types[t.parts[1]].label), start |-> 0, name |-> "key" ]
  <2>2. place(part1) = next
    OBVIOUS
  <2>3. Child(types, p, 2, 0) = next
    <3>1. Offset(types, t, 2, 0) = 0 /\ ~Inline(t) /\ NameOf(t, 2) = "key" /\ Hashed(types, t) = types[t.parts[1]].label
      BY <1>3 DEF Offset, Inline, NameOf, Hashed
    <3>2. (IF Inline(t) THEN p.start ELSE 0) + Offset(types, t, 2, 0) = 0
      BY <3>1
    <3>3. QED
      BY <3>1, <3>2 DEF Child
  <2>4. \A i, j : Taken(t, i, j) <=> i = 2 /\ j = 0
    BY <1>3 DEF Taken
  <2>5. parts = {part1}
    BY <2>1
  <2> HIDE DEF parts, place, next, part1
  <2>6. c \in Step(types, p) <=> c = next
    BY <1>2, <2>2, <2>5
  <2>7. Taken(t, 2, 0)
    BY <2>4
  <2>8. QED
    BY <2>3, <2>4, <2>6, <2>7
<1>4. CASE t.kind = "dynamic_array"
  <2> DEFINE next(j) == [ type |-> t.parts[1], region |-> hashed("data"), start |-> 0 + Element(size, j),
                          path |-> Append(p.path, "element") ]
  <2>1. parts = {[type |-> t.parts[1], region |-> hashed("data"), start |-> 0 + Element(size, j), name |-> "element"]
                   : j \in 0 .. 2 - 1}
    BY <1>4 DEF PartsAt
  <2>2. c \in Step(types, p) <=> \E j \in 0 .. 2 - 1 : c = next(j)
    <3> DEFINE part1(j) ==
          [type |-> t.parts[1], region |-> hashed("data"), start |-> 0 + Element(size, j), name |-> "element"]
    <3>1. \A j : place(part1(j)) = next(j)
      OBVIOUS
    <3>2. parts = {part1(j) : j \in 0 .. 2 - 1}
      BY <2>1
    <3> HIDE DEF parts, place, next, part1
    <3>3. QED
      BY <1>2, <3>1, <3>2
  <2>3. \A j : Child(types, p, 1, j) = next(j)
    <3>1. /\ ~Inline(t) /\ NameOf(t, 1) = "element" /\ Hashed(types, t) = "data"
          /\ \A j : Offset(types, t, 1, j) = Element(size, j)
      BY <1>4 DEF Offset, Inline, NameOf, Hashed
    <3>2. QED
      BY <3>1 DEF Child
  <2>4. \A i, j : Taken(t, i, j) <=> i = 1 /\ j \in 0 .. 1
    BY <1>4 DEF Taken
  <2> HIDE DEF next
  <2>5. 2 - 1 = 1
    OBVIOUS
  <2>6. QED
    BY <2>2, <2>3, <2>4, <2>5
<1>5. CASE t.kind = "array"
  <2> DEFINE next(j) == [ type |-> t.parts[1], region |-> p.region, start |-> p.start + Element(size, j),
                          path |-> Append(p.path, "element") ]
  <2>1. parts = {[type |-> t.parts[1], region |-> p.region, start |-> p.start + Element(size, j), name |-> "element"]
                   : j \in 0 .. t.length - 1}
    BY <1>5 DEF PartsAt
  <2>2. c \in Step(types, p) <=> \E j \in 0 .. t.length - 1 : c = next(j)
    <3> DEFINE part1(j) ==
          [type |-> t.parts[1], region |-> p.region, start |-> p.start + Element(size, j), name |-> "element"]
    <3>1. \A j : place(part1(j)) = next(j)
      OBVIOUS
    <3>2. parts = {part1(j) : j \in 0 .. t.length - 1}
      BY <2>1
    <3> HIDE DEF parts, place, next, part1
    <3>3. QED
      BY <1>2, <3>1, <3>2
  <2>3. \A j : Child(types, p, 1, j) = next(j)
    <3>1. /\ Inline(t) /\ NameOf(t, 1) = "element"
          /\ \A j : Offset(types, t, 1, j) = Element(size, j)
      BY <1>5 DEF Offset, Inline, NameOf
    <3>2. QED
      BY <3>1 DEF Child
  <2>4. \A i, j : Taken(t, i, j) <=> i = 1 /\ j \in 0 .. t.length - 1
    BY <1>5 DEF Taken
  <2> HIDE DEF next
  <2>5. QED
    BY <2>2, <2>3, <2>4
<1>6. CASE t.kind = "struct"
  <2> DEFINE next(i) == [ type |-> t.parts[i], region |-> p.region, start |-> p.start + t.at[i],
                          path |-> Append(p.path, t.labels[i]) ]
  <2>1. parts = {[type |-> t.parts[i], region |-> p.region, start |-> p.start + t.at[i], name |-> t.labels[i]]
                   : i \in DOMAIN t.parts}
    BY <1>6 DEF PartsAt
  <2>2. c \in Step(types, p) <=> \E i \in DOMAIN t.parts : c = next(i)
    <3> DEFINE part1(i) ==
          [type |-> t.parts[i], region |-> p.region, start |-> p.start + t.at[i], name |-> t.labels[i]]
    <3>1. \A i : place(part1(i)) = next(i)
      OBVIOUS
    <3>2. parts = {part1(i) : i \in DOMAIN t.parts}
      BY <2>1
    <3> HIDE DEF parts, place, next, part1
    <3>3. QED
      BY <1>2, <3>1, <3>2
  <2>3. \A i : Child(types, p, i, 0) = next(i)
    <3>1. Inline(t) /\ \A i : NameOf(t, i) = t.labels[i] /\ Offset(types, t, i, 0) = t.at[i]
      BY <1>6 DEF Offset, Inline, NameOf
    <3>2. QED
      BY <3>1 DEF Child
  <2>4. \A i, j : Taken(t, i, j) <=> i \in 1 .. Len(t.at) /\ j = 0
    BY <1>6 DEF Taken
  <2> HIDE DEF next
  <2>5. DOMAIN t.parts = 1 .. Len(t.at)
    BY <1>1, <1>6
  <2>6. QED
    BY <2>2, <2>3, <2>4, <2>5
<1>7. CASE t.kind \notin {"mapping", "dynamic_array", "array", "struct"}
  <2>1. parts = {}
    BY <1>7 DEF PartsAt
  <2>2. \A i, j : ~Taken(t, i, j)
    BY <1>7 DEF Taken
  <2> HIDE DEF parts
  <2>3. QED
    BY <1>2, <2>1, <2>2
<1>8. QED
  BY <1>3, <1>4, <1>5, <1>6, <1>7

(* Steps lead to places.                                                   *)
LEMMA StepsStay ==
  ASSUME NEW types, Laid(types), NEW p \in AllPlaces(types)
  PROVE  Step(types, p) \subseteq AllPlaces(types)
<1> SUFFICES ASSUME NEW c \in Step(types, p) PROVE c \in AllPlaces(types)
  OBVIOUS
<1>1. PICK t : t = types[p.type]
  OBVIOUS
<1>2. PICK i, j : Taken(t, i, j) /\ c = Child(types, p, i, j)
  BY <1>1, StepIs
<1>3. QED
  BY <1>1, <1>2, ChildIs

-----------------------------------------------------------------------------
(* The places reached from one: From[n] those n steps away.                *)

(* One step from any of several places.                                    *)
StepAll(types, these) == UNION {Step(types, p) : p \in these}

(* A recursive function, by what its equations say of it.                  *)
From(types, p) ==
  CHOOSE f : /\ f \in [Nat -> SUBSET AllPlaces(types)] /\ f[0] = {p}
             /\ \A n \in Nat : f[n + 1] = StepAll(types, f[n])

(* There is such a function.                                               *)
LEMMA FromIs ==
  ASSUME NEW types, Laid(types), NEW p \in AllPlaces(types)
  PROVE  /\ From(types, p) \in [Nat -> SUBSET AllPlaces(types)] /\ From(types, p)[0] = {p}
         /\ \A n \in Nat : From(types, p)[n + 1] = StepAll(types, From(types, p)[n])
<1> DEFINE all == AllPlaces(types)
           G == [these \in SUBSET all |-> StepAll(types, these)]
<1>1. \A these \in SUBSET all : StepAll(types, these) \subseteq all
  BY StepsStay DEF StepAll
<1>2. G \in [SUBSET all -> SUBSET all]
  <2> HIDE DEF all
  <2>1. QED
    BY <1>1
<1>3. {p} \in SUBSET all
  OBVIOUS
<1>4. \A these \in SUBSET all : G[these] = StepAll(types, these)
  OBVIOUS
<1> DEFINE S == SUBSET all
           root == {p}
<1>5. G \in [S -> S] /\ root \in S
  BY <1>2, <1>3
<1> HIDE DEF G, S, root
<1>6. PICK f : f \in [Nat -> S] /\ f[0] = root /\ \A n \in Nat : f[n + 1] = G[f[n]]
  <2>1. PICK f : Iterates(f, S, G, root)
    BY <1>5, Iterated
  <2>2. QED
    BY <2>1 DEF Iterates
<1>7. \A n \in Nat : f[n] \in SUBSET all
  BY <1>6 DEF S
<1> HIDE DEF all
<1>8. \A n \in Nat : f[n + 1] = StepAll(types, f[n])
  BY <1>4, <1>6, <1>7
<1>9. f \in [Nat -> SUBSET AllPlaces(types)]
  BY <1>6 DEF S, all
<1>10. f[0] = {p}
  BY <1>6 DEF root
<1>11. QED
  BY <1>8, <1>9, <1>10 DEF From

(* The first step comes first: what is n + 1 steps from a place is n from  *)
(* one of its parts.                                                       *)
LEMMA FirstStep ==
  ASSUME NEW types, Laid(types), NEW p \in AllPlaces(types), NEW n \in Nat
  PROVE  From(types, p)[n + 1] = UNION {From(types, c)[n] : c \in Step(types, p)}
<1> DEFINE F(c) == From(types, c)
           U == {m \in Nat : F(p)[m + 1] = UNION {F(c)[m] : c \in Step(types, p)}}
<1>1. Step(types, p) \subseteq AllPlaces(types)
  BY StepsStay
<1>2. \A c \in AllPlaces(types) : F(c)[0] = {c} /\ \A m \in Nat : F(c)[m + 1] = StepAll(types, F(c)[m])
  BY FromIs
<1> HIDE DEF F
<1>3. 0 \in U
  <2>1. F(p)[0 + 1] = StepAll(types, F(p)[0])
    BY <1>2
  <2>2. F(p)[0 + 1] = Step(types, p)
    BY <1>2, <2>1 DEF StepAll
  <2>3. UNION {F(c)[0] : c \in Step(types, p)} = Step(types, p)
    BY <1>1, <1>2
  <2>4. QED
    BY <2>2, <2>3
<1>4. ASSUME NEW m \in U PROVE m + 1 \in U
  <2>1. m \in Nat /\ m + 1 \in Nat /\ F(p)[m + 1] = UNION {F(c)[m] : c \in Step(types, p)}
    OBVIOUS
  <2>2. F(p)[(m + 1) + 1] = StepAll(types, F(p)[m + 1])
    BY <1>2, <2>1
  <2>3. StepAll(types, UNION {F(c)[m] : c \in Step(types, p)}) = UNION {StepAll(types, F(c)[m]) : c \in Step(types, p)}
    BY DEF StepAll
  <2>4. UNION {F(c)[m + 1] : c \in Step(types, p)} = UNION {StepAll(types, F(c)[m]) : c \in Step(types, p)}
    <3>1. \A c \in Step(types, p) : F(c)[m + 1] = StepAll(types, F(c)[m])
      BY <1>1, <1>2, <2>1
    <3>2. QED
      BY <3>1
  <2>5. QED
    BY <2>1, <2>2, <2>3, <2>4
<1>5. U = Nat
  <2> HIDE DEF U
  <2>1. QED
    BY <1>3, <1>4, Inductive DEF U
<1>6. QED
  BY <1>5 DEF F

(* What a declaration reaches, as Places has it.                           *)
Root(d) == [type |-> d.shape.root, region |-> <<>>, start |-> d.start, path |-> <<d.label>>]

(* Places is From the root of a declaration.                               *)
LEMMA PlacesIs ==
  ASSUME NEW d, NEW types, types = d.shape.nodes, Laid(types), Root(d) \in AllPlaces(types), NEW depth \in Nat
  PROVE  Places(d, depth) = From(types, Root(d))[depth]
<1> DEFINE after(f, n) == IF n = 0 THEN {Root(d)} ELSE StepAll(types, f[n - 1])
           A == CHOOSE f : f = [n \in Nat |-> after(f, n)]
           F == From(types, Root(d))
<1>1. F \in [Nat -> SUBSET AllPlaces(types)] /\ F[0] = {Root(d)} /\ \A n \in Nat : F[n + 1] = StepAll(types, F[n])
  BY FromIs
<1>2. F = [n \in Nat |-> after(F, n)]
  <2> HIDE DEF F
  <2>1. ASSUME NEW n \in Nat PROVE F[n] = after(F, n)
    <3>1. CASE n = 0
      BY <1>1, <3>1
    <3>2. CASE n # 0
      <4>1. n - 1 \in Nat /\ (n - 1) + 1 = n
        BY <3>2
      <4>2. F[(n - 1) + 1] = StepAll(types, F[n - 1])
        BY <1>1, <4>1
      <4>3. QED
        BY <3>2, <4>1, <4>2
    <3>3. QED
      BY <3>1, <3>2
  <2> HIDE DEF after
  <2>2. QED
    BY <1>1, <2>1
<1>3. A = [n \in Nat |-> after(A, n)]
  <2> HIDE DEF after, F
  <2>1. \E f : f = [n \in Nat |-> after(f, n)]
    BY <1>2
  <2>2. QED
    BY <2>1
<1>4. Places(d, depth) = A[depth]
  BY DEF Places, StepAll, Step, Root
<1>5. {n \in Nat : A[n] = F[n]} = Nat
  <2> HIDE DEF A, F
  <2> DEFINE U == {n \in Nat : A[n] = F[n]}
  <2>1. 0 \in U
    BY <1>1, <1>3
  <2>2. ASSUME NEW n \in U PROVE n + 1 \in U
    <3>1. n \in Nat /\ n + 1 \in Nat /\ n + 1 # 0 /\ (n + 1) - 1 = n /\ A[n] = F[n]
      OBVIOUS
    <3>2. A[n + 1] = after(A, n + 1)
      <4> HIDE DEF after
      <4>1. QED
        BY <1>3, <3>1
    <3>3. A[n + 1] = StepAll(types, A[n])
      BY <3>1, <3>2
    <3>4. QED
      BY <1>1, <3>1, <3>3
  <2> HIDE DEF U
  <2>3. QED
    BY <2>1, <2>2, Inductive DEF U
<1>6. QED
  BY <1>4, <1>5

-----------------------------------------------------------------------------
(* Where in storage the places reached from one may be: in its room, or in *)
(* a region hashed from a position in it.                                  *)

(* A place of a size in a room, or in a region hashed from within it.      *)
Spans(region, low, high, q, size) ==
  \/ q.region = region /\ low <= q.start /\ q.start + size <= high
  \/ /\ Len(region) < Len(q.region)
     /\ \A i \in 1 .. Len(region) : q.region[i] = region[i]
     /\ low <= q.region[Len(region) + 1][1] /\ q.region[Len(region) + 1][1] < high

(* Places of some sizes that meet.                                         *)
Meeting(p, size, q, other) == p.region = q.region /\ p.start < q.start + other /\ q.start < p.start + size

(* What is in a room is in a larger one.                                   *)
LEMMA SpansMore ==
  ASSUME NEW region, NEW low \in Int, NEW high \in Int, NEW least \in Int, NEW most \in Int, least <= low, high <= most,
         NEW q, q.start \in Nat, q.region \in Seq(Nat \X Names), region \in Seq(Nat \X Names), NEW size \in Nat,
         Spans(region, low, high, q, size)
  PROVE  Spans(region, least, most, q, size)
<1>1. CASE q.region = region /\ low <= q.start /\ q.start + size <= high
  BY <1>1 DEF Spans
<1>2. CASE /\ Len(region) < Len(q.region)
           /\ \A i \in 1 .. Len(region) : q.region[i] = region[i]
           /\ low <= q.region[Len(region) + 1][1] /\ q.region[Len(region) + 1][1] < high
  <2>1. q.region[Len(region) + 1] \in Nat \X Names
    BY <1>2
  <2>2. q.region[Len(region) + 1][1] \in Nat
    BY <2>1
  <2>3. QED
    BY <1>2, <2>2 DEF Spans
<1>3. QED
  BY <1>1, <1>2 DEF Spans

(* Places in rooms apart from each other do not meet.                      *)
LEMMA SpansApart ==
  ASSUME NEW region \in Seq(Nat \X Names), NEW low \in Int, NEW high \in Int, NEW least \in Int, NEW most \in Int,
         high <= least \/ most <= low,
         NEW p, p.start \in Nat, p.region \in Seq(Nat \X Names), NEW size \in Nat, Spans(region, low, high, p, size),
         NEW q, q.start \in Nat, q.region \in Seq(Nat \X Names), NEW other \in Nat, Spans(region, least, most, q, other)
  PROVE  ~Meeting(p, size, q, other)
<1> SUFFICES ASSUME Meeting(p, size, q, other) PROVE FALSE
  OBVIOUS
<1>1. p.region = q.region /\ p.start < q.start + other /\ q.start < p.start + size
  BY DEF Meeting
<1>2. CASE p.region = region
  <2>1. q.region = region
    BY <1>1, <1>2
  <2>2. /\ low <= p.start /\ p.start + size <= high /\ least <= q.start /\ q.start + other <= most
    BY <1>2, <2>1 DEF Spans
  <2>3. QED
    BY <1>1, <2>2
<1>3. CASE p.region # region
  <2>1. /\ Len(region) < Len(p.region)
        /\ low <= p.region[Len(region) + 1][1] /\ p.region[Len(region) + 1][1] < high
        /\ least <= q.region[Len(region) + 1][1] /\ q.region[Len(region) + 1][1] < most
    BY <1>1, <1>3 DEF Spans
  <2>2. p.region[Len(region) + 1] \in Nat \X Names
    BY <2>1
  <2>3. p.region[Len(region) + 1][1] \in Nat
    BY <2>2
  <2>4. QED
    BY <1>1, <2>1, <2>3
<1>4. QED
  BY <1>2, <1>3

(* What lies in a region hashed from one position is in any room there.    *)
Below(region, position, name) == Append(region, <<position, name>>)

(* In a region hashed from a position.                                     *)
Beyond(region, position, name, q) ==
  /\ Len(region) < Len(q.region) /\ \A i \in 1 .. Len(region) : q.region[i] = region[i]
  /\ q.region[Len(region) + 1] = <<position, name>>

(* All of a hashed region lies beyond that position.                       *)
LEMMA SpansHashed ==
  ASSUME NEW region \in Seq(Nat \X Names), NEW position \in Nat, NEW name \in Names, NEW below,
         below = Below(region, position, name),
         NEW low, NEW high, NEW q, q.region \in Seq(Nat \X Names), NEW size, Spans(below, low, high, q, size)
  PROVE  Beyond(region, position, name, q)
<1> DEFINE last == <<position, name>>
<1>1. last \in Nat \X Names
  OBVIOUS
<1> HIDE DEF last
<1>2. below = Append(region, last)
  BY DEF last, Below
<1>3. /\ Len(region) \in Nat /\ Len(below) = Len(region) + 1 /\ below[Len(region) + 1] = last
      /\ \A i \in 1 .. Len(region) : below[i] = region[i]
  BY <1>1, <1>2
<1>4. Len(q.region) \in Nat
  OBVIOUS
<1>5. CASE q.region = below
  <2>1. /\ Len(region) < Len(q.region) /\ \A i \in 1 .. Len(region) : q.region[i] = region[i]
        /\ q.region[Len(region) + 1] = last
    BY <1>3, <1>5
  <2>2. QED
    BY <2>1 DEF last, Beyond
<1>6. CASE Len(below) < Len(q.region) /\ \A i \in 1 .. Len(below) : q.region[i] = below[i]
  <2>1. Len(region) + 1 \in 1 .. Len(below) /\ \A i \in 1 .. Len(region) : i \in 1 .. Len(below)
    BY <1>3
  <2>2. Len(region) < Len(q.region)
    BY <1>3, <1>4, <1>6
  <2>3. /\ \A i \in 1 .. Len(region) : q.region[i] = region[i]
        /\ q.region[Len(region) + 1] = last
    BY <1>3, <1>6, <2>1
  <2>4. QED
    BY <2>2, <2>3 DEF last, Beyond
<1>7. QED
  BY <1>5, <1>6 DEF Spans

-----------------------------------------------------------------------------
(* Pairs of types that go together, from one graph to another: the second  *)
(* has all the parts of the first, where the first has them.               *)

(* Kinds that hold something themselves.                                   *)
Holds(t) == t.kind \notin {"mapping", "array", "struct"}

(* What pairs must have in common for their cells to come out alike.       *)
Covers(old, new, R) ==
  /\ R \subseteq (DOMAIN old) \X (DOMAIN new)
  /\ \A a \in DOMAIN old, b \in DOMAIN new : <<a, b>> \in R =>
       /\ old[a].kind = new[b].kind /\ old[a].label = new[b].label
       /\ \A i \in Nat : i \in DOMAIN old[a].parts /\ i \in DOMAIN new[b].parts =>
            <<old[a].parts[i], new[b].parts[i]>> \in R
       /\ Holds(old[a]) => old[a].size = new[b].size
       /\ old[a].kind \in {"array", "dynamic_array"} =>
            old[old[a].parts[1]].size = new[new[b].parts[1]].size
       /\ old[a].kind = "array" => old[a].length <= new[b].length
       /\ old[a].kind = "struct" =>
            /\ Len(old[a].at) <= Len(new[b].at)
            /\ \A i \in 1 .. Len(old[a].at) : old[a].at[i] = new[b].at[i]

(* The names of members and of what enums list, too.                       *)
Named(old, new, R) ==
  \A a \in DOMAIN old, b \in DOMAIN new : <<a, b>> \in R => old[a].labels = new[b].labels

(* A turn has its room in a type that holds its parts, and turns have      *)
(* rooms apart.                                                            *)
LEMMA TurnsWithin ==
  ASSUME NEW types, Laid(types), NEW id \in DOMAIN types, NEW t, t = types[id],
         NEW i, NEW j, Taken(t, i, j), Inline(t), NEW part, part = types[t.parts[i]]
  PROVE  Offset(types, t, i, j) + part.size <= t.size
<1>1. CASE t.kind = "array"
  <2>1. i = 1 /\ j \in 0 .. t.length - 1
    BY <1>1 DEF Taken
  <2>2. Element(part.size, j) + part.size <= t.size
    BY <1>1, <2>1 DEF Laid
  <2>3. Offset(types, t, i, j) = Element(part.size, j)
    BY <1>1, <2>1 DEF Offset
  <2>4. QED
    BY <2>2, <2>3
<1>2. CASE t.kind = "struct"
  <2>1. i \in 1 .. Len(t.at) /\ t.at \in Seq(Nat)
    BY <1>2, TypeIs DEF Taken
  <2>2. i \in DOMAIN t.at
    <3>1. PICK at : at = t.at
      OBVIOUS
    <3>2. QED
      BY <2>1, <3>1
  <2>3. t.at[i] + part.size <= t.size
    BY <1>2, <2>2 DEF Laid
  <2>4. Offset(types, t, i, j) = t.at[i]
    BY <1>2 DEF Offset
  <2>5. QED
    BY <2>3, <2>4
<1>3. QED
  BY <1>1, <1>2 DEF Inline

(* One turn and another keep apart.                                        *)
LEMMA TurnsApart ==
  ASSUME NEW types, Laid(types), NEW id \in DOMAIN types, NEW t, t = types[id],
         NEW i, NEW j, Taken(t, i, j), NEW part, part = types[t.parts[i]],
         NEW k, NEW l, Taken(t, k, l), NEW other, other = types[t.parts[k]], i # k \/ j # l
  PROVE  \/ Offset(types, t, i, j) + part.size <= Offset(types, t, k, l)
         \/ Offset(types, t, k, l) + other.size <= Offset(types, t, i, j)
<1>1. CASE t.kind \in {"array", "dynamic_array"}
  <2>1. i = 1 /\ k = 1 /\ j # l /\ part = other
    BY <1>1 DEF Taken
  <2>2. j \in Nat /\ l \in Nat /\ t.parts[i] \in DOMAIN types
    BY TurnIs
  <2>3. part.size \in Nat /\ part.size > 0
    BY <2>2, TypeIs
  <2>4. Offset(types, t, i, j) = Element(part.size, j) /\ Offset(types, t, k, l) = Element(part.size, l)
    BY <1>1, <2>1 DEF Offset
  <2>5. PICK size : size = part.size
    OBVIOUS
  <2>6. size \in Nat \ {0}
    BY <2>3, <2>5
  <2>7. j < l => Element(size, j) + size <= Element(size, l)
    BY <2>2, <2>6, ElementsApart
  <2>8. l < j => Element(size, l) + size <= Element(size, j)
    BY <2>2, <2>6, ElementsApart
  <2>9. j < l \/ l < j
    BY <2>1, <2>2
  <2>10. QED
    BY <2>1, <2>4, <2>5, <2>7, <2>8, <2>9
<1>2. CASE t.kind = "struct"
  <2>1. i \in 1 .. Len(t.at) /\ k \in 1 .. Len(t.at) /\ t.at \in Seq(Nat) /\ i # k
    BY <1>2, TypeIs DEF Taken
  <2>2. PICK at : at = t.at
    OBVIOUS
  <2>3. i \in DOMAIN at /\ k \in DOMAIN at /\ i \in Nat /\ k \in Nat /\ (i < k \/ k < i)
    BY <2>1, <2>2
  <2>4. \A x, y \in DOMAIN at : x < y => at[x] + types[t.parts[x]].size <= at[y]
    BY <1>2, <2>2 DEF Laid
  <2>5. Offset(types, t, i, j) = at[i] /\ Offset(types, t, k, l) = at[k]
    BY <1>2, <2>2 DEF Offset
  <2>6. QED
    BY <2>3, <2>4, <2>5
<1>3. CASE t.kind = "mapping"
  BY <1>3 DEF Taken
<1>4. QED
  BY <1>1, <1>2, <1>3 DEF Taken

(* A turn of the first of a pair is one of the second, and leads to a pair. *)
LEMMA TurnCarries ==
  ASSUME NEW old, Laid(old), NEW new, Laid(new), NEW R, Covers(old, new, R),
         NEW a, NEW b, <<a, b>> \in R, NEW s, s = old[a], NEW t, t = new[b],
         NEW i, NEW j, Taken(s, i, j)
  PROVE  /\ a \in DOMAIN old /\ b \in DOMAIN new /\ s.kind = t.kind
         /\ Taken(t, i, j) /\ Offset(new, t, i, j) = Offset(old, s, i, j)
         /\ Hashed(new, t) = Hashed(old, s) /\ <<s.parts[i], t.parts[i]>> \in R
         /\ s.labels = t.labels => NameOf(s, i) = NameOf(t, i)
<1>1. a \in DOMAIN old /\ b \in DOMAIN new
  BY DEF Covers
<1>2. /\ s.kind = t.kind
      /\ \A x \in Nat : x \in DOMAIN s.parts /\ x \in DOMAIN t.parts => <<s.parts[x], t.parts[x]>> \in R
      /\ s.kind \in {"array", "dynamic_array"} => old[s.parts[1]].size = new[t.parts[1]].size
      /\ s.kind = "array" => s.length <= t.length
      /\ s.kind = "struct" =>
            /\ Len(s.at) <= Len(t.at)
            /\ \A x \in 1 .. Len(s.at) : s.at[x] = t.at[x]
  BY <1>1 DEF Covers
<1>3. /\ s.length \in Nat /\ t.length \in Nat /\ s.at \in Seq(Nat) /\ t.at \in Seq(Nat)
      /\ s.parts \in Seq(DOMAIN old) /\ t.parts \in Seq(DOMAIN new)
  BY <1>1, TypeIs
<1>4. Taken(t, i, j)
  <2>1. Len(s.at) \in Nat /\ Len(t.at) \in Nat
    BY <1>3
  <2>2. CASE s.kind = "struct"
    <3>1. i \in 1 .. Len(s.at) /\ j = 0
      BY <2>2 DEF Taken
    <3>2. i \in 1 .. Len(t.at)
      BY <1>2, <2>1, <2>2, <3>1
    <3>3. QED
      BY <1>2, <2>2, <3>1, <3>2 DEF Taken
  <2>3. CASE s.kind = "array"
    <3>1. i = 1 /\ j \in 0 .. s.length - 1
      BY <2>3 DEF Taken
    <3>2. j \in 0 .. t.length - 1
      BY <1>2, <1>3, <2>3, <3>1
    <3>3. QED
      BY <1>2, <2>3, <3>1, <3>2 DEF Taken
  <2>4. CASE s.kind \notin {"array", "struct"}
    BY <1>2, <2>4 DEF Taken
  <2>5. QED
    BY <2>2, <2>3, <2>4
<1>5. i \in Nat /\ i \in DOMAIN s.parts /\ i \in DOMAIN t.parts
  <2>1. i \in 1 .. Len(s.parts) /\ i \in 1 .. Len(t.parts) /\ i \in Nat
    BY <1>1, <1>4, TurnIs
  <2>2. PICK x : x = s.parts
    OBVIOUS
  <2>3. PICK y : y = t.parts
    OBVIOUS
  <2>4. QED
    BY <1>3, <2>1, <2>2, <2>3
<1>6. Offset(new, t, i, j) = Offset(old, s, i, j)
  <2>1. CASE s.kind = "struct"
    <3>1. i \in 1 .. Len(s.at)
      BY <2>1 DEF Taken
    <3>2. QED
      BY <1>2, <2>1, <3>1 DEF Offset
  <2>2. CASE s.kind # "struct"
    BY <1>2, <2>2 DEF Offset
  <2>3. QED
    BY <2>1, <2>2
<1>7. Hashed(new, t) = Hashed(old, s)
  <2>1. CASE s.kind = "mapping"
    <3>1. Len(s.parts) = 2 /\ Len(t.parts) = 2
      <4>1. s.kind = "mapping" => Len(s.parts) = 2 /\ s.size = SLOT
        BY <1>1, TypeIs
      <4>2. t.kind = "mapping" => Len(t.parts) = 2 /\ t.size = SLOT
        BY <1>1, TypeIs
      <4>3. QED
        BY <1>2, <2>1, <4>1, <4>2
    <3>2. 1 \in DOMAIN s.parts /\ 1 \in DOMAIN t.parts
      <4>1. PICK x : x = s.parts
        OBVIOUS
      <4>2. PICK y : y = t.parts
        OBVIOUS
      <4>3. QED
        BY <1>3, <3>1, <4>1, <4>2
    <3>3. <<s.parts[1], t.parts[1]>> \in R
      BY <1>2, <3>2
    <3>4. s.parts[1] \in DOMAIN old /\ t.parts[1] \in DOMAIN new
      BY <3>3 DEF Covers
    <3>5. old[s.parts[1]].label = new[t.parts[1]].label
      BY <3>3, <3>4 DEF Covers
    <3>6. QED
      BY <1>2, <2>1, <3>5 DEF Hashed
  <2>2. CASE s.kind # "mapping"
    BY <1>2, <2>2 DEF Hashed
  <2>3. QED
    BY <2>1, <2>2
<1>8. s.labels = t.labels => NameOf(s, i) = NameOf(t, i)
  BY <1>2 DEF NameOf
<1>9. QED
  BY <1>1, <1>2, <1>4, <1>5, <1>6, <1>7, <1>8

(* What is in the room of a place of that size. *)
InRoom(region, position, size, q, other) == Spans(region, position, position + size, q, other)

(* What is held n steps from the first of a pair lies in the second's room. *)
WithinAt(old, new, R, n) ==
  \A p \in AllPlaces(old), b \in DOMAIN new : <<p.type, b>> \in R =>
    \A q \in From(old, p)[n] : Holds(old[q.type]) =>
      InRoom(p.region, p.start, new[b].size, q, old[q.type].size)

(* A child lies in its place's room, and so does what lies in the child's. *)
Placed(types, t, i, j, region, position, below, start, name) ==
  /\ Inline(t) => below = region /\ start = position + Offset(types, t, i, j)
  /\ ~Inline(t) => below = Below(region, position, name)

(* In a region further down.                                               *)
Longer(region, q) == Len(region) < Len(q.region)

(* What ChildSpans is about: something in the room of a turn.              *)
Inside(types, b, t, i, j, part, region, position, below, start, name, q, size) ==
  /\ b \in DOMAIN types /\ t = types[b] /\ Taken(t, i, j) /\ part = types[t.parts[i]]
  /\ region \in Seq(Nat \X Names) /\ position \in Nat /\ start \in Nat /\ name \in Names
  /\ Placed(types, t, i, j, region, position, below, start, name)
  /\ q.start \in Nat /\ q.region \in Seq(Nat \X Names) /\ size \in Nat
  /\ InRoom(below, start, part.size, q, size)

(* What is in the room of a turn is in the room of its type.               *)
LEMMA ChildSpans ==
  ASSUME NEW types, Laid(types), NEW b, NEW t, NEW i, NEW j, NEW part, NEW region, NEW position, NEW below,
         NEW start, NEW name, NEW q, NEW size,
         Inside(types, b, t, i, j, part, region, position, below, start, name, q, size)
  PROVE  /\ InRoom(region, position, t.size, q, size)
         /\ ~Inline(t) => Longer(region, q)
<1>1. /\ b \in DOMAIN types /\ t = types[b] /\ Taken(t, i, j) /\ part = types[t.parts[i]]
      /\ region \in Seq(Nat \X Names) /\ position \in Nat /\ start \in Nat /\ name \in Names
      /\ Placed(types, t, i, j, region, position, below, start, name)
      /\ q.start \in Nat /\ q.region \in Seq(Nat \X Names) /\ size \in Nat
      /\ InRoom(below, start, part.size, q, size)
  BY DEF Inside
<1>2. PICK room, most : room = part.size /\ most = t.size
  OBVIOUS
<1>3. t.parts[i] \in DOMAIN types
  BY <1>1, TurnIs
<1>4. room \in Nat /\ most \in Nat
  BY <1>1, <1>2, <1>3, TypeIs
<1>5. most > 0
  BY <1>1, <1>2, TypeIs
<1> DEFINE high == start + room
           top == position + most
<1>6. Spans(below, start, high, q, size)
  BY <1>1, <1>2 DEF InRoom
<1>7. CASE Inline(t)
  <2>1. Offset(types, t, i, j) + room <= most /\ Offset(types, t, i, j) \in Nat
    BY <1>7, <1>1, <1>2, TurnsWithin, TurnIs
  <2>2. PICK offset \in Nat : offset = Offset(types, t, i, j)
    BY <2>1
  <2>3. start = position + offset /\ offset + room <= most /\ below = region
    BY <1>7, <1>1, <2>1, <2>2 DEF Placed
  <2>4. position \in Int /\ start \in Int /\ high \in Int /\ top \in Int /\ position <= start /\ high <= top
    <3>1. start = position + offset /\ offset + room <= most
      BY <2>3
    <3>2. position <= start
      BY <1>1, <1>4, <3>1
    <3>3. start + room <= position + most
      <4>1. start + room = position + (offset + room)
        BY <1>1, <1>4, <3>1
      <4>2. PICK further \in Nat : further = offset + room
        BY <1>1, <1>4, <2>2
      <4>3. further <= most
        BY <1>4, <3>1, <4>2
      <4>4. position + further <= position + most
        BY <1>1, <1>4, <4>3
      <4>5. QED
        BY <4>1, <4>2, <4>4
    <3>4. position \in Int /\ start \in Int /\ high \in Int /\ top \in Int
      BY <1>1, <1>4
    <3>5. QED
      BY <3>2, <3>3, <3>4
  <2>5. Spans(region, start, high, q, size)
    BY <1>6, <2>3
  <2> HIDE DEF high, top
  <2>6. Spans(region, position, top, q, size)
    BY <1>1, <2>4, <2>5, SpansMore
  <2>7. QED
    BY <1>7, <1>2, <2>6 DEF top, InRoom
<1>8. CASE ~Inline(t)
  <2>1. below = Below(region, position, name) /\ Spans(below, start, high, q, size)
    BY <1>8, <1>6, <1>1 DEF Placed
  <2> HIDE DEF high
  <2>2. Beyond(region, position, name, q)
    BY <1>1, <2>1, SpansHashed
  <2>3. /\ Len(region) < Len(q.region) /\ \A x \in 1 .. Len(region) : q.region[x] = region[x]
        /\ q.region[Len(region) + 1][1] = position
    BY <2>2 DEF Beyond
  <2>4. position < top
    BY <1>5, <1>1, <1>4
  <2>5. position <= position
    BY <1>1
  <2>6. Spans(region, position, top, q, size)
    BY <2>3, <2>4, <2>5 DEF Spans
  <2>7. Longer(region, q)
    BY <2>3 DEF Longer
  <2> HIDE DEF top
  <2>8. QED
    BY <1>2, <2>6, <2>7 DEF top, InRoom
<1>9. QED
  BY <1>7, <1>8

(* The turns of a place, and what is held beyond them.                     *)
Follows(old, new, R, p, b, i, j, c, q, n) ==
  /\ p \in AllPlaces(old) /\ b \in DOMAIN new /\ <<p.type, b>> \in R
  /\ Taken(old[p.type], i, j) /\ c = Child(old, p, i, j)
  /\ n \in Nat /\ q \in From(old, c)[n] /\ Holds(old[q.type])

(* What is reached over a turn is in the room of the place it starts from. *)
LEMMA ChildHolds ==
  ASSUME NEW old, Laid(old), NEW new, Laid(new), NEW R, Covers(old, new, R),
         NEW p, NEW b, NEW i, NEW j, NEW c, NEW q, NEW n,
         Follows(old, new, R, p, b, i, j, c, q, n), WithinAt(old, new, R, n)
  PROVE  /\ InRoom(p.region, p.start, new[b].size, q, old[q.type].size)
         /\ InRoom(c.region, c.start, new[new[b].parts[i]].size, q, old[q.type].size)
         /\ ~Inline(new[b]) => Longer(p.region, q)
         /\ c \in AllPlaces(old) /\ q \in AllPlaces(old) /\ old[q.type].size \in Nat
<1>1. /\ p \in AllPlaces(old) /\ b \in DOMAIN new /\ <<p.type, b>> \in R
      /\ Taken(old[p.type], i, j) /\ c = Child(old, p, i, j)
      /\ n \in Nat /\ q \in From(old, c)[n] /\ Holds(old[q.type])
  BY DEF Follows
<1>2. p.type \in DOMAIN old /\ p.start \in Nat /\ p.region \in Seq(Nat \X Names)
  BY <1>1 DEF AllPlaces
<1>3. PICK s, t : s = old[p.type] /\ t = new[b]
  OBVIOUS
<1>4. Taken(s, i, j) /\ c = Child(old, p, i, j)
  BY <1>1, <1>3
<1>5. PICK a : a = p.type
  OBVIOUS
<1>6. /\ Taken(t, i, j) /\ Offset(new, t, i, j) = Offset(old, s, i, j) /\ s.kind = t.kind
      /\ Hashed(new, t) = Hashed(old, s) /\ <<s.parts[i], t.parts[i]>> \in R
  BY <1>1, <1>3, <1>4, <1>5, TurnCarries
<1>7. /\ c \in AllPlaces(old) /\ c.type = s.parts[i]
      /\ Inline(s) => c.region = p.region /\ c.start = p.start + Offset(old, s, i, j)
      /\ ~Inline(s) => c.region = Append(p.region, <<p.start, Hashed(old, s)>>) /\ c.start = Offset(old, s, i, j)
  BY <1>1, <1>3, <1>4, ChildIs
<1>8. t.parts[i] \in DOMAIN new /\ Hashed(new, t) \in Names
  BY <1>1, <1>3, <1>6, TurnIs
<1>9. PICK part : part = new[t.parts[i]]
  OBVIOUS
<1>10. PICK size : size = old[q.type].size
  OBVIOUS
<1>11. InRoom(c.region, c.start, part.size, q, size)
  BY <1>1, <1>6, <1>7, <1>8, <1>9, <1>10 DEF WithinAt
<1>12. q \in AllPlaces(old)
  BY <1>1, <1>7, FromIs
<1>13. q.type \in DOMAIN old /\ q.start \in Nat /\ q.region \in Seq(Nat \X Names) /\ c.start \in Nat
  BY <1>7, <1>12 DEF AllPlaces
<1>14. size \in Nat
  <2>1. PICK z : z = old[q.type]
    OBVIOUS
  <2>2. z.size \in Nat
    BY <1>13, <2>1, TypeIs
  <2>3. QED
    BY <1>10, <2>1, <2>2
<1>15. PICK name : name = Hashed(new, t)
  OBVIOUS
<1>16. name \in Names
  BY <1>8, <1>15
<1>17. PICK region, position : region = p.region /\ position = p.start
  OBVIOUS
<1>18. PICK below, start : below = c.region /\ start = c.start
  OBVIOUS
<1>19. Placed(new, t, i, j, region, position, below, start, name)
  BY <1>6, <1>7, <1>15, <1>17, <1>18 DEF Inline, Below, Placed
<1>20. region \in Seq(Nat \X Names) /\ position \in Nat /\ start \in Nat
  BY <1>2, <1>13, <1>17, <1>18
<1>21. Inside(new, b, t, i, j, part, region, position, below, start, name, q, size)
  BY <1>1, <1>3, <1>6, <1>9, <1>11, <1>13, <1>14, <1>16, <1>18, <1>19, <1>20 DEF Inside
<1>22. InRoom(region, position, t.size, q, size) /\ (~Inline(t) => Longer(region, q))
  BY <1>21, ChildSpans
<1>23. QED
  BY <1>3, <1>7, <1>9, <1>10, <1>11, <1>12, <1>14, <1>17, <1>22

(* By induction on the steps: all that is held is in the room.             *)
LEMMA Within ==
  ASSUME NEW old, Laid(old), NEW new, Laid(new), NEW R, Covers(old, new, R), NEW n \in Nat
  PROVE  WithinAt(old, new, R, n)
<1> DEFINE U == {m \in Nat : WithinAt(old, new, R, m)}
<1>1. 0 \in U
  <2>1. SUFFICES ASSUME NEW p \in AllPlaces(old), NEW b \in DOMAIN new, <<p.type, b>> \in R,
                        NEW q \in From(old, p)[0], Holds(old[q.type])
                 PROVE  InRoom(p.region, p.start, new[b].size, q, old[q.type].size)
    BY DEF WithinAt
  <2>2. q = p
    BY <2>1, FromIs
  <2>3. p.type \in DOMAIN old /\ p.start \in Nat
    BY DEF AllPlaces
  <2>4. old[p.type].size = new[b].size
    BY <2>1, <2>2, <2>3 DEF Covers
  <2>5. PICK t : t = new[b]
    OBVIOUS
  <2>6. t.size \in Nat
    BY <2>1, <2>5, TypeIs
  <2>7. QED
    BY <2>2, <2>3, <2>4, <2>5, <2>6 DEF Spans, InRoom
<1>2. ASSUME NEW m \in U PROVE m + 1 \in U
  <2>1. m \in Nat /\ WithinAt(old, new, R, m)
    OBVIOUS
  <2>2. SUFFICES ASSUME NEW p \in AllPlaces(old), NEW b \in DOMAIN new, <<p.type, b>> \in R,
                        NEW q \in From(old, p)[m + 1], Holds(old[q.type])
                 PROVE  InRoom(p.region, p.start, new[b].size, q, old[q.type].size)
    BY <2>1 DEF WithinAt
  <2>3. PICK c \in Step(old, p) : q \in From(old, c)[m]
    BY <2>1, FirstStep
  <2>4. PICK s, a : s = old[p.type] /\ a = p.type
    OBVIOUS
  <2>5. PICK i, j : Taken(s, i, j) /\ c = Child(old, p, i, j)
    BY <2>4, StepIs
  <2>6. Follows(old, new, R, p, b, i, j, c, q, m)
    BY <2>1, <2>2, <2>3, <2>4, <2>5 DEF Follows
  <2>7. QED
    BY <2>1, <2>6, ChildHolds
<1>3. U = Nat
  <2> HIDE DEF U
  <2>1. QED
    BY <1>1, <1>2, Inductive DEF U
<1>4. QED
  BY <1>3

(* A graph covers itself.                                                  *)
Same(types) == {<<id, id>> : id \in DOMAIN types}

(* Each type goes with itself.                                             *)
LEMMA SameCovers ==
  ASSUME NEW types, Laid(types)
  PROVE  Covers(types, types, Same(types)) /\ Named(types, types, Same(types))
<1>1. Same(types) \subseteq (DOMAIN types) \X (DOMAIN types)
  BY DEF Same
<1>2. \A a, b : <<a, b>> \in Same(types) => a = b
  BY DEF Same
<1>3. ASSUME NEW a \in DOMAIN types, NEW i \in Nat, i \in DOMAIN types[a].parts
      PROVE  <<types[a].parts[i], types[a].parts[i]>> \in Same(types)
  <2>1. PICK t : t = types[a]
    OBVIOUS
  <2>2. t.parts \in Seq(DOMAIN types)
    BY <2>1, TypeIs
  <2>3. PICK parts : parts = t.parts
    OBVIOUS
  <2>4. parts[i] \in DOMAIN types
    BY <1>3, <2>1, <2>2, <2>3
  <2>5. QED
    BY <2>1, <2>3, <2>4 DEF Same
<1>4. \A a \in DOMAIN types : types[a].length \in Nat /\ types[a].at \in Seq(Nat)
  BY DEF Laid
<1>5. \A a \in DOMAIN types : Len(types[a].at) \in Nat
  BY <1>4
<1>6. Covers(types, types, Same(types))
  BY <1>1, <1>2, <1>3, <1>4, <1>5 DEF Covers
<1>7. Named(types, types, Same(types))
  BY <1>2 DEF Named
<1>8. QED
  BY <1>6, <1>7

(* Two places in one spot, and what is reached from each, where they meet. *)
Paired(old, new, R, p, r) ==
  /\ p \in AllPlaces(old) /\ r \in AllPlaces(new) /\ <<p.type, r.type>> \in R
  /\ p.region = r.region /\ p.start = r.start

(* Two places that hold something, and meet.                               *)
Touching(old, new, P, Q) ==
  Holds(old[P.type]) /\ Holds(new[Q.type]) /\ Meeting(P, old[P.type].size, Q, new[Q.type].size)

(* What is then so: a pair of types, one start and, if names agree, one path.*)
Agree(old, new, R, p, r, P, Q) ==
  <<P.type, Q.type>> \in R /\ P.start = Q.start /\ (Named(old, new, R) /\ p.path = r.path => P.path = Q.path)

(* Agree, whatever is touching, some steps from a pair of places.          *)
TogetherAt(old, new, R, m) ==
  \A p, r : Paired(old, new, R, p, r) =>
    \A n \in Nat : \A P \in From(old, p)[m], Q \in From(new, r)[n] :
      Touching(old, new, P, Q) => Agree(old, new, R, p, r, P, Q)

(* One turn of two places in one spot leads to one spot again.             *)
LEMMA TurnPairs ==
  ASSUME NEW old, Laid(old), NEW new, Laid(new), NEW R, Covers(old, new, R),
         NEW p, NEW r, Paired(old, new, R, p, r), NEW i, NEW j, Taken(old[p.type], i, j),
         NEW c, c = Child(old, p, i, j), NEW e, e = Child(new, r, i, j)
  PROVE  /\ Paired(old, new, R, c, e) /\ Taken(new[r.type], i, j)
         /\ Named(old, new, R) /\ p.path = r.path => c.path = e.path
<1>1. /\ p \in AllPlaces(old) /\ r \in AllPlaces(new) /\ <<p.type, r.type>> \in R
      /\ p.region = r.region /\ p.start = r.start
  BY DEF Paired
<1>2. PICK s, t : s = old[p.type] /\ t = new[r.type]
  OBVIOUS
<1>3. PICK a, b : a = p.type /\ b = r.type
  OBVIOUS
<1>4. Taken(s, i, j) /\ <<a, b>> \in R /\ s = old[a] /\ t = new[b]
  BY <1>1, <1>2, <1>3
<1>5. /\ a \in DOMAIN old /\ b \in DOMAIN new /\ s.kind = t.kind
      /\ Taken(t, i, j) /\ Offset(new, t, i, j) = Offset(old, s, i, j)
      /\ Hashed(new, t) = Hashed(old, s) /\ <<s.parts[i], t.parts[i]>> \in R
      /\ s.labels = t.labels => NameOf(s, i) = NameOf(t, i)
  BY <1>4, TurnCarries
<1>6. /\ c \in AllPlaces(old) /\ c.type = s.parts[i] /\ c.path = Append(p.path, NameOf(s, i))
      /\ Inline(s) => c.region = p.region /\ c.start = p.start + Offset(old, s, i, j)
      /\ ~Inline(s) => c.region = Append(p.region, <<p.start, Hashed(old, s)>>) /\ c.start = Offset(old, s, i, j)
  <2>1. p \in AllPlaces(old) /\ s = old[p.type] /\ Taken(s, i, j) /\ c = Child(old, p, i, j)
    BY <1>1, <1>2, <1>4
  <2>2. QED
    BY ONLY Laid(old), <2>1, ChildIs
<1>7. /\ e \in AllPlaces(new) /\ e.type = t.parts[i] /\ e.path = Append(r.path, NameOf(t, i))
      /\ Inline(t) => e.region = r.region /\ e.start = r.start + Offset(new, t, i, j)
      /\ ~Inline(t) => e.region = Append(r.region, <<r.start, Hashed(new, t)>>) /\ e.start = Offset(new, t, i, j)
  BY <1>1, <1>2, <1>5, ChildIs
<1>8. c.region = e.region /\ c.start = e.start
  BY <1>1, <1>5, <1>6, <1>7 DEF Inline
<1>9. Paired(old, new, R, c, e)
  BY <1>5, <1>6, <1>7, <1>8 DEF Paired
<1>10. ASSUME Named(old, new, R), p.path = r.path PROVE c.path = e.path
  <2>1. s.labels = t.labels
    BY <1>4, <1>5, <1>10 DEF Named
  <2>2. QED
    BY <1>5, <1>6, <1>7, <1>10, <2>1
<1>11. QED
  BY <1>2, <1>5, <1>9, <1>10

(* Where one of the two is reached at once, the other is too, or is hashed. *)
LEMMA FirstTogether ==
  ASSUME NEW old, Laid(old), NEW new, Laid(new), NEW R, Covers(old, new, R),
         NEW p, NEW r, Paired(old, new, R, p, r), NEW m \in Nat, NEW n \in Nat, m = 0 \/ n = 0,
         NEW P \in From(old, p)[m], NEW Q \in From(new, r)[n], Touching(old, new, P, Q)
  PROVE  Agree(old, new, R, p, r, P, Q)
<1>1. /\ p \in AllPlaces(old) /\ r \in AllPlaces(new) /\ <<p.type, r.type>> \in R
      /\ p.region = r.region /\ p.start = r.start
  BY DEF Paired
<1>2. p.type \in DOMAIN old /\ r.type \in DOMAIN new /\ old[p.type].kind = new[r.type].kind
  BY <1>1 DEF Covers
<1>3. Holds(old[P.type]) /\ Holds(new[Q.type]) /\ P.region = Q.region
  BY DEF Touching, Meeting
<1>4. p.region \in Seq(Nat \X Names)
  BY <1>1 DEF AllPlaces
<1>5. CASE m = 0 /\ n = 0
  <2>1. P = p /\ Q = r
    BY <1>1, <1>5, FromIs
  <2>2. QED
    BY <1>1, <2>1 DEF Agree
<1>6. CASE m = 0 /\ n # 0
  <2>1. P = p
    BY <1>1, <1>6, FromIs
  <2>2. PICK k \in Nat : n = k + 1
    <3>1. n - 1 \in Nat /\ n = (n - 1) + 1
      BY <1>6
    <3>2. QED
      BY <3>1
  <2>3. PICK d \in Step(new, r) : Q \in From(new, d)[k]
    BY <1>1, <2>2, FirstStep
  <2>4. PICK t, b : t = new[r.type] /\ b = r.type
    OBVIOUS
  <2>5. PICK i, j : Taken(t, i, j) /\ d = Child(new, r, i, j)
    BY <1>1, <2>4, StepIs
  <2>6. Covers(new, new, Same(new))
    BY SameCovers
  <2>7. Follows(new, new, Same(new), r, b, i, j, d, Q, k)
    BY <1>1, <1>2, <1>3, <2>3, <2>4, <2>5 DEF Follows, Same
  <2>8. WithinAt(new, new, Same(new), k)
    BY <2>6, Within
  <2>9. ~Inline(new[b]) => Longer(r.region, Q)
    BY <2>6, <2>7, <2>8, ChildHolds
  <2>10. ~Inline(new[b])
    BY <1>2, <1>3, <2>1, <2>4 DEF Holds, Inline
  <2>11. Len(r.region) < Len(Q.region)
    BY <2>9, <2>10 DEF Longer
  <2>12. Len(p.region) \in Nat
    BY <1>4
  <2>13. QED
    BY <1>1, <1>3, <2>1, <2>11, <2>12
<1>7. CASE m # 0 /\ n = 0
  <2>1. Q = r
    BY <1>1, <1>7, FromIs
  <2>2. PICK k \in Nat : m = k + 1
    <3>1. m - 1 \in Nat /\ m = (m - 1) + 1
      BY <1>7
    <3>2. QED
      BY <3>1
  <2>3. PICK d \in Step(old, p) : P \in From(old, d)[k]
    BY <1>1, <2>2, FirstStep
  <2>4. PICK s, a, b : s = old[p.type] /\ a = p.type /\ b = r.type
    OBVIOUS
  <2>5. PICK i, j : Taken(s, i, j) /\ d = Child(old, p, i, j)
    BY <1>1, <2>4, StepIs
  <2>6. Follows(old, new, R, p, b, i, j, d, P, k)
    BY <1>1, <1>2, <1>3, <2>3, <2>4, <2>5 DEF Follows
  <2>7. WithinAt(old, new, R, k)
    BY Within
  <2>8. ~Inline(new[b]) => Longer(p.region, P)
    BY <2>6, <2>7, ChildHolds
  <2>9. ~Inline(new[b])
    BY <1>2, <1>3, <2>1, <2>4 DEF Holds, Inline
  <2>10. Len(p.region) < Len(P.region)
    BY <2>8, <2>9 DEF Longer
  <2>11. Len(p.region) \in Nat
    BY <1>4
  <2>12. QED
    BY <1>1, <1>3, <2>1, <2>10, <2>11
<1>8. QED
  BY <1>5, <1>6, <1>7

(* Different turns of two places in one spot keep apart.                   *)
LEMMA TurnsMiss ==
  ASSUME NEW old, Laid(old), NEW new, Laid(new), NEW R, Covers(old, new, R),
         NEW p, NEW r, Paired(old, new, R, p, r), NEW m \in Nat, NEW n \in Nat,
         NEW i, NEW j, Taken(old[p.type], i, j), NEW c, c = Child(old, p, i, j),
         NEW k, NEW l, Taken(new[r.type], k, l), NEW d, d = Child(new, r, k, l), i # k \/ j # l,
         NEW P \in From(old, c)[m], NEW Q \in From(new, d)[n], Touching(old, new, P, Q)
  PROVE  FALSE
<1>1. /\ p \in AllPlaces(old) /\ r \in AllPlaces(new) /\ <<p.type, r.type>> \in R
      /\ p.region = r.region /\ p.start = r.start
  BY DEF Paired
<1>2. /\ p.type \in DOMAIN old /\ r.type \in DOMAIN new /\ p.start \in Nat
      /\ p.region \in Seq(Nat \X Names)
  BY <1>1 DEF AllPlaces
<1>3. PICK b, t : b = r.type /\ t = new[b]
  OBVIOUS
<1>4. PICK e : e = Child(new, r, i, j)
  OBVIOUS
<1>5. Paired(old, new, R, c, e) /\ Taken(t, i, j)
  BY <1>3, <1>4, TurnPairs
<1>6. /\ Holds(old[P.type]) /\ Holds(new[Q.type])
      /\ Meeting(P, old[P.type].size, Q, new[Q.type].size)
  BY DEF Touching
<1>7. Covers(new, new, Same(new)) /\ WithinAt(old, new, R, m) /\ WithinAt(new, new, Same(new), n)
  BY SameCovers, Within
<1>8. Follows(old, new, R, p, b, i, j, c, P, m)
  BY <1>1, <1>2, <1>3, <1>6 DEF Follows
<1>9. Follows(new, new, Same(new), r, b, k, l, d, Q, n)
  BY <1>1, <1>2, <1>3, <1>6 DEF Follows, Same
<1>10. PICK room, other, wide, size : /\ room = new[t.parts[i]].size /\ other = new[t.parts[k]].size
                                      /\ wide = old[P.type].size /\ size = new[Q.type].size
  OBVIOUS
<1>11. /\ InRoom(c.region, c.start, room, P, wide) /\ wide \in Nat
       /\ c \in AllPlaces(old) /\ P \in AllPlaces(old)
  BY <1>3, <1>7, <1>8, <1>10, ChildHolds
<1>12. /\ InRoom(d.region, d.start, other, Q, size) /\ size \in Nat
       /\ d \in AllPlaces(new) /\ Q \in AllPlaces(new)
  BY <1>3, <1>7, <1>9, <1>10, ChildHolds
<1>13. /\ e \in AllPlaces(new)
       /\ Inline(t) => e.region = r.region /\ e.start = r.start + Offset(new, t, i, j)
       /\ ~Inline(t) => e.region = Append(r.region, <<r.start, Hashed(new, t)>>) /\ e.start = Offset(new, t, i, j)
  BY <1>1, <1>3, <1>4, <1>5, ChildIs
<1>14. /\ Inline(t) => d.region = r.region /\ d.start = r.start + Offset(new, t, k, l)
       /\ ~Inline(t) => d.region = Append(r.region, <<r.start, Hashed(new, t)>>) /\ d.start = Offset(new, t, k, l)
  BY <1>1, <1>3, ChildIs
<1>15. c.region = e.region /\ c.start = e.start
  BY <1>5 DEF Paired
<1>16. c.region = d.region
  BY <1>13, <1>14, <1>15
<1>17. /\ t.parts[i] \in DOMAIN new /\ t.parts[k] \in DOMAIN new
       /\ Offset(new, t, i, j) \in Nat /\ Offset(new, t, k, l) \in Nat
  BY <1>2, <1>3, <1>5, TurnIs
<1>18. PICK part, next : part = new[t.parts[i]] /\ next = new[t.parts[k]]
  OBVIOUS
<1>19. room \in Nat /\ other \in Nat /\ room = part.size /\ other = next.size
  BY <1>10, <1>17, <1>18, TypeIs
<1>20. \/ Offset(new, t, i, j) + room <= Offset(new, t, k, l)
       \/ Offset(new, t, k, l) + other <= Offset(new, t, i, j)
  BY <1>2, <1>3, <1>5, <1>18, <1>19, TurnsApart
<1>21. PICK x, y \in Nat : x = Offset(new, t, i, j) /\ y = Offset(new, t, k, l)
  BY <1>17
<1>22. c.start + room <= d.start \/ d.start + other <= c.start
  <2>1. x + room <= y \/ y + other <= x
    BY <1>20, <1>21
  <2>2. CASE Inline(t)
    <3>1. PICK at \in Nat : at = r.start
      BY <1>1, <1>2
    <3>2. c.start = at + x /\ d.start = at + y
      BY <1>13, <1>14, <1>15, <1>21, <2>2, <3>1
    <3>3. (at + x) + room <= at + y \/ (at + y) + other <= at + x
      BY <1>19, <2>1
    <3>4. QED
      BY <3>2, <3>3
  <2>3. CASE ~Inline(t)
    BY <1>13, <1>14, <1>15, <1>21, <2>1, <2>3
  <2>4. QED
    BY <2>2, <2>3
<1>23. PICK low, high, least, most : low = c.start /\ high = c.start + room /\ least = d.start /\ most = d.start + other
  OBVIOUS
<1>24. c.start \in Nat /\ d.start \in Nat /\ c.region \in Seq(Nat \X Names)
  BY <1>11, <1>12 DEF AllPlaces
<1>25. low \in Int /\ high \in Int /\ least \in Int /\ most \in Int /\ (high <= least \/ most <= low)
  BY <1>19, <1>22, <1>23, <1>24
<1>26. P.start \in Nat /\ P.region \in Seq(Nat \X Names) /\ Q.start \in Nat /\ Q.region \in Seq(Nat \X Names)
  BY <1>11, <1>12 DEF AllPlaces
<1>27. PICK region : region = c.region
  OBVIOUS
<1>28. Spans(region, low, high, P, wide) /\ Spans(region, least, most, Q, size)
  BY <1>11, <1>12, <1>16, <1>23, <1>27 DEF InRoom
<1>29. region \in Seq(Nat \X Names)
  BY <1>24, <1>27
<1>30. ~Meeting(P, wide, Q, size)
  BY <1>11, <1>12, <1>25, <1>26, <1>28, <1>29, SpansApart
<1>31. QED
  BY <1>6, <1>10, <1>30

(* By induction on the steps of the first.                                 *)
LEMMA Together ==
  ASSUME NEW old, Laid(old), NEW new, Laid(new), NEW R, Covers(old, new, R), NEW m \in Nat
  PROVE  TogetherAt(old, new, R, m)
<1> DEFINE U == {x \in Nat : TogetherAt(old, new, R, x)}
<1>1. 0 \in U
  BY FirstTogether DEF TogetherAt
<1>2. ASSUME NEW x \in U PROVE x + 1 \in U
  <2>1. x \in Nat /\ TogetherAt(old, new, R, x)
    OBVIOUS
  <2>2. SUFFICES ASSUME NEW p, NEW r, Paired(old, new, R, p, r), NEW n \in Nat,
                        NEW P \in From(old, p)[x + 1], NEW Q \in From(new, r)[n], Touching(old, new, P, Q)
                 PROVE  Agree(old, new, R, p, r, P, Q)
    BY <2>1 DEF TogetherAt
  <2>3. p \in AllPlaces(old) /\ r \in AllPlaces(new)
    BY <2>2 DEF Paired
  <2>4. CASE n = 0
    BY <2>1, <2>2, <2>4, FirstTogether
  <2>5. CASE n # 0
    <3>1. PICK k \in Nat : n = k + 1
      <4>1. n - 1 \in Nat /\ n = (n - 1) + 1
        BY <2>5
      <4>2. QED
        BY <4>1
    <3>2. PICK c \in Step(old, p) : P \in From(old, c)[x]
      BY <2>1, <2>3, FirstStep
    <3>3. PICK d \in Step(new, r) : Q \in From(new, d)[k]
      BY <2>3, <3>1, FirstStep
    <3>4. PICK i, j : Taken(old[p.type], i, j) /\ c = Child(old, p, i, j)
      BY <2>3, StepIs
    <3>5. PICK u, v : Taken(new[r.type], u, v) /\ d = Child(new, r, u, v)
      BY <2>3, StepIs
    <3>6. i = u /\ j = v
      BY <2>1, <2>2, <3>2, <3>3, <3>4, <3>5, TurnsMiss
    <3>7. /\ Paired(old, new, R, c, d)
          /\ Named(old, new, R) /\ p.path = r.path => c.path = d.path
      BY <2>2, <3>4, <3>5, <3>6, TurnPairs
    <3>8. Agree(old, new, R, c, d, P, Q)
      BY <2>1, <2>2, <3>2, <3>3, <3>7 DEF TogetherAt
    <3>9. QED
      BY <3>7, <3>8 DEF Agree
  <2>6. QED
    BY <2>4, <2>5
<1>3. U = Nat
  <2> HIDE DEF U
  <2>1. QED
    BY <1>1, <1>2, Inductive DEF U
<1>4. QED
  BY <1>3

-----------------------------------------------------------------------------
(* By name: what both have under one path is in one place.                 *)

(* A path that goes on from another for some names.                        *)
Extends(p, q, n) ==
  /\ q.path \in Seq(Names) /\ Len(q.path) = Len(p.path) + n
  /\ \A i \in 1 .. Len(p.path) : q.path[i] = p.path[i]

(* Each step adds a name.                                                  *)
GrowsAt(types, n) == \A p \in AllPlaces(types) : \A q \in From(types, p)[n] : Extends(p, q, n)

(* What Append adds.                                                       *)
LEMMA Appended ==
  ASSUME NEW path \in Seq(Names), NEW name \in Names, NEW longer, longer = Append(path, name)
  PROVE  /\ longer \in Seq(Names) /\ Len(longer) = Len(path) + 1 /\ longer[Len(path) + 1] = name
         /\ \A i \in 1 .. Len(path) : longer[i] = path[i]
OBVIOUS

(* By induction on the steps.                                              *)
LEMMA Grows ==
  ASSUME NEW types, Laid(types), NEW n \in Nat
  PROVE  GrowsAt(types, n)
<1> DEFINE U == {m \in Nat : GrowsAt(types, m)}
<1>1. 0 \in U
  <2>1. SUFFICES ASSUME NEW p \in AllPlaces(types), NEW q \in From(types, p)[0] PROVE Extends(p, q, 0)
    BY DEF GrowsAt
  <2>2. q = p
    BY FromIs
  <2>3. p.path \in Seq(Names)
    BY DEF AllPlaces
  <2>4. Len(p.path) = Len(p.path) + 0
    BY <2>3
  <2>5. QED
    BY <2>2, <2>3, <2>4 DEF Extends
<1>2. ASSUME NEW m \in U PROVE m + 1 \in U
  <2>1. m \in Nat /\ GrowsAt(types, m)
    OBVIOUS
  <2>2. SUFFICES ASSUME NEW p \in AllPlaces(types), NEW q \in From(types, p)[m + 1] PROVE Extends(p, q, m + 1)
    BY <2>1 DEF GrowsAt
  <2>3. PICK c \in Step(types, p) : q \in From(types, c)[m]
    BY <2>1, FirstStep
  <2>4. PICK t, b : t = types[p.type] /\ b = p.type
    OBVIOUS
  <2>5. PICK i, j : Taken(t, i, j) /\ c = Child(types, p, i, j)
    BY <2>4, StepIs
  <2>6. c \in AllPlaces(types) /\ c.path = Append(p.path, NameOf(t, i))
    BY <2>4, <2>5, ChildIs
  <2>7. p.path \in Seq(Names) /\ b \in DOMAIN types /\ t = types[b]
    BY <2>4 DEF AllPlaces
  <2>8. NameOf(t, i) \in Names
    BY <2>5, <2>7, TurnIs
  <2>9. Extends(c, q, m)
    BY <2>1, <2>3, <2>6 DEF GrowsAt
  <2>10. PICK path, name, longer, end : path = p.path /\ name = NameOf(t, i) /\ longer = c.path /\ end = q.path
    OBVIOUS
  <2>11. path \in Seq(Names) /\ name \in Names /\ longer = Append(path, name)
    BY <2>6, <2>7, <2>8, <2>10
  <2>12. /\ longer \in Seq(Names) /\ Len(longer) = Len(path) + 1
         /\ \A x \in 1 .. Len(path) : longer[x] = path[x]
    BY <2>11, Appended
  <2>13. end \in Seq(Names) /\ Len(end) = Len(longer) + m /\ \A x \in 1 .. Len(longer) : end[x] = longer[x]
    BY <2>9, <2>10 DEF Extends
  <2>14. Len(path) \in Nat /\ Len(end) = Len(path) + (m + 1)
    BY <2>1, <2>11, <2>12, <2>13
  <2>15. \A x \in 1 .. Len(path) : end[x] = path[x]
    BY <2>12, <2>13, <2>14
  <2>16. QED
    BY <2>10, <2>13, <2>14, <2>15 DEF Extends
<1>3. U = Nat
  <2> HIDE DEF U
  <2>1. QED
    BY <1>1, <1>2, Inductive DEF U
<1>4. QED
  BY <1>3

(* The name of the turn that was taken is in the path.                     *)
LEMMA PathTells ==
  ASSUME NEW path \in Seq(Names), NEW name \in Names, NEW other \in Names, NEW m \in Nat,
         NEW c, c.path = Append(path, name), NEW d, d.path = Append(path, other),
         NEW P, Extends(c, P, m), NEW O, Extends(d, O, m), P.path = O.path
  PROVE  name = other
<1>1. PICK longer, further, end : longer = c.path /\ further = d.path /\ end = P.path
  OBVIOUS
<1>2. /\ longer \in Seq(Names) /\ Len(longer) = Len(path) + 1 /\ longer[Len(path) + 1] = name
  BY <1>1, Appended
<1>3. /\ further \in Seq(Names) /\ Len(further) = Len(path) + 1 /\ further[Len(path) + 1] = other
  BY <1>1, Appended
<1>4. Len(path) + 1 \in 1 .. Len(longer) /\ Len(path) + 1 \in 1 .. Len(further)
  BY <1>2, <1>3
<1>5. end[Len(path) + 1] = longer[Len(path) + 1]
  BY <1>1, <1>4 DEF Extends
<1>6. end[Len(path) + 1] = further[Len(path) + 1]
  BY <1>1, <1>4 DEF Extends
<1>7. QED
  BY <1>2, <1>3, <1>5, <1>6

(* A struct has as many members as names and positions.                    *)
LEMMA StructIs ==
  ASSUME NEW types, Laid(types), NEW id \in DOMAIN types, NEW t, t = types[id], t.kind = "struct"
  PROVE  Len(t.parts) = Len(t.at) /\ Len(t.labels) = Len(t.at)
BY DEF Laid

(* No member of a struct is elsewhere in the other, by its name.           *)
MovesNone(old, new, R) ==
  \A a \in DOMAIN old, b \in DOMAIN new : <<a, b>> \in R /\ old[a].kind = "struct" =>
    \A i \in 1 .. Len(old[a].labels), j \in 1 .. Len(new[b].labels) :
      old[a].labels[i] = new[b].labels[j] => old[a].at[i] = new[b].at[j]

(* Two turns of a pair that have one name.                                 *)
SameName(old, new, R, a, b, s, t, i, j, k, l) ==
  /\ <<a, b>> \in R /\ s = old[a] /\ t = new[b]
  /\ Taken(s, i, j) /\ Taken(t, k, l) /\ NameOf(s, i) = NameOf(t, k)

(* Turns of the same name are turns to the same part.                      *)
LEMMA NamesTell ==
  ASSUME NEW old, Laid(old), NEW new, Laid(new), NEW R, Covers(old, new, R), MovesNone(old, new, R),
         NEW a, NEW b, NEW s, NEW t, NEW i, NEW j, NEW k, NEW l, SameName(old, new, R, a, b, s, t, i, j, k, l)
  PROVE  i = k
<1>0. s = old[a] /\ t = new[b] /\ Taken(s, i, j) /\ Taken(t, k, l) /\ NameOf(s, i) = NameOf(t, k) /\ <<a, b>> \in R
  BY DEF SameName
<1>1. a \in DOMAIN old /\ b \in DOMAIN new /\ s.kind = t.kind /\ Taken(t, i, j)
  <2>1. /\ a \in DOMAIN old /\ b \in DOMAIN new /\ s.kind = t.kind
        /\ Taken(t, i, j) /\ Offset(new, t, i, j) = Offset(old, s, i, j)
        /\ Hashed(new, t) = Hashed(old, s) /\ <<s.parts[i], t.parts[i]>> \in R
        /\ s.labels = t.labels => NameOf(s, i) = NameOf(t, i)
    BY <1>0, TurnCarries
  <2>2. QED
    BY <2>1
<1>2. CASE s.kind = "struct"
  <2>1. i \in 1 .. Len(s.at) /\ k \in 1 .. Len(t.at) /\ j = 0 /\ l = 0
    BY <1>0, <1>1, <1>2 DEF Taken
  <2>2. Len(s.labels) = Len(s.at)
    BY <1>0, <1>1, <1>2, StructIs
  <2>3. Len(t.labels) = Len(t.at)
    BY <1>0, <1>1, <1>2, StructIs
  <2>4. s.labels[i] = t.labels[k]
    BY <1>0, <1>1, <1>2 DEF NameOf
  <2>5. s.at[i] = t.at[k]
    <3>1. i \in 1 .. Len(s.labels) /\ k \in 1 .. Len(t.labels)
      BY <2>1, <2>2, <2>3
    <3>2. QED
      BY <1>0, <1>1, <1>2, <2>4, <3>1 DEF MovesNone
  <2>6. s.at[i] = t.at[i]
    BY <1>0, <1>1, <1>2, <2>1 DEF Covers
  <2>7. Offset(new, t, i, j) = t.at[i] /\ Offset(new, t, k, l) = t.at[k]
    BY <1>0, <1>1, <1>2 DEF Offset
  <2>8. t.parts[i] \in DOMAIN new /\ t.parts[k] \in DOMAIN new /\ Offset(new, t, i, j) \in Nat
    BY <1>0, <1>1, TurnIs
  <2>9. PICK part, other : part = new[t.parts[i]] /\ other = new[t.parts[k]]
    OBVIOUS
  <2>10. part.size \in Nat /\ part.size > 0
    BY <2>8, <2>9, TypeIs
  <2>11. other.size \in Nat /\ other.size > 0
    BY <2>8, <2>9, TypeIs
  <2>12. i # k => \/ Offset(new, t, i, j) + part.size <= Offset(new, t, k, l)
                  \/ Offset(new, t, k, l) + other.size <= Offset(new, t, i, j)
    BY <1>0, <1>1, <2>9, TurnsApart
  <2>13. PICK at \in Nat : at = Offset(new, t, i, j)
    BY <2>8
  <2>14. i # k => at + part.size <= at \/ at + other.size <= at
    BY <2>5, <2>6, <2>7, <2>12, <2>13
  <2>15. ~(at + part.size <= at) /\ ~(at + other.size <= at)
    BY <2>10, <2>11, <2>13
  <2>16. QED
    BY <2>14, <2>15
<1>3. CASE s.kind # "struct"
  BY <1>0, <1>1, <1>3 DEF Taken
<1>4. QED
  BY <1>2, <1>3

(* A place in the same spot as P, with its path.                           *)
Found(old, new, R, r, m, P) == \E Q \in From(new, r)[m] : Paired(old, new, R, P, Q) /\ Q.path = P.path

(* A place of the same type and path as another, anywhere.                 *)
Alike(new, o, r) == o \in AllPlaces(new) /\ o.type = r.type /\ o.path = r.path

(* Whatever has a path of the first place, the first place's pair has in its spot.*)
FoundAt(old, new, R, m) ==
  \A p, r, o : Paired(old, new, R, p, r) /\ p.path = r.path /\ Alike(new, o, r) =>
    \A P \in From(old, p)[m], O \in From(new, o)[m] : P.path = O.path => Found(old, new, R, r, m, P)

(* By induction on the steps.                                              *)
LEMMA FoundByPath ==
  ASSUME NEW old, Laid(old), NEW new, Laid(new), NEW R, Covers(old, new, R), MovesNone(old, new, R), NEW m \in Nat
  PROVE  FoundAt(old, new, R, m)
<1> DEFINE U == {x \in Nat : FoundAt(old, new, R, x)}
<1>1. 0 \in U
  <2>1. SUFFICES ASSUME NEW p, NEW r, Paired(old, new, R, p, r), p.path = r.path,
                        NEW P \in From(old, p)[0]
                 PROVE  Found(old, new, R, r, 0, P)
    BY DEF FoundAt
  <2>2. p \in AllPlaces(old) /\ r \in AllPlaces(new)
    BY <2>1 DEF Paired
  <2>3. P = p /\ r \in From(new, r)[0]
    BY <2>1, <2>2, FromIs
  <2>4. QED
    BY <2>1, <2>3 DEF Found
<1>2. ASSUME NEW x \in U PROVE x + 1 \in U
  <2>1. x \in Nat /\ FoundAt(old, new, R, x)
    OBVIOUS
  <2>2. SUFFICES ASSUME NEW p, NEW r, NEW o, Paired(old, new, R, p, r), p.path = r.path, Alike(new, o, r),
                        NEW P \in From(old, p)[x + 1], NEW O \in From(new, o)[x + 1], P.path = O.path
                 PROVE  Found(old, new, R, r, x + 1, P)
    BY <2>1 DEF FoundAt
  <2>3. /\ p \in AllPlaces(old) /\ r \in AllPlaces(new) /\ <<p.type, r.type>> \in R
        /\ o \in AllPlaces(new) /\ o.type = r.type /\ o.path = r.path
    BY <2>2 DEF Paired, Alike
  <2>4. PICK c \in Step(old, p) : P \in From(old, c)[x]
    BY <2>1, <2>3, FirstStep
  <2>5. PICK d \in Step(new, o) : O \in From(new, d)[x]
    BY <2>1, <2>3, FirstStep
  <2>6. PICK s, t, a, b : a = p.type /\ b = r.type /\ s = old[a] /\ t = new[b]
    OBVIOUS
  <2>7. PICK i, j : Taken(s, i, j) /\ c = Child(old, p, i, j)
    BY <2>3, <2>6, StepIs
  <2>8. PICK k, l : Taken(t, k, l) /\ d = Child(new, o, k, l)
    BY <2>3, <2>6, StepIs
  <2>9. PICK e : e = Child(new, r, i, j)
    OBVIOUS
  <2>10. Paired(old, new, R, c, e) /\ Taken(t, i, j)
    BY <2>2, <2>6, <2>7, <2>9, TurnPairs
  <2>11. c \in AllPlaces(old) /\ c.path = Append(p.path, NameOf(s, i))
    BY <2>3, <2>6, <2>7, ChildIs
  <2>12. d \in AllPlaces(new) /\ d.type = t.parts[k] /\ d.path = Append(o.path, NameOf(t, k))
    BY <2>3, <2>6, <2>8, ChildIs
  <2>13. e \in AllPlaces(new) /\ e.type = t.parts[i] /\ e.path = Append(r.path, NameOf(t, i))
    BY <2>3, <2>6, <2>9, <2>10, ChildIs
  <2>14. Extends(c, P, x) /\ Extends(d, O, x)
    BY <2>1, <2>4, <2>5, <2>11, <2>12, Grows DEF GrowsAt
  <2>15. a \in DOMAIN old /\ b \in DOMAIN new /\ p.path \in Seq(Names)
    BY <2>3, <2>6 DEF AllPlaces
  <2>16. NameOf(s, i) \in Names /\ NameOf(t, k) \in Names
    BY <2>6, <2>7, <2>8, <2>15, TurnIs
  <2>17. PICK path, name, other : path = p.path /\ name = NameOf(s, i) /\ other = NameOf(t, k)
    OBVIOUS
  <2>18. name = other
    <3>1. c.path = Append(path, name) /\ d.path = Append(path, other) /\ path \in Seq(Names)
      BY <2>2, <2>3, <2>11, <2>12, <2>15, <2>17
    <3>2. name \in Names /\ other \in Names
      BY <2>16, <2>17
    <3>3. QED
      BY <2>1, <2>2, <2>14, <3>1, <3>2, PathTells
  <2>19. <<a, b>> \in R
    BY <2>3, <2>6
  <2>20. i = k
    <3>1. SameName(old, new, R, a, b, s, t, i, j, k, l)
      BY <2>6, <2>7, <2>8, <2>17, <2>18, <2>19 DEF SameName
    <3>2. QED
      BY <3>1, NamesTell
  <2>21. c.path = e.path /\ Alike(new, d, e)
    BY <2>2, <2>3, <2>11, <2>12, <2>13, <2>17, <2>18, <2>20 DEF Alike
  <2>22. Found(old, new, R, e, x, P)
    BY <2>1, <2>2, <2>4, <2>5, <2>10, <2>21 DEF FoundAt
  <2>23. e \in Step(new, r)
    BY <2>3, <2>6, <2>9, <2>10, StepIs
  <2>24. From(new, e)[x] \subseteq From(new, r)[x + 1]
    BY <2>1, <2>3, <2>23, FirstStep
  <2>25. QED
    BY <2>22, <2>24 DEF Found
<1>3. U = Nat
  <2> HIDE DEF U
  <2>1. QED
    BY <1>1, <1>2, Inductive DEF U
<1>4. QED
  BY <1>3

-----------------------------------------------------------------------------
(* Compared meets every pair there is to meet: a set that grows in a finite *)
(* one stops growing.                                                      *)

(* A function on sets that only adds.                                      *)
Widens(G, D) == G \in [SUBSET D -> SUBSET D] /\ \A S \in SUBSET D : S \subseteq G[S]

(* The set of one element.                                                 *)
Only(x) == {x}

(* As many rounds as there are elements are enough.                        *)
LEMMA StopsGrowing ==
  ASSUME NEW D, IsFiniteSet(D), NEW G, Widens(G, D), NEW x \in D,
         NEW f, NEW only, only = Only(x), Iterates(f, SUBSET D, G, only)
  PROVE  /\ f[Cardinality(D)] \in SUBSET D /\ x \in f[Cardinality(D)]
         /\ G[f[Cardinality(D)]] = f[Cardinality(D)]
<1>1. /\ f \in [Nat -> SUBSET D] /\ f[0] = {x} /\ \A n \in Nat : f[n + 1] = G[f[n]]
      /\ \A S \in SUBSET D : S \subseteq G[S]
  BY DEF Iterates, Widens, Only
<1>2. Cardinality(D) \in Nat
  BY FS_CardinalityType
<1>3. \A n \in Nat : f[n] \in SUBSET D /\ IsFiniteSet(f[n]) /\ Cardinality(f[n]) \in Nat
                     /\ Cardinality(f[n]) <= Cardinality(D)
  <2>1. \A n \in Nat : f[n] \in SUBSET D
    BY <1>1
  <2>2. ASSUME NEW n \in Nat PROVE IsFiniteSet(f[n]) /\ Cardinality(f[n]) <= Cardinality(D)
    <3>1. PICK S : S = f[n]
      OBVIOUS
    <3>2. S \in SUBSET D
      BY <2>1, <3>1
    <3>3. IsFiniteSet(S) /\ Cardinality(S) <= Cardinality(D)
      BY <3>2, FS_Subset
    <3>4. QED
      BY <3>1, <3>3
  <2>3. \A n \in Nat : Cardinality(f[n]) \in Nat
    BY <2>2, FS_CardinalityType
  <2>4. QED
    BY <2>1, <2>2, <2>3
<1> DEFINE U == {n \in Nat : x \in f[n] /\ (G[f[n]] = f[n] \/ Cardinality(f[n]) >= n + 1)}
<1>4. 0 \in U
  <2>1. Cardinality({x}) = 1
    BY FS_Singleton
  <2>2. Cardinality(f[0]) = 1 /\ x \in f[0]
    BY <1>1, <2>1
  <2>3. Cardinality(f[0]) >= 0 + 1
    BY <2>2
  <2>4. QED
    BY <2>2, <2>3
<1>5. ASSUME NEW n \in U PROVE n + 1 \in U
  <2>1. n \in Nat /\ n + 1 \in Nat /\ x \in f[n] /\ (G[f[n]] = f[n] \/ Cardinality(f[n]) >= n + 1)
    OBVIOUS
  <2>2. f[n + 1] = G[f[n]] /\ f[n] \subseteq f[n + 1]
    BY <1>1, <1>3, <2>1
  <2>3. CASE G[f[n]] = f[n]
    BY <2>1, <2>2, <2>3
  <2>4. CASE G[f[n]] # f[n]
    <3>1. Cardinality(f[n]) >= n + 1 /\ f[n + 1] # f[n]
      BY <2>1, <2>2, <2>4
    <3>2. PICK S, T : S = f[n] /\ T = f[n + 1]
      OBVIOUS
    <3>3. IsFiniteSet(T) /\ S \in SUBSET T /\ S # T
      BY <1>3, <2>1, <2>2, <3>1, <3>2
    <3>4. Cardinality(S) <= Cardinality(T) /\ Cardinality(T) # Cardinality(S)
      BY <3>3, FS_Subset
    <3>5. Cardinality(S) \in Nat /\ Cardinality(T) \in Nat /\ Cardinality(S) >= n + 1
      BY <1>3, <2>1, <3>1, <3>2
    <3>6. Cardinality(T) >= (n + 1) + 1
      BY <2>1, <3>4, <3>5
    <3>7. QED
      BY <2>1, <2>2, <3>2, <3>6
  <2>5. QED
    BY <2>3, <2>4
<1>6. U = Nat
  <2> HIDE DEF U
  <2>1. QED
    BY <1>4, <1>5, Inductive DEF U
<1>7. PICK N : N = Cardinality(D)
  OBVIOUS
<1>8. x \in f[N] /\ (G[f[N]] = f[N] \/ Cardinality(f[N]) >= N + 1)
  BY <1>2, <1>6, <1>7
<1>9. N \in Nat /\ f[N] \in SUBSET D /\ Cardinality(f[N]) \in Nat /\ Cardinality(f[N]) <= N
  BY <1>2, <1>3, <1>7
<1>10. QED
  BY <1>7, <1>8, <1>9

(* The pairs that come of some pairs.                                      *)
PairsNext(old, new, S) == S \union UNION {PartPairs(old.nodes[pair[1]], new.nodes[pair[2]]) : pair \in S}

(* All pairs of types of two shapes.                                       *)
AllPairs(old, new) == (DOMAIN old.nodes) \X (DOMAIN new.nodes)

(* Parts of pairs are pairs.                                               *)
PartsPair(old, new) ==
  \A pair \in AllPairs(old, new) : PartPairs(old.nodes[pair[1]], new.nodes[pair[2]]) \subseteq AllPairs(old, new)

(* Pairs: no round adds to it.                                             *)
LEMMA Saturates ==
  ASSUME NEW old, NEW new, IsFiniteSet(DOMAIN old.nodes), IsFiniteSet(DOMAIN new.nodes), PartsPair(old, new),
         NEW x, x = <<old.root, new.root>>, x \in AllPairs(old, new)
  PROVE  /\ x \in Pairs(old, new) /\ Pairs(old, new) \subseteq AllPairs(old, new)
         /\ PairsNext(old, new, Pairs(old, new)) = Pairs(old, new)
<1> DEFINE D == AllPairs(old, new)
           next(S) == PairsNext(old, new, S)
           G == [S \in SUBSET D |-> next(S)]
           N == Cardinality(DOMAIN old.nodes) * Cardinality(DOMAIN new.nodes)
           only == {x}
<1>1. IsFiniteSet(D) /\ Cardinality(D) = N /\ N \in Nat
  <2>1. PICK S, T : S = DOMAIN old.nodes /\ T = DOMAIN new.nodes
    OBVIOUS
  <2>2. IsFiniteSet(S) /\ IsFiniteSet(T)
    BY <2>1
  <2>3. IsFiniteSet(S \X T) /\ Cardinality(S \X T) = Cardinality(S) * Cardinality(T)
    BY <2>2, FS_Product
  <2>4. Cardinality(S \X T) \in Nat
    BY <2>3, FS_CardinalityType
  <2>5. QED
    BY <2>1, <2>3, <2>4 DEF AllPairs
<1>2. \A S \in SUBSET D : next(S) \in SUBSET D /\ S \subseteq next(S)
  BY DEF PairsNext, PartsPair
<1>3. Widens(G, D) /\ G \in [SUBSET D -> SUBSET D] /\ \A S \in SUBSET D : G[S] = next(S)
  <2> HIDE DEF D, next
  <2>1. QED
    BY <1>2 DEF Widens
<1>4. only \in SUBSET D
  OBVIOUS
<1> HIDE DEF D, G, N, only, next
<1>5. PICK f : Iterates(f, SUBSET D, G, only)
  <2>1. PICK S : S = SUBSET D
    OBVIOUS
  <2>2. G \in [S -> S] /\ only \in S
    BY <1>3, <1>4, <2>1
  <2>3. \E f : Iterates(f, S, G, only)
    BY <2>2, Iterated
  <2>4. QED
    BY <2>1, <2>3
<1>6. f[N] \in SUBSET D /\ x \in f[N] /\ G[f[N]] = f[N]
  <2>1. x \in D /\ only = Only(x)
    BY DEF D, only, Only
  <2>2. /\ f[Cardinality(D)] \in SUBSET D /\ x \in f[Cardinality(D)]
        /\ G[f[Cardinality(D)]] = f[Cardinality(D)]
    BY <1>1, <1>3, <1>5, <2>1, StopsGrowing
  <2>3. QED
    BY <1>1, <2>2
<1>7. f \in [Nat -> SUBSET D] /\ f[0] = only /\ \A n \in Nat : f[n + 1] = next(f[n])
  <2>1. f \in [Nat -> SUBSET D] /\ f[0] = only /\ \A n \in Nat : f[n + 1] = G[f[n]]
    BY <1>5 DEF Iterates
  <2>2. \A n \in Nat : f[n] \in SUBSET D
    BY <2>1
  <2>3. QED
    BY <1>3, <2>1, <2>2
<1> DEFINE after(g, n) == IF n = 0 THEN only ELSE next(g[n - 1])
           A == CHOOSE g : g = [n \in Nat |-> after(g, n)]
<1>8. f = [n \in Nat |-> after(f, n)]
  <2>1. ASSUME NEW n \in Nat PROVE f[n] = after(f, n)
    <3>1. CASE n = 0
      BY <1>7, <3>1
    <3>2. CASE n # 0
      <4>1. n - 1 \in Nat /\ (n - 1) + 1 = n
        BY <3>2
      <4>2. f[(n - 1) + 1] = next(f[n - 1])
        BY <1>7, <4>1
      <4>3. QED
        BY <3>2, <4>1, <4>2
    <3>3. QED
      BY <3>1, <3>2
  <2> HIDE DEF after
  <2>2. QED
    BY <1>7, <2>1
<1>9. A = [n \in Nat |-> after(A, n)]
  <2> HIDE DEF after
  <2>1. \E g : g = [n \in Nat |-> after(g, n)]
    BY <1>8
  <2>2. QED
    BY <2>1
<1>10. Pairs(old, new) = A[N]
  BY DEF Pairs, Compared, PairsNext, N, only, next
<1>11. {n \in Nat : A[n] = f[n]} = Nat
  <2> HIDE DEF A
  <2> DEFINE U == {n \in Nat : A[n] = f[n]}
  <2>1. 0 \in U
    BY <1>7, <1>9
  <2>2. ASSUME NEW n \in U PROVE n + 1 \in U
    <3>1. n \in Nat /\ n + 1 \in Nat /\ n + 1 # 0 /\ (n + 1) - 1 = n /\ A[n] = f[n]
      OBVIOUS
    <3>2. A[n + 1] = after(A, n + 1)
      <4> HIDE DEF after
      <4>1. QED
        BY <1>9, <3>1
    <3>3. A[n + 1] = next(A[n])
      BY <3>1, <3>2
    <3>4. QED
      BY <1>7, <3>1, <3>3
  <2> HIDE DEF U
  <2>3. QED
    BY <2>1, <2>2, Inductive DEF U
<1>12. Pairs(old, new) = f[N]
  <2> HIDE DEF A
  <2>1. QED
    BY <1>1, <1>10, <1>11
<1>13. next(Pairs(old, new)) = Pairs(old, new)
  BY <1>3, <1>6, <1>12
<1>14. QED
  BY <1>6, <1>12, <1>13 DEF D, next

-----------------------------------------------------------------------------
(* What solc lays out, as shapes have it.                                  *)

(* The graph of a shape.                                                   *)
Nodes(types) == [i \in DOMAIN types |-> [types[i] EXCEPT !.label = Normal(@)]]

(* Labels stay labels.                                                     *)
LEMMA NormalIs ==
  ASSUME NEW label \in STRING
  PROVE  Normal(label) \in Names
BY DEF Normal, Names

(* No label stays none.                                                    *)
LEMMA NormalNone == Normal("") = ""
<1>1. "" \notin Contracts
  BY Zenon DEF Contracts
<1>2. QED
  BY <1>1 DEF Normal

(* The graph has what the types have, labels aside.                        *)
LEMMA NodesAre ==
  ASSUME NEW types, LaidOut(types), NEW id \in DOMAIN types, NEW t, t = types[id], NEW n, n = Nodes(types)[id]
  PROVE  /\ n.kind = t.kind /\ n.size = t.size /\ n.label = Normal(t.label) /\ n.parts = t.parts
         /\ n.labels = t.labels /\ n.at = t.at /\ n.length = t.length
         /\ n = [ kind |-> n.kind, size |-> n.size, label |-> n.label, parts |-> n.parts,
                  labels |-> n.labels, at |-> n.at, length |-> n.length ]
         /\ t.kind \in Kinds /\ t.size \in Nat /\ t.size > 0 /\ n.label \in Names /\ t.parts \in Seq(DOMAIN types)
         /\ t.labels \in Seq(STRING) /\ t.at \in Seq(Nat) /\ t.length \in Nat
<1>1. t \in [ kind : Kinds, size : Nat \ {0}, label : STRING, parts : Seq(DOMAIN types),
              labels : Seq(STRING), at : Seq(Nat), length : Nat ]
  BY DEF LaidOut
<1>2. n = [t EXCEPT !.label = Normal(t.label)]
  BY DEF Nodes
<1>3. /\ n.kind = t.kind /\ n.size = t.size /\ n.label = Normal(t.label) /\ n.parts = t.parts
      /\ n.labels = t.labels /\ n.at = t.at /\ n.length = t.length
  BY <1>1, <1>2
<1>4. n = [ kind |-> n.kind, size |-> n.size, label |-> n.label, parts |-> n.parts,
            labels |-> n.labels, at |-> n.at, length |-> n.length ]
  BY <1>1, <1>2
<1>5. /\ t.kind \in Kinds /\ t.size \in Nat /\ t.size > 0 /\ t.label \in STRING /\ t.parts \in Seq(DOMAIN types)
      /\ t.labels \in Seq(STRING) /\ t.at \in Seq(Nat) /\ t.length \in Nat
  BY <1>1
<1>6. n.label \in Names
  BY <1>3, <1>5, NormalIs
<1>7. QED
  BY <1>3, <1>4, <1>5, <1>6

(* It is laid out as they are.                                             *)
LEMMA NodesLaid ==
  ASSUME NEW types, LaidOut(types)
  PROVE  Laid(Nodes(types)) /\ DOMAIN Nodes(types) = DOMAIN types
<1>1. DOMAIN Nodes(types) = DOMAIN types /\ IsFiniteSet(DOMAIN types)
  BY DEF Nodes, LaidOut
<1> DEFINE all == Nodes(types)
<1>2. SUFFICES ASSUME NEW id \in DOMAIN types
               PROVE  LET t == all[id]
                          size(i) == all[t.parts[i]].size
                      IN  /\ t = [ kind |-> t.kind, size |-> t.size, label |-> t.label, parts |-> t.parts,
                                   labels |-> t.labels, at |-> t.at, length |-> t.length ]
                          /\ t.kind \in Kinds /\ t.size \in Nat /\ t.size > 0 /\ t.label \in Names /\ t.length \in Nat
                          /\ t.parts \in Seq(DOMAIN types) /\ t.labels \in Seq(Names) /\ t.at \in Seq(Nat)
                          /\ t.kind = "mapping" => Len(t.parts) = 2 /\ t.size = SLOT
                          /\ t.kind \in {"array", "dynamic_array"} => Len(t.parts) = 1
                          /\ t.kind = "dynamic_array" => t.size = SLOT
                          /\ t.kind = "struct" => Len(t.parts) = Len(t.at) /\ Len(t.labels) = Len(t.at) /\ IsInjective(t.labels)
                          /\ t.kind \in {"value", "enum", "function", "bytes"} => Len(t.parts) = 0
                          /\ t.kind \notin {"value", "function", "bytes"} => t.label = ""
                          /\ t.kind = "array" => \A j \in 0 .. t.length - 1 : Element(size(1), j) + size(1) <= t.size
                          /\ t.kind = "struct" =>
                               /\ \A i \in DOMAIN t.at : t.at[i] + size(i) <= t.size
                               /\ \A i, j \in DOMAIN t.at : i < j => t.at[i] + size(i) <= t.at[j]
  <2> HIDE DEF all
  <2>1. QED
    BY <1>1, <1>2 DEF Laid, all
<1>3. PICK t : t = types[id]
  OBVIOUS
<1>4. PICK n : n = all[id]
  OBVIOUS
<1>5. /\ n.kind = t.kind /\ n.size = t.size /\ n.label = Normal(t.label) /\ n.parts = t.parts
      /\ n.labels = t.labels /\ n.at = t.at /\ n.length = t.length
      /\ n = [ kind |-> n.kind, size |-> n.size, label |-> n.label, parts |-> n.parts,
               labels |-> n.labels, at |-> n.at, length |-> n.length ]
      /\ t.kind \in Kinds /\ t.size \in Nat /\ t.size > 0 /\ n.label \in Names /\ t.parts \in Seq(DOMAIN types)
      /\ t.labels \in Seq(STRING) /\ t.at \in Seq(Nat) /\ t.length \in Nat
  BY <1>3, <1>4, NodesAre
<1>6. t.labels \in Seq(Names)
  <2>1. PICK labels : labels = t.labels
    OBVIOUS
  <2>2. labels \in Seq(STRING)
    BY <1>5, <2>1
  <2>3. labels \in Seq(Names)
    BY <2>2 DEF Names
  <2>4. QED
    BY <2>1, <2>3
<1>7. Len(t.parts) = CASE t.kind = "mapping"                    -> 2
                       [] t.kind \in {"array", "dynamic_array"} -> 1
                       [] t.kind = "struct"                     -> Len(t.at)
                       [] OTHER                                 -> 0
  BY <1>3 DEF LaidOut
<1>8. /\ t.kind = "mapping" => Len(t.parts) = 2
      /\ t.kind \in {"array", "dynamic_array"} => Len(t.parts) = 1
      /\ t.kind = "struct" => Len(t.parts) = Len(t.at)
      /\ t.kind \in {"value", "enum", "function", "bytes"} => Len(t.parts) = 0
  BY <1>7
<1>9. /\ t.kind \notin {"value", "function", "bytes"} => t.label = ""
      /\ t.kind \in {"mapping", "dynamic_array"} => t.size = SLOT
      /\ t.kind = "struct" => Len(t.labels) = Len(t.at) /\ IsInjective(t.labels)
  BY <1>3 DEF LaidOut
<1>10. t.kind \notin {"value", "function", "bytes"} => n.label = ""
  BY <1>5, <1>9, NormalNone
<1>11. PICK parts, at : parts = t.parts /\ at = t.at
  OBVIOUS
<1>12. parts \in Seq(DOMAIN types) /\ at \in Seq(Nat)
  BY <1>5, <1>11
<1>13. \A i \in 1 .. Len(parts) : all[parts[i]].size = types[parts[i]].size
  <2>1. ASSUME NEW i \in 1 .. Len(parts) PROVE all[parts[i]].size = types[parts[i]].size
    <3>1. PICK part, x, y : part = parts[i] /\ x = types[part] /\ y = all[part]
      OBVIOUS
    <3>2. part \in DOMAIN types
      BY <1>12, <3>1
    <3>3. y.size = x.size
      BY <3>1, <3>2, NodesAre
    <3>4. QED
      BY <3>1, <3>3
  <2>2. QED
    BY <2>1
<1>14. ASSUME n.kind = "array", NEW j \in 0 .. n.length - 1
       PROVE  Element(all[n.parts[1]].size, j) + all[n.parts[1]].size <= n.size
  <2>1. Element(types[parts[1]].size, j) + types[parts[1]].size <= t.size
    BY <1>3, <1>5, <1>11, <1>14 DEF LaidOut
  <2>2. Len(parts) = 1
    BY <1>5, <1>8, <1>11, <1>14
  <2>3. 1 \in 1 .. Len(parts)
    BY <2>2
  <2> HIDE DEF all
  <2>4. all[parts[1]].size = types[parts[1]].size
    BY <1>13, <2>3
  <2>5. QED
    BY <1>5, <1>11, <2>1, <2>4
<1>15. ASSUME n.kind = "struct"
       PROVE  /\ \A i \in DOMAIN n.at : n.at[i] + all[n.parts[i]].size <= n.size
              /\ \A i, j \in DOMAIN n.at : i < j => n.at[i] + all[n.parts[i]].size <= n.at[j]
  <2>1. /\ \A i \in DOMAIN at : at[i] + types[parts[i]].size <= t.size
        /\ \A i, j \in DOMAIN at : i < j => at[i] + types[parts[i]].size <= at[j]
    BY <1>3, <1>5, <1>11, <1>15 DEF LaidOut
  <2>2. Len(parts) = Len(at)
    BY <1>5, <1>8, <1>11, <1>15
  <2>3. \A i \in DOMAIN at : i \in 1 .. Len(parts)
    BY <1>12, <2>2
  <2> HIDE DEF all
  <2>4. \A i \in DOMAIN at : all[parts[i]].size = types[parts[i]].size
    BY <1>13, <2>3
  <2>5. QED
    BY <1>5, <1>11, <2>1, <2>4
<1> HIDE DEF all
<1>16. /\ n.kind \in Kinds /\ n.size \in Nat /\ n.size > 0 /\ n.label \in Names /\ n.length \in Nat
       /\ n.parts \in Seq(DOMAIN types) /\ n.labels \in Seq(Names) /\ n.at \in Seq(Nat)
  BY <1>5, <1>6
<1>17. /\ n.kind = "mapping" => Len(n.parts) = 2 /\ n.size = SLOT
       /\ n.kind \in {"array", "dynamic_array"} => Len(n.parts) = 1
       /\ n.kind = "dynamic_array" => n.size = SLOT
       /\ n.kind = "struct" => Len(n.parts) = Len(n.at) /\ Len(n.labels) = Len(n.at) /\ IsInjective(n.labels)
       /\ n.kind \in {"value", "enum", "function", "bytes"} => Len(n.parts) = 0
  BY <1>5, <1>8, <1>9
<1>18. n.kind \notin {"value", "function", "bytes"} => n.label = ""
  BY <1>5, <1>10
<1>19. n = [ kind |-> n.kind, size |-> n.size, label |-> n.label, parts |-> n.parts,
             labels |-> n.labels, at |-> n.at, length |-> n.length ]
  BY <1>5
<1>20. QED
  BY <1>4, <1>14, <1>15, <1>16, <1>17, <1>18, <1>19

(* IsPrefix, position by position.                                         *)
LEMMA PrefixIs ==
  ASSUME NEW S, NEW s \in Seq(S), NEW t \in Seq(S)
  PROVE  IsPrefix(s, t) <=> Len(s) <= Len(t) /\ \A i \in 1 .. Len(s) : s[i] = t[i]
<1>1. ASSUME Len(s) <= Len(t)
      PROVE  /\ SubSeq(s, 1, Len(s)) \in Seq(S) /\ Len(SubSeq(s, 1, Len(s))) = Len(s)
             /\ SubSeq(t, 1, Len(s)) \in Seq(S) /\ Len(SubSeq(t, 1, Len(s))) = Len(s)
             /\ \A i \in 1 .. Len(s) : SubSeq(s, 1, Len(s))[i] = s[i] /\ SubSeq(t, 1, Len(s))[i] = t[i]
  BY <1>1
<1>2. ASSUME Len(s) <= Len(t) PROVE IsPrefix(s, t) <=> \A i \in 1 .. Len(s) : s[i] = t[i]
  <2>1. PICK x, y : x = SubSeq(s, 1, Len(s)) /\ y = SubSeq(t, 1, Len(s))
    OBVIOUS
  <2>2. /\ x \in Seq(S) /\ y \in Seq(S) /\ Len(x) = Len(s) /\ Len(y) = Len(s)
        /\ \A i \in 1 .. Len(s) : x[i] = s[i] /\ y[i] = t[i]
    BY <1>1, <1>2, <2>1
  <2>3. x = y <=> \A i \in 1 .. Len(s) : x[i] = y[i]
    <3>1. x = [i \in 1 .. Len(x) |-> x[i]]
      BY <2>2
    <3>2. y = [i \in 1 .. Len(y) |-> y[i]]
      BY <2>2
    <3>3. QED
      BY <2>2, <3>1, <3>2
  <2>4. QED
    BY <1>2, <2>1, <2>2, <2>3 DEF IsPrefix
<1>3. IsPrefix(s, t) => Len(s) <= Len(t)
  BY DEF IsPrefix
<1>4. QED
  BY <1>2, <1>3

(* What is compared, of two types that are laid out.                       *)
Shapes(T, a, U, b, old, new) ==
  LaidOut(T) /\ a \in DOMAIN T /\ LaidOut(U) /\ b \in DOMAIN U /\ old = Shape(T, a) /\ new = Shape(U, b)

(* All pairs that come of the roots are compared.                          *)
LEMMA PairsAre ==
  ASSUME NEW T, NEW a, NEW U, NEW b, NEW old, NEW new, Shapes(T, a, U, b, old, new)
  PROVE  /\ old.nodes = Nodes(T) /\ new.nodes = Nodes(U) /\ Laid(Nodes(T)) /\ Laid(Nodes(U))
         /\ <<a, b>> \in Pairs(old, new) /\ Pairs(old, new) \subseteq (DOMAIN Nodes(T)) \X (DOMAIN Nodes(U))
         /\ \A pair \in Pairs(old, new) : PartPairs(Nodes(T)[pair[1]], Nodes(U)[pair[2]]) \subseteq Pairs(old, new)
<1>1. LaidOut(T) /\ a \in DOMAIN T /\ LaidOut(U) /\ b \in DOMAIN U
  BY DEF Shapes
<1>2. old.root = a /\ new.root = b /\ old.nodes = Nodes(T) /\ new.nodes = Nodes(U)
  BY DEF Shapes, Shape, Nodes
<1>3. PICK M, N : M = Nodes(T) /\ N = Nodes(U)
  OBVIOUS
<1>4. Laid(M) /\ Laid(N) /\ DOMAIN M = DOMAIN T /\ DOMAIN N = DOMAIN U
  BY <1>1, <1>3, NodesLaid
<1>5. AllPairs(old, new) = (DOMAIN M) \X (DOMAIN N)
  BY <1>2, <1>3 DEF AllPairs
<1>6. IsFiniteSet(DOMAIN old.nodes) /\ IsFiniteSet(DOMAIN new.nodes)
  BY <1>2, <1>3, <1>4 DEF Laid
<1>7. PartsPair(old, new)
  <2>1. SUFFICES ASSUME NEW x \in DOMAIN M, NEW y \in DOMAIN N
                 PROVE  PartPairs(M[x], N[y]) \subseteq (DOMAIN M) \X (DOMAIN N)
    BY <1>2, <1>3, <1>5 DEF PartsPair
  <2>2. PICK s, t : s = M[x] /\ t = N[y]
    OBVIOUS
  <2>3. s.parts \in Seq(DOMAIN M)
    BY <1>4, <2>2, TypeIs
  <2>4. t.parts \in Seq(DOMAIN N)
    BY <1>4, <2>2, TypeIs
  <2>5. PICK p, q : p = s.parts /\ q = t.parts
    OBVIOUS
  <2>6. \A i \in DOMAIN p : p[i] \in DOMAIN M
    BY <2>3, <2>5
  <2>7. \A i \in DOMAIN q : q[i] \in DOMAIN N
    BY <2>4, <2>5
  <2>8. QED
    BY <2>2, <2>5, <2>6, <2>7 DEF PartPairs
<1>8. PICK x : x = <<old.root, new.root>>
  OBVIOUS
<1>9. x \in AllPairs(old, new) /\ x = <<a, b>>
  BY <1>1, <1>2, <1>4, <1>5, <1>8
<1>10. /\ x \in Pairs(old, new) /\ Pairs(old, new) \subseteq AllPairs(old, new)
       /\ PairsNext(old, new, Pairs(old, new)) = Pairs(old, new)
  BY <1>6, <1>7, <1>8, <1>9, Saturates
<1>11. \A pair \in Pairs(old, new) : PartPairs(M[pair[1]], N[pair[2]]) \subseteq Pairs(old, new)
  BY <1>2, <1>3, <1>10 DEF PairsNext
<1>12. QED
  BY <1>2, <1>3, <1>4, <1>5, <1>9, <1>10, <1>11

(* What _fit finds of types is what their cells need.                      *)
LEMMA FitCovers ==
  ASSUME NEW T, NEW a, NEW U, NEW b, NEW old, NEW new, Shapes(T, a, U, b, old, new), Fit(old, new)
  PROVE  /\ Covers(Nodes(T), Nodes(U), Pairs(old, new)) /\ MovesNone(Nodes(T), Nodes(U), Pairs(old, new))
         /\ ~Noted(old, new) => Named(Nodes(T), Nodes(U), Pairs(old, new))
<1>1. PICK M, N, R : M = Nodes(T) /\ N = Nodes(U) /\ R = Pairs(old, new)
  OBVIOUS
<1>2. /\ old.nodes = M /\ new.nodes = N /\ Laid(M) /\ Laid(N)
      /\ R \subseteq (DOMAIN M) \X (DOMAIN N)
      /\ \A pair \in R : PartPairs(M[pair[1]], N[pair[2]]) \subseteq R
  <2>1. /\ old.nodes = Nodes(T) /\ new.nodes = Nodes(U) /\ Laid(Nodes(T)) /\ Laid(Nodes(U))
        /\ <<a, b>> \in Pairs(old, new) /\ Pairs(old, new) \subseteq (DOMAIN Nodes(T)) \X (DOMAIN Nodes(U))
        /\ \A pair \in Pairs(old, new) : PartPairs(Nodes(T)[pair[1]], Nodes(U)[pair[2]]) \subseteq Pairs(old, new)
    BY PairsAre
  <2>2. QED
    BY <1>1, <2>1
<1>3. SUFFICES ASSUME NEW x \in DOMAIN M, NEW y \in DOMAIN N, <<x, y>> \in R, NEW s, s = M[x], NEW t, t = N[y]
               PROVE  /\ s.kind = t.kind /\ s.label = t.label
                      /\ \A i \in Nat : i \in DOMAIN s.parts /\ i \in DOMAIN t.parts => <<s.parts[i], t.parts[i]>> \in R
                      /\ Holds(s) => s.size = t.size
                      /\ s.kind \in {"array", "dynamic_array"} => M[s.parts[1]].size = N[t.parts[1]].size
                      /\ s.kind = "array" => s.length <= t.length
                      /\ s.kind = "struct" =>
                           /\ Len(s.at) <= Len(t.at)
                           /\ \A i \in 1 .. Len(s.at) : s.at[i] = t.at[i]
                           /\ \A i \in 1 .. Len(s.labels), j \in 1 .. Len(t.labels) :
                                s.labels[i] = t.labels[j] => s.at[i] = t.at[j]
                      /\ ~Noted(old, new) => s.labels = t.labels
  <2>1. Covers(M, N, R)
    BY <1>2, <1>3 DEF Covers
  <2>2. MovesNone(M, N, R)
    BY <1>3 DEF MovesNone
  <2>3. ~Noted(old, new) => Named(M, N, R)
    BY <1>3 DEF Named
  <2>4. QED
    BY <1>1, <2>1, <2>2, <2>3
<1>4. FitsAlone(old, new, s, t)
  <2>1. PICK pair : pair = <<x, y>>
    OBVIOUS
  <2>2. pair \in Pairs(old, new) /\ pair[1] = x /\ pair[2] = y
    BY <1>1, <1>3, <2>1
  <2>3. FitsAlone(old, new, old.nodes[pair[1]], new.nodes[pair[2]])
    BY <2>2 DEF Fit
  <2>4. QED
    BY <1>2, <1>3, <2>2, <2>3
<1>5. /\ s.kind = t.kind
      /\ s.kind \in {"array", "dynamic_array"} => M[s.parts[1]].size = N[t.parts[1]].size /\ t.length >= s.length
      /\ s.kind = "enum" => s.size = t.size
      /\ s.kind = "struct" => ~MemberMoved(s, t) /\ IsPrefix(s.at, t.at)
      /\ s.kind \in {"value", "function", "bytes"} => s = t
  BY <1>2, <1>4 DEF FitsAlone
<1>6. /\ s.kind \in Kinds /\ s.length \in Nat /\ s.at \in Seq(Nat) /\ s.labels \in Seq(Names)
      /\ s.kind = "dynamic_array" => s.size = SLOT
      /\ s.kind \notin {"value", "function", "bytes"} => s.label = ""
  BY ONLY <1>2, <1>3 DEF Laid
<1>7. /\ t.length \in Nat /\ t.at \in Seq(Nat) /\ t.labels \in Seq(Names)
      /\ t.kind = "dynamic_array" => t.size = SLOT
      /\ t.kind \notin {"value", "function", "bytes"} => t.label = ""
  BY ONLY <1>2, <1>3 DEF Laid
<1>8. s.label = t.label
  BY <1>5, <1>6, <1>7
<1>9. Holds(s) => s.size = t.size
  BY <1>5, <1>6, <1>7 DEF Holds, Kinds
<1>10. s.kind = "array" => s.length <= t.length
  BY <1>5, <1>6, <1>7
<1>11. \A i \in Nat : i \in DOMAIN s.parts /\ i \in DOMAIN t.parts => <<s.parts[i], t.parts[i]>> \in R
  <2>1. PartPairs(s, t) \subseteq R
    <3>1. PICK pair : pair = <<x, y>>
      OBVIOUS
    <3>2. pair \in R /\ pair[1] = x /\ pair[2] = y
      BY <1>3, <3>1
    <3>3. QED
      BY <1>2, <1>3, <3>2
  <2>2. QED
    BY <1>5, <2>1 DEF PartPairs
<1>12. ASSUME s.kind = "struct"
       PROVE  /\ Len(s.at) <= Len(t.at)
              /\ \A i \in 1 .. Len(s.at) : s.at[i] = t.at[i]
              /\ \A i \in 1 .. Len(s.labels), j \in 1 .. Len(t.labels) :
                   s.labels[i] = t.labels[j] => s.at[i] = t.at[j]
  <2>1. PICK u, v, p, q : u = s.at /\ v = t.at /\ p = s.labels /\ q = t.labels
    OBVIOUS
  <2>2. u \in Seq(Nat) /\ v \in Seq(Nat) /\ p \in Seq(Names) /\ q \in Seq(Names)
    BY <1>6, <1>7, <2>1
  <2>3. IsPrefix(u, v) /\ ~MemberMoved(s, t)
    BY <1>5, <1>12, <2>1
  <2>4. Len(u) <= Len(v) /\ \A i \in 1 .. Len(u) : u[i] = v[i]
    BY <2>2, <2>3, PrefixIs
  <2>5. \A i \in DOMAIN p, j \in DOMAIN q : p[i] = q[j] => u[i] = v[j]
    BY <2>1, <2>3 DEF MemberMoved
  <2>6. DOMAIN p = 1 .. Len(p) /\ DOMAIN q = 1 .. Len(q)
    BY <2>2
  <2>7. QED
    BY <2>1, <2>4, <2>5, <2>6
<1>13. ~Noted(old, new) => s.labels = t.labels
  <2>1. PICK pair : pair = <<x, y>>
    OBVIOUS
  <2>2. pair \in Pairs(old, new) /\ pair[1] = x /\ pair[2] = y
    BY <1>1, <1>3, <2>1
  <2>3. ~Noted(old, new) => old.nodes[pair[1]].labels = new.nodes[pair[2]].labels
    BY <2>2 DEF Noted
  <2>4. QED
    BY <1>2, <1>3, <2>2, <2>3
<1>14. QED
  BY <1>5, <1>8, <1>9, <1>10, <1>11, <1>12, <1>13

-----------------------------------------------------------------------------
(* Cells: what is held at the places reached.                              *)

(* What a place that holds something holds.                                *)
What(t) == IF t.kind = "enum" THEN <<"enum">> \o t.labels ELSE <<t.kind, t.label>>

(* Held is that, or nothing.                                               *)
LEMMA HeldIs ==
  ASSUME NEW t, t.kind \in Kinds
  PROVE  Held(t) = IF Holds(t) THEN {What(t)} ELSE {}
<1>1. CASE t.kind \in {"mapping", "array", "struct"}
  <2>1. Held(t) = {} /\ ~Holds(t)
    BY <1>1 DEF Held, Holds
  <2>2. QED
    BY <2>1
<1>2. CASE t.kind = "enum"
  <2>1. Held(t) = {<<"enum">> \o t.labels} /\ Holds(t)
    BY <1>2 DEF Held, Holds
  <2>2. QED
    BY <1>2, <2>1 DEF What
<1>3. CASE t.kind \notin {"mapping", "array", "struct", "enum"}
  <2>1. Held(t) = {<<t.kind, t.label>>} /\ Holds(t)
    BY <1>3 DEF Held, Holds
  <2>2. QED
    BY <1>3, <2>1 DEF What
<1>4. QED
  BY <1>1, <1>2, <1>3

(* The cell of a place.                                                    *)
CellAt(types, P) ==
  [ region |-> P.region, start |-> P.start, end |-> P.start + types[P.type].size,
    what |-> What(types[P.type]), path |-> P.path ]

(* A declaration of a type that is laid out, and a cell it reaches.        *)
Declared(d, T, id) ==
  /\ LaidOut(T) /\ id \in DOMAIN T /\ d.shape = Shape(T, id)
  /\ d.start \in Nat /\ d.label \in STRING /\ d.end = d.start + T[id].size

(* A cell of a declaration, and the place it is of.                        *)
Reached(T, d, cell, n, P) ==
  /\ n \in 0 .. DEPTH /\ P \in From(Nodes(T), Root(d))[n]
  /\ Holds(Nodes(T)[P.type]) /\ cell = CellAt(Nodes(T), P)

(* A declaration's root is a place of its graph.                           *)
LEMMA RootIs ==
  ASSUME NEW d, NEW T, NEW id, Declared(d, T, id)
  PROVE  /\ Laid(Nodes(T)) /\ d.shape.nodes = Nodes(T) /\ Root(d) \in AllPlaces(Nodes(T))
         /\ Root(d).type = id /\ Root(d).region = <<>> /\ Root(d).start = d.start /\ Root(d).path = <<d.label>>
         /\ id \in DOMAIN Nodes(T) /\ Nodes(T)[id].size = T[id].size /\ T[id].size \in Nat
<1>1. LaidOut(T) /\ id \in DOMAIN T /\ d.shape = Shape(T, id) /\ d.start \in Nat /\ d.label \in STRING
  BY DEF Declared
<1>2. Laid(Nodes(T)) /\ DOMAIN Nodes(T) = DOMAIN T
  BY <1>1, NodesLaid
<1>3. d.shape.nodes = Nodes(T) /\ d.shape.root = id
  BY <1>1 DEF Shape, Nodes
<1>4. /\ Root(d).type = id /\ Root(d).region = <<>> /\ Root(d).start = d.start /\ Root(d).path = <<d.label>>
      /\ Root(d) = [type |-> id, region |-> <<>>, start |-> d.start, path |-> <<d.label>>]
  BY <1>3 DEF Root
<1>5. Root(d) \in AllPlaces(Nodes(T))
  <2>1. <<d.label>> \in Seq(Names)
    BY <1>1 DEF Names
  <2>2. <<>> \in Seq(Nat \X Names)
    OBVIOUS
  <2>3. QED
    BY <1>1, <1>2, <1>4, <2>1, <2>2 DEF AllPlaces
<1>6. PICK n, t : n = Nodes(T)[id] /\ t = T[id]
  OBVIOUS
<1>7. n.size = t.size /\ t.size \in Nat
  BY <1>1, <1>6, NodesAre
<1>8. QED
  BY <1>1, <1>2, <1>3, <1>4, <1>5, <1>6, <1>7

(* CellsOf is what is reached.                                             *)
LEMMA CellIs ==
  ASSUME NEW d, NEW T, NEW id, Declared(d, T, id), NEW cell
  PROVE  cell \in CellsOf(d, DEPTH) <=> \E n, P : Reached(T, d, cell, n, P)
<1>1. PICK N : N = Nodes(T)
  OBVIOUS
<1>2. Laid(N) /\ d.shape.nodes = N /\ Root(d) \in AllPlaces(N)
  BY <1>1, RootIs
<1>3. \A n \in 0 .. DEPTH : Places(d, n) = From(N, Root(d))[n]
  <2>1. ASSUME NEW n \in Nat PROVE Places(d, n) = From(N, Root(d))[n]
    BY <1>2, PlacesIs
  <2>2. DEPTH \in Nat
    BY UpgradesAssumption
  <2>3. QED
    BY <2>1, <2>2
<1>4. \A n \in 0 .. DEPTH : From(N, Root(d))[n] \subseteq AllPlaces(N)
  <2>1. From(N, Root(d)) \in [Nat -> SUBSET AllPlaces(N)]
    BY <1>2, FromIs
  <2>2. DEPTH \in Nat
    BY UpgradesAssumption
  <2>3. QED
    BY <2>1, <2>2
<1>5. ASSUME NEW P \in AllPlaces(N)
      PROVE  CellsAtPlace(N, P) = IF Holds(N[P.type]) THEN {CellAt(N, P)} ELSE {}
  <2>1. PICK t : t = N[P.type]
    OBVIOUS
  <2>2. P.type \in DOMAIN N
    BY DEF AllPlaces
  <2>3. t.kind \in Kinds
    BY <1>2, <2>1, <2>2 DEF Laid
  <2>4. Held(t) = IF Holds(t) THEN {What(t)} ELSE {}
    BY <2>3, HeldIs
  <2>5. CellsAtPlace(N, P) = {[region |-> P.region, start |-> P.start, end |-> P.start + t.size,
                               what |-> what, path |-> P.path] : what \in Held(t)}
    BY <2>1 DEF CellsAtPlace
  <2>6. CellAt(N, P) = [region |-> P.region, start |-> P.start, end |-> P.start + t.size,
                        what |-> What(t), path |-> P.path]
    BY <2>1 DEF CellAt
  <2>7. CASE Holds(t)
    <3>1. Held(t) = {What(t)}
      BY <2>4, <2>7
    <3>2. QED
      BY <2>1, <2>5, <2>6, <2>7, <3>1
  <2>8. CASE ~Holds(t)
    <3>1. Held(t) = {}
      BY <2>4, <2>8
    <3>2. QED
      BY <2>1, <2>5, <2>8, <3>1
  <2>9. QED
    BY <2>7, <2>8
<1>6. cell \in CellsOf(d, DEPTH) <=> \E n \in 0 .. DEPTH : \E P \in From(N, Root(d))[n] : cell \in CellsAtPlace(N, P)
  <2>1. cell \in CellsOf(d, DEPTH) <=> \E n \in 0 .. DEPTH : \E P \in Places(d, n) : cell \in CellsAtPlace(N, P)
    BY <1>2 DEF CellsOf
  <2>2. QED
    BY <1>3, <2>1
<1>7. QED
  BY <1>1, <1>4, <1>5, <1>6 DEF Reached

(* The cells of two declarations are places of two graphs.                 *)
LEMMA ReachedIs ==
  ASSUME NEW T, NEW id, NEW d, Declared(d, T, id), NEW cell, NEW n, NEW P, Reached(T, d, cell, n, P)
  PROVE  /\ n \in Nat /\ P \in AllPlaces(Nodes(T)) /\ P \in From(Nodes(T), Root(d))[n] /\ Holds(Nodes(T)[P.type])
         /\ cell.region = P.region /\ cell.start = P.start /\ cell.path = P.path
         /\ cell.end = P.start + Nodes(T)[P.type].size /\ cell.what = What(Nodes(T)[P.type])
         /\ Nodes(T)[P.type].size \in Nat /\ cell = CellAt(Nodes(T), P)
<1>1. PICK N : N = Nodes(T)
  OBVIOUS
<1>2. Laid(N) /\ Root(d) \in AllPlaces(N)
  BY <1>1, RootIs
<1>3. n \in Nat /\ P \in From(N, Root(d))[n] /\ Holds(N[P.type]) /\ cell = CellAt(N, P)
  <2>1. DEPTH \in Nat
    BY UpgradesAssumption
  <2>2. QED
    BY <1>1, <2>1 DEF Reached
<1>4. P \in AllPlaces(N)
  <2>1. From(N, Root(d)) \in [Nat -> SUBSET AllPlaces(N)]
    BY <1>2, FromIs
  <2>2. QED
    BY <1>3, <2>1
<1>5. P.type \in DOMAIN N
  BY <1>4 DEF AllPlaces
<1>6. N[P.type].size \in Nat
  BY <1>2, <1>5 DEF Laid
<1>7. /\ cell.region = P.region /\ cell.start = P.start /\ cell.path = P.path
      /\ cell.end = P.start + N[P.type].size /\ cell.what = What(N[P.type])
  BY <1>3 DEF CellAt
<1>8. QED
  BY <1>1, <1>3, <1>4, <1>6, <1>7

(* Declarations apart have cells apart.                                    *)
LEMMA RootHolds ==
  ASSUME NEW T, NEW id, NEW d, Declared(d, T, id), NEW cell, NEW n, NEW P, Reached(T, d, cell, n, P)
  PROVE  InRoom(<<>>, d.start, T[id].size, P, Nodes(T)[P.type].size)
<1>1. PICK N, p, S : N = Nodes(T) /\ p = Root(d) /\ S = Same(N)
  OBVIOUS
<1>2. /\ Laid(N) /\ p \in AllPlaces(N) /\ p.type = id /\ p.region = <<>> /\ p.start = d.start
      /\ id \in DOMAIN N /\ N[id].size = T[id].size
  BY <1>1, RootIs
<1>3. n \in Nat /\ P \in From(N, p)[n] /\ Holds(N[P.type])
  BY <1>1, ReachedIs
<1>4. Covers(N, N, S)
  BY <1>1, <1>2, SameCovers
<1>5. WithinAt(N, N, S, n)
  BY <1>2, <1>3, <1>4, Within
<1>6. <<p.type, id>> \in S
  BY <1>1, <1>2 DEF Same
<1>7. InRoom(p.region, p.start, N[id].size, P, N[P.type].size)
  BY <1>2, <1>3, <1>5, <1>6 DEF WithinAt
<1>8. QED
  BY <1>1, <1>2, <1>7

(* Declarations that do not overlap have no cells that meet.               *)
LEMMA RootsMiss ==
  ASSUME NEW T, NEW a, NEW d, Declared(d, T, a), NEW U, NEW b, NEW e, Declared(e, U, b), ~Overlap(d, e),
         NEW x, NEW n, NEW P, Reached(T, d, x, n, P), NEW y, NEW m, NEW Q, Reached(U, e, y, m, Q)
  PROVE  ~Meet(x, y)
<1>1. PICK M, N : M = Nodes(T) /\ N = Nodes(U)
  OBVIOUS
<1>2. /\ P \in AllPlaces(M) /\ x.region = P.region /\ x.start = P.start
      /\ x.end = P.start + M[P.type].size /\ M[P.type].size \in Nat
  BY <1>1, ReachedIs
<1>3. /\ Q \in AllPlaces(N) /\ y.region = Q.region /\ y.start = Q.start
      /\ y.end = Q.start + N[Q.type].size /\ N[Q.type].size \in Nat
  BY <1>1, ReachedIs
<1>4. PICK wide, size : wide = M[P.type].size /\ size = N[Q.type].size
  OBVIOUS
<1>5. d.start \in Nat /\ d.end = d.start + T[a].size /\ e.start \in Nat /\ e.end = e.start + U[b].size
  BY DEF Declared
<1>6. T[a].size \in Nat
  BY RootIs
<1>7. U[b].size \in Nat
  BY RootIs
<1>8. PICK region : region = <<>>
  OBVIOUS
<1>9. InRoom(region, d.start, T[a].size, P, wide)
  BY <1>1, <1>4, <1>8, RootHolds
<1>10. InRoom(region, e.start, U[b].size, Q, size)
  BY <1>1, <1>4, <1>8, RootHolds
<1>11. PICK low, high, least, most : low = d.start /\ high = d.end /\ least = e.start /\ most = e.end
  OBVIOUS
<1>12. Spans(region, low, high, P, wide) /\ Spans(region, least, most, Q, size)
  BY <1>5, <1>9, <1>10, <1>11 DEF InRoom
<1>13. low \in Int /\ high \in Int /\ least \in Int /\ most \in Int /\ (high <= least \/ most <= low)
  BY <1>5, <1>6, <1>7, <1>11 DEF Overlap
<1>14. /\ P.start \in Nat /\ P.region \in Seq(Nat \X Names) /\ wide \in Nat
       /\ Q.start \in Nat /\ Q.region \in Seq(Nat \X Names) /\ size \in Nat
  BY <1>2, <1>3, <1>4 DEF AllPlaces
<1>15. region \in Seq(Nat \X Names)
  BY <1>8
<1>16. ~Meeting(P, wide, Q, size)
  BY <1>12, <1>13, <1>14, <1>15, SpansApart
<1>17. QED
  BY <1>2, <1>3, <1>4, <1>16 DEF Meet, Meeting

(* Declarations in one place have cells in one place.                      *)
LEMMA CellsPair ==
  ASSUME NEW T, NEW a, NEW d, Declared(d, T, a), NEW U, NEW b, NEW e, Declared(e, U, b), d.start = e.start,
         NEW R, Covers(Nodes(T), Nodes(U), R), <<a, b>> \in R,
         NEW x, NEW n, NEW P, Reached(T, d, x, n, P), NEW y, NEW m, NEW Q, Reached(U, e, y, m, Q), Meet(x, y)
  PROVE  /\ <<P.type, Q.type>> \in R /\ x.region = y.region /\ x.start = y.start /\ x.end = y.end
         /\ Named(Nodes(T), Nodes(U), R) /\ d.label = e.label => x.path = y.path
<1>1. PICK M, N, p, r : M = Nodes(T) /\ N = Nodes(U) /\ p = Root(d) /\ r = Root(e)
  OBVIOUS
<1>2. /\ n \in Nat /\ P \in From(M, p)[n] /\ Holds(M[P.type])
      /\ P \in AllPlaces(M) /\ x.region = P.region /\ x.start = P.start /\ x.path = P.path
      /\ x.end = P.start + M[P.type].size
  BY <1>1, ReachedIs
<1>3. /\ m \in Nat /\ Q \in From(N, r)[m] /\ Holds(N[Q.type])
      /\ Q \in AllPlaces(N) /\ y.region = Q.region /\ y.start = Q.start /\ y.path = Q.path
      /\ y.end = Q.start + N[Q.type].size
  BY <1>1, ReachedIs
<1>4. /\ Laid(M) /\ p \in AllPlaces(M) /\ p.type = a /\ p.region = <<>> /\ p.start = d.start /\ p.path = <<d.label>>
  BY <1>1, RootIs
<1>5. /\ Laid(N) /\ r \in AllPlaces(N) /\ r.type = b /\ r.region = <<>> /\ r.start = e.start /\ r.path = <<e.label>>
  BY <1>1, RootIs
<1>6. Paired(M, N, R, p, r) /\ Covers(M, N, R)
  BY <1>1, <1>4, <1>5 DEF Paired
<1>7. TogetherAt(M, N, R, n)
  BY <1>2, <1>4, <1>5, <1>6, Together
<1>8. Touching(M, N, P, Q)
  BY <1>2, <1>3 DEF Meet, Meeting, Touching
<1>9. Agree(M, N, R, p, r, P, Q)
  BY <1>2, <1>3, <1>6, <1>7, <1>8 DEF TogetherAt
<1>10. <<P.type, Q.type>> \in R /\ P.start = Q.start /\ (Named(M, N, R) /\ p.path = r.path => P.path = Q.path)
  BY <1>9 DEF Agree
<1>11. P.type \in DOMAIN M /\ Q.type \in DOMAIN N
  BY <1>2, <1>3 DEF AllPlaces
<1>12. M[P.type].size = N[Q.type].size
  BY <1>2, <1>6, <1>10, <1>11 DEF Covers
<1>13. x.region = y.region
  BY DEF Meet
<1>14. QED
  BY <1>1, <1>2, <1>3, <1>4, <1>5, <1>10, <1>12, <1>13

(* Concatenation, by a name.                                               *)
Prepend(first, s) == first \o s

(* One element in front of others.                                         *)
LEMMA Prepended ==
  ASSUME NEW V, NEW first \in Seq(V), NEW s \in Seq(V), Len(first) = 1, NEW u, u = Prepend(first, s)
  PROVE  /\ u \in Seq(V) /\ Len(u) = Len(s) + 1 /\ u[1] = first[1]
         /\ \A i \in 1 .. Len(u) : i # 1 => u[i] = s[i - 1]
<1>1. /\ first \o s \in Seq(V)
      /\ Len(first \o s) = Len(first) + Len(s)
      /\ \A i \in 1 .. Len(first) + Len(s) : (first \o s)[i] = IF i <= Len(first) THEN first[i] ELSE s[i - Len(first)]
  BY ConcatProperties
<1>2. /\ u \in Seq(V) /\ Len(u) = 1 + Len(s)
      /\ \A i \in 1 .. 1 + Len(s) : u[i] = IF i <= 1 THEN first[i] ELSE s[i - 1]
  BY ONLY <1>1, Len(first) = 1, u = Prepend(first, s) DEF Prepend
<1>3. Len(s) \in Nat
  OBVIOUS
<1>4. QED
  BY <1>2, <1>3

(* An enum that grows keeps what its first names meant.                    *)
LEMMA EnumPrefix ==
  ASSUME NEW S, NEW s \in Seq(S), NEW t \in Seq(S), IsPrefix(s, t)
  PROVE  Head(<<"enum">> \o s) = "enum" /\ IsPrefix(<<"enum">> \o s, <<"enum">> \o t)
<1> DEFINE V == S \union {"enum"}
           first == <<"enum">>
           u == Prepend(first, s)
           v == Prepend(first, t)
<1>1. Len(s) <= Len(t) /\ \A i \in 1 .. Len(s) : s[i] = t[i]
  BY PrefixIs
<1>2. first \in Seq(V) /\ s \in Seq(V) /\ t \in Seq(V) /\ Len(first) = 1 /\ first[1] = "enum"
  OBVIOUS
<1> HIDE DEF first, V
<1>3. /\ u \in Seq(V) /\ Len(u) = Len(s) + 1 /\ u[1] = "enum"
      /\ \A i \in 1 .. Len(u) : i # 1 => u[i] = s[i - 1]
  BY <1>2, Prepended
<1>4. /\ v \in Seq(V) /\ Len(v) = Len(t) + 1 /\ v[1] = "enum"
      /\ \A i \in 1 .. Len(v) : i # 1 => v[i] = t[i - 1]
  BY <1>2, Prepended
<1> HIDE DEF u, v
<1>5. Head(u) = "enum"
  BY <1>3
<1>6. Len(u) <= Len(v) /\ \A i \in 1 .. Len(u) : u[i] = v[i]
  <2>1. Len(s) \in Nat /\ Len(t) \in Nat
    OBVIOUS
  <2>2. ASSUME NEW i \in 1 .. Len(u) PROVE u[i] = v[i]
    <3>1. i \in 1 .. Len(v)
      BY <1>1, <1>3, <1>4, <2>1
    <3>2. CASE i = 1
      BY <1>3, <1>4, <3>2
    <3>3. CASE i # 1
      <4>1. i - 1 \in 1 .. Len(s)
        BY <1>3, <2>1, <3>3
      <4>2. u[i] = s[i - 1] /\ v[i] = t[i - 1]
        BY <1>3, <1>4, <3>1, <3>3
      <4>3. QED
        BY <1>1, <4>1, <4>2
    <3>4. QED
      BY <3>2, <3>3
  <2>3. QED
    BY <1>1, <1>3, <1>4, <2>1, <2>2
<1>7. IsPrefix(u, v)
  BY <1>3, <1>4, <1>6, PrefixIs
<1>8. QED
  BY <1>5, <1>7 DEF u, v, first, Prepend

(* What the commands compare is what is read back.                         *)
Keeps(o, n) == Overlap(o, n) => n.start = o.start /\ Fit(o.shape, n.shape)

(* Whatever a cell of the old wrote, one of the new that meets it reads.   *)
LEMMA KeptReads ==
  ASSUME NEW T, NEW a, NEW o, Declared(o, T, a), NEW U, NEW b, NEW n, Declared(n, U, b), Keeps(o, n),
         NEW x \in CellsOf(o, DEPTH), NEW y \in CellsOf(n, DEPTH)
  PROVE  ReadsAs(x, y)
<1>1. SUFFICES ASSUME Meet(x, y)
               PROVE  /\ x.start = y.start /\ x.end = y.end
                      /\ x.what = y.what \/ (Head(x.what) = "enum" /\ IsPrefix(x.what, y.what))
  BY DEF ReadsAs
<1>2. PICK i, P : Reached(T, o, x, i, P)
  BY CellIs
<1>3. PICK j, Q : Reached(U, n, y, j, Q)
  BY CellIs
<1>4. Overlap(o, n)
  BY <1>1, <1>2, <1>3, RootsMiss
<1>5. n.start = o.start /\ Fit(o.shape, n.shape)
  BY <1>4 DEF Keeps
<1>6. PICK old, new : old = o.shape /\ new = n.shape
  OBVIOUS
<1>7. Shapes(T, a, U, b, old, new) /\ Fit(old, new)
  BY <1>5, <1>6 DEF Declared, Shapes
<1>8. PICK M, N, R : M = Nodes(T) /\ N = Nodes(U) /\ R = Pairs(old, new)
  OBVIOUS
<1>9. Covers(M, N, R)
  <2>1. Covers(Nodes(T), Nodes(U), Pairs(old, new))
    BY <1>7, FitCovers
  <2>2. QED
    BY <1>8, <2>1
<1>10. old.nodes = M /\ new.nodes = N /\ <<a, b>> \in R
  <2>1. /\ old.nodes = Nodes(T) /\ new.nodes = Nodes(U) /\ Laid(Nodes(T)) /\ Laid(Nodes(U))
        /\ <<a, b>> \in Pairs(old, new) /\ Pairs(old, new) \subseteq (DOMAIN Nodes(T)) \X (DOMAIN Nodes(U))
        /\ \A pair \in Pairs(old, new) : PartPairs(Nodes(T)[pair[1]], Nodes(U)[pair[2]]) \subseteq Pairs(old, new)
    BY <1>7, PairsAre
  <2>2. QED
    BY <1>8, <2>1
<1>11. /\ <<P.type, Q.type>> \in R /\ x.region = y.region /\ x.start = y.start /\ x.end = y.end
       /\ Named(Nodes(T), Nodes(U), R) /\ o.label = n.label => x.path = y.path
  BY <1>1, <1>2, <1>3, <1>5, <1>8, <1>9, <1>10, CellsPair
<1>12. /\ P \in AllPlaces(M) /\ Holds(M[P.type]) /\ x.what = What(M[P.type])
  BY <1>2, <1>8, ReachedIs
<1>13. /\ Q \in AllPlaces(N) /\ Holds(N[Q.type]) /\ y.what = What(N[Q.type])
  BY <1>3, <1>8, ReachedIs
<1>14. PICK s, t : s = M[P.type] /\ t = N[Q.type]
  OBVIOUS
<1>15. P.type \in DOMAIN M /\ Q.type \in DOMAIN N
  BY <1>12, <1>13 DEF AllPlaces
<1>16. s.kind = t.kind /\ s.label = t.label
  BY <1>9, <1>11, <1>14, <1>15 DEF Covers
<1>17. FitsAlone(old, new, s, t)
  <2>1. PICK pair : pair = <<P.type, Q.type>>
    OBVIOUS
  <2>2. pair \in Pairs(old, new) /\ pair[1] = P.type /\ pair[2] = Q.type
    BY <1>8, <1>11, <2>1
  <2>3. FitsAlone(old, new, old.nodes[pair[1]], new.nodes[pair[2]])
    BY <1>7, <2>2 DEF Fit
  <2>4. QED
    BY <1>10, <1>14, <2>2, <2>3
<1>18. CASE s.kind = "enum"
  <2>1. IsPrefix(s.labels, t.labels)
    BY <1>17, <1>18 DEF FitsAlone
  <2>2. Laid(M) /\ Laid(N)
    BY <1>8, RootIs
  <2>3. s.labels \in Seq(Names) /\ t.labels \in Seq(Names)
    BY <1>14, <1>15, <2>2 DEF Laid
  <2>4. PICK u, v : u = s.labels /\ v = t.labels
    OBVIOUS
  <2>5. Head(<<"enum">> \o u) = "enum" /\ IsPrefix(<<"enum">> \o u, <<"enum">> \o v)
    BY <2>1, <2>3, <2>4, EnumPrefix
  <2>6. x.what = <<"enum">> \o u /\ y.what = <<"enum">> \o v
    BY <1>12, <1>13, <1>14, <1>16, <1>18, <2>4 DEF What
  <2>7. QED
    BY <1>11, <2>5, <2>6
<1>19. CASE s.kind # "enum"
  <2>1. x.what = y.what
    BY <1>12, <1>13, <1>14, <1>16, <1>19 DEF What
  <2>2. QED
    BY <1>11, <2>1
<1>20. QED
  BY <1>18, <1>19

(* _check_storage, of two declarations.                                    *)
Agrees(d, e) ==
  Overlap(d, e) => d.start = e.start /\ d.end = e.end /\ d.label = e.label /\ SameShape(d.shape, e.shape)

(* Cells of covered graphs that meet are one cell.                         *)
LEMMA SameCell ==
  ASSUME NEW T, NEW a, NEW d, Declared(d, T, a), NEW b, NEW e, Declared(e, T, b),
         d.start = e.start, d.label = e.label, NEW R, Covers(Nodes(T), Nodes(T), R), Named(Nodes(T), Nodes(T), R),
         <<a, b>> \in R, NEW x, NEW i, NEW P, Reached(T, d, x, i, P), NEW y, NEW j, NEW Q, Reached(T, e, y, j, Q),
         Meet(x, y)
  PROVE  x = y
<1>1. PICK N : N = Nodes(T)
  OBVIOUS
<1>2. /\ <<P.type, Q.type>> \in R /\ x.region = y.region /\ x.start = y.start /\ x.end = y.end
      /\ Named(Nodes(T), Nodes(T), R) /\ d.label = e.label => x.path = y.path
  BY CellsPair
<1>3. P \in AllPlaces(N) /\ Holds(N[P.type]) /\ x = CellAt(N, P)
  BY <1>1, ReachedIs
<1>4. Q \in AllPlaces(N) /\ Holds(N[Q.type]) /\ y = CellAt(N, Q)
  BY <1>1, ReachedIs
<1>5. P.type \in DOMAIN N /\ Q.type \in DOMAIN N
  BY <1>3, <1>4 DEF AllPlaces
<1>6. PICK s, t : s = N[P.type] /\ t = N[Q.type]
  OBVIOUS
<1>7. s.kind = t.kind /\ s.label = t.label
  BY <1>1, <1>2, <1>5, <1>6 DEF Covers
<1>8. s.labels = t.labels
  BY <1>1, <1>2, <1>5, <1>6 DEF Named
<1>9. What(s) = What(t)
  BY <1>7, <1>8 DEF What
<1>10. x.what = y.what
  BY <1>3, <1>4, <1>6, <1>9 DEF CellAt
<1>11. /\ x = [region |-> x.region, start |-> x.start, end |-> x.end, what |-> x.what, path |-> x.path]
       /\ y = [region |-> y.region, start |-> y.start, end |-> y.end, what |-> y.what, path |-> y.path]
  BY <1>3, <1>4 DEF CellAt
<1>12. QED
  BY <1>2, <1>10, <1>11

(* Cells of declarations that agree are one where they meet.               *)
LEMMA AgreedCells ==
  ASSUME NEW T, NEW a, NEW d, Declared(d, T, a), NEW b, NEW e, Declared(e, T, b), d = e \/ Agrees(d, e),
         NEW x \in CellsOf(d, DEPTH), NEW y \in CellsOf(e, DEPTH), Meet(x, y)
  PROVE  x = y
<1>1. PICK i, P : Reached(T, d, x, i, P)
  BY CellIs
<1>2. PICK j, Q : Reached(T, e, y, j, Q)
  BY CellIs
<1>3. Overlap(d, e)
  BY <1>1, <1>2, RootsMiss
<1>4. Laid(Nodes(T)) /\ a \in DOMAIN Nodes(T)
  BY RootIs
<1>5. CASE d = e
  <2>1. a = b
    <3>1. d.shape = Shape(T, a) /\ e.shape = Shape(T, b)
      BY DEF Declared
    <3>2. QED
      BY <1>5, <3>1 DEF Shape
  <2>2. PICK R : R = Same(Nodes(T))
    OBVIOUS
  <2>3. Covers(Nodes(T), Nodes(T), R) /\ Named(Nodes(T), Nodes(T), R)
    BY <1>4, <2>2, SameCovers
  <2>4. <<a, b>> \in R
    BY <1>4, <2>1, <2>2 DEF Same
  <2>5. QED
    BY <1>1, <1>2, <1>5, <2>3, <2>4, SameCell
<1>6. CASE Agrees(d, e)
  <2>1. d.start = e.start /\ d.label = e.label /\ SameShape(d.shape, e.shape)
    BY <1>3, <1>6 DEF Agrees
  <2>2. PICK old, new : old = d.shape /\ new = e.shape
    OBVIOUS
  <2>3. Fit(old, new) /\ ~Noted(old, new)
    BY <2>1, <2>2 DEF SameShape
  <2>4. Shapes(T, a, T, b, old, new)
    BY <2>2 DEF Declared, Shapes
  <2>5. PICK R : R = Pairs(old, new)
    OBVIOUS
  <2>6. /\ Covers(Nodes(T), Nodes(T), Pairs(old, new)) /\ MovesNone(Nodes(T), Nodes(T), Pairs(old, new))
        /\ ~Noted(old, new) => Named(Nodes(T), Nodes(T), Pairs(old, new))
    BY <2>3, <2>4, FitCovers
  <2>7. <<a, b>> \in Pairs(old, new)
    BY <2>4, PairsAre
  <2>8. Covers(Nodes(T), Nodes(T), R) /\ Named(Nodes(T), Nodes(T), R) /\ <<a, b>> \in R
    BY <2>3, <2>5, <2>6, <2>7
  <2>9. QED
    BY <1>1, <1>2, <2>1, <2>8, SameCell
<1>7. QED
  BY <1>5, <1>6

(* A path tells how many steps it took.                                    *)
LEMMA SameDepth ==
  ASSUME NEW T, NEW a, NEW o, Declared(o, T, a), NEW x, NEW i, NEW P, Reached(T, o, x, i, P)
  PROVE  i \in Nat /\ Len(x.path) = i + 1
<1>1. PICK M, p : M = Nodes(T) /\ p = Root(o)
  OBVIOUS
<1>2. i \in Nat /\ P \in From(M, p)[i] /\ x.path = P.path
  BY <1>1, ReachedIs
<1>3. Laid(M) /\ p \in AllPlaces(M) /\ p.path = <<o.label>>
  BY <1>1, RootIs
<1>4. GrowsAt(M, i)
  BY <1>2, <1>3, Grows
<1>5. Len(P.path) = Len(p.path) + i
  BY <1>2, <1>3, <1>4 DEF GrowsAt, Extends
<1>6. Len(p.path) = 1
  BY <1>3
<1>7. QED
  BY <1>2, <1>5, <1>6

(* A cell of the old whose path the new has is there in the new.           *)
LEMMA NamedThere ==
  ASSUME NEW T, NEW a, NEW o, Declared(o, T, a), NEW U, NEW b, NEW n, Declared(n, U, b),
         o.label = n.label, o.start = n.start, Fit(o.shape, n.shape),
         NEW x \in CellsOf(o, DEPTH), NEW y \in CellsOf(n, DEPTH), y.path = x.path
  PROVE  \E z \in CellsOf(n, DEPTH) : z.path = x.path /\ z.region = x.region /\ z.start = x.start
<1>1. PICK i, P : Reached(T, o, x, i, P)
  BY CellIs
<1>2. PICK j, Q : Reached(U, n, y, j, Q)
  BY CellIs
<1>3. i \in Nat /\ j \in Nat /\ i = j
  <2>1. i \in Nat /\ Len(x.path) = i + 1
    BY <1>1, SameDepth
  <2>2. j \in Nat /\ Len(y.path) = j + 1
    BY <1>2, SameDepth
  <2>3. QED
    BY <2>1, <2>2
<1>4. PICK M, N, p, r : M = Nodes(T) /\ N = Nodes(U) /\ p = Root(o) /\ r = Root(n)
  OBVIOUS
<1>5. /\ P \in AllPlaces(M) /\ P \in From(M, p)[i] /\ Holds(M[P.type]) /\ i \in 0 .. DEPTH
      /\ x.path = P.path /\ x.region = P.region /\ x.start = P.start
  BY <1>1, <1>4, ReachedIs DEF Reached
<1>6. Q \in From(N, r)[i] /\ y.path = Q.path
  BY <1>2, <1>3, <1>4, ReachedIs
<1>7. PICK old, new : old = o.shape /\ new = n.shape
  OBVIOUS
<1>8. Shapes(T, a, U, b, old, new) /\ Fit(old, new)
  BY <1>7 DEF Declared, Shapes
<1>9. PICK R : R = Pairs(old, new)
  OBVIOUS
<1>10. Covers(M, N, R) /\ MovesNone(M, N, R)
  <2>1. /\ Covers(Nodes(T), Nodes(U), Pairs(old, new)) /\ MovesNone(Nodes(T), Nodes(U), Pairs(old, new))
        /\ ~Noted(old, new) => Named(Nodes(T), Nodes(U), Pairs(old, new))
    BY <1>8, FitCovers
  <2>2. QED
    BY <1>4, <1>9, <2>1
<1>11. <<a, b>> \in R
  BY <1>8, <1>9, PairsAre
<1>12. /\ Laid(M) /\ p \in AllPlaces(M) /\ p.type = a /\ p.region = <<>> /\ p.start = o.start /\ p.path = <<o.label>>
  BY <1>4, RootIs
<1>13. /\ Laid(N) /\ r \in AllPlaces(N) /\ r.type = b /\ r.region = <<>> /\ r.start = n.start /\ r.path = <<n.label>>
  BY <1>4, RootIs
<1>14. Paired(M, N, R, p, r) /\ p.path = r.path /\ Alike(N, r, r)
  BY <1>11, <1>12, <1>13 DEF Paired, Alike
<1>15. FoundAt(M, N, R, i)
  BY <1>3, <1>10, <1>12, <1>13, FoundByPath
<1>16. Found(M, N, R, r, i, P)
  BY <1>5, <1>6, <1>14, <1>15 DEF FoundAt
<1>17. PICK O \in From(N, r)[i] : Paired(M, N, R, P, O) /\ O.path = P.path
  BY <1>16 DEF Found
<1>18. /\ O \in AllPlaces(N) /\ <<P.type, O.type>> \in R /\ O.region = P.region /\ O.start = P.start
  BY <1>17 DEF Paired
<1>19. M[P.type].kind = N[O.type].kind
  BY <1>5, <1>10, <1>18 DEF Covers, AllPlaces
<1>20. Reached(U, n, CellAt(N, O), i, O)
  BY <1>4, <1>5, <1>17, <1>19 DEF Reached, Holds
<1>21. CellAt(N, O) \in CellsOf(n, DEPTH)
  BY <1>20, CellIs
<1>22. QED
  BY <1>5, <1>17, <1>18, <1>21 DEF CellAt

-----------------------------------------------------------------------------
(* What check compares, commit by commit.                                  *)

(* The variables of a commit's facets, as LayoutAssumption has them.        *)
AllVariables(c) == UNION {Sources[c].declares[Facets[i]] : i \in DOMAIN Facets}

(* LayoutAssumption, variable by variable.                                 *)
LEMMA VariablesLaid ==
  ASSUME NEW c \in Commits
  PROVE  /\ LaidOut(Sources[c].types)
         /\ \A v \in AllVariables(c) :
              v.label \in STRING /\ v.start \in Nat /\ v.type \in DOMAIN Sources[c].types
         /\ \A v, w \in AllVariables(c) : v.source = w.source /\ v.start <= w.start =>
              v = w \/ v.start + Sources[c].types[v.type].size <= w.start
<1> DEFINE types == Sources[c].types
           sources == {Facets[i] : i \in DOMAIN Facets}
<1>1. /\ LaidOut(types)
      /\ AllVariables(c) \subseteq [source : sources, label : STRING, start : Nat, type : DOMAIN types]
      /\ \A v, w \in AllVariables(c) : v.source = w.source /\ v.start <= w.start =>
           v = w \/ v.start + types[v.type].size <= w.start
  BY LayoutAssumption DEF AllVariables
<1> HIDE DEF types, sources
<1>2. \A v \in AllVariables(c) : v.label \in STRING /\ v.start \in Nat /\ v.type \in DOMAIN types
  BY <1>1
<1>3. QED
  BY <1>1, <1>2 DEF types

(* Variables of facets are among those.                                    *)
LEMMA VariablesKnown ==
  ASSUME NEW c, NEW sources \in SUBSET FacetIds
  PROVE  Variables(c, sources) \subseteq AllVariables(c)
BY DEF Variables, AllVariables, FacetIds

(* A declaration is of a variable.                                         *)
LEMMA DeclarationIs ==
  ASSUME NEW c \in Commits, NEW sources \in SUBSET FacetIds, NEW d \in DeclarationsAt[c][sources]
  PROVE  \E v \in AllVariables(c) :
           /\ d.source = v.source /\ d.label = v.label /\ d.start = v.start
           /\ d.end = v.start + Sources[c].types[v.type].size
           /\ d.shape = Shape(Sources[c].types, v.type)
           /\ d = [ source |-> v.source, label |-> v.label, start |-> v.start,
                    end |-> v.start + Sources[c].types[v.type].size, shape |-> Shape(Sources[c].types, v.type) ]
<1>1. PICK types : types = Sources[c].types
  OBVIOUS
<1>2. d \in Declarations(Variables(c, sources), types)
  BY <1>1 DEF DeclarationsAt
<1>3. PICK v \in Variables(c, sources) :
        d = [ source |-> v.source, label |-> v.label, start |-> v.start,
              end |-> v.start + types[v.type].size, shape |-> Shape(types, v.type) ]
  BY <1>2 DEF Declarations
<1>4. v \in AllVariables(c)
  BY <1>3, VariablesKnown
<1>5. QED
  BY <1>1, <1>3, <1>4

(* Its type is laid out, and has a size.                                   *)
LEMMA DeclaredAt ==
  ASSUME NEW c \in Commits, NEW sources \in SUBSET FacetIds, NEW d \in DeclarationsAt[c][sources]
  PROVE  \E id : Declared(d, Sources[c].types, id) /\ Sources[c].types[id].size > 0
<1>1. PICK types : types = Sources[c].types
  OBVIOUS
<1>2. PICK v \in AllVariables(c) :
        /\ d.label = v.label /\ d.start = v.start
        /\ d.end = v.start + types[v.type].size /\ d.shape = Shape(types, v.type)
  BY <1>1, DeclarationIs
<1>3. /\ LaidOut(types) /\ v.label \in STRING /\ v.start \in Nat /\ v.type \in DOMAIN types
  BY <1>1, <1>2, VariablesLaid
<1>4. Declared(d, types, v.type)
  BY <1>2, <1>3 DEF Declared
<1>5. types[v.type].size > 0
  <2>1. types[v.type] \in [ kind : Kinds, size : Nat \ {0}, label : STRING, parts : Seq(DOMAIN types),
                            labels : Seq(STRING), at : Seq(Nat), length : Nat ]
    BY <1>3 DEF LaidOut
  <2>2. QED
    BY <2>1
<1>6. QED
  BY <1>1, <1>4, <1>5

(* What one facet declares does not overlap.                               *)
LEMMA OfOneSource ==
  ASSUME NEW c \in Commits, NEW sources \in SUBSET FacetIds,
         NEW d \in DeclarationsAt[c][sources], NEW e \in DeclarationsAt[c][sources], d.source = e.source, Overlap(d, e)
  PROVE  d = e
<1>1. PICK types : types = Sources[c].types
  OBVIOUS
<1>2. PICK v \in AllVariables(c) :
        /\ d.source = v.source /\ d.start = v.start /\ d.end = v.start + types[v.type].size
        /\ d = [ source |-> v.source, label |-> v.label, start |-> v.start,
                 end |-> v.start + types[v.type].size, shape |-> Shape(types, v.type) ]
  BY <1>1, DeclarationIs
<1>3. PICK w \in AllVariables(c) :
        /\ e.source = w.source /\ e.start = w.start /\ e.end = w.start + types[w.type].size
        /\ e = [ source |-> w.source, label |-> w.label, start |-> w.start,
                 end |-> w.start + types[w.type].size, shape |-> Shape(types, w.type) ]
  BY <1>1, DeclarationIs
<1>4. v.start \in Nat /\ w.start \in Nat /\ v.source = w.source
  BY <1>2, <1>3, VariablesLaid
<1>5. /\ v.start <= w.start => v = w \/ v.start + types[v.type].size <= w.start
      /\ w.start <= v.start => w = v \/ w.start + types[w.type].size <= v.start
  BY <1>1, <1>2, <1>3, <1>4, VariablesLaid
<1>6. v.start < e.end /\ w.start < d.end
  BY <1>2, <1>3 DEF Overlap
<1>7. \A m, n \in Nat : m <= n \/ n <= m
  OBVIOUS
<1>8. LaidOut(types) /\ v.type \in DOMAIN types /\ w.type \in DOMAIN types
  BY <1>1, <1>2, <1>3, VariablesLaid
<1>9. types[v.type].size \in Nat /\ types[w.type].size \in Nat
  <2>1. \A id \in DOMAIN types :
          types[id] \in [ kind : Kinds, size : Nat \ {0}, label : STRING, parts : Seq(DOMAIN types),
                          labels : Seq(STRING), at : Seq(Nat), length : Nat ]
    BY <1>8 DEF LaidOut
  <2>2. QED
    BY <1>8, <2>1
<1>10. v = w
  BY <1>2, <1>3, <1>4, <1>5, <1>6, <1>9
<1>11. QED
  BY <1>2, <1>3, <1>10

(* CellsDeclared, and the cells code touches.                              *)
LEMMA CellDeclared ==
  ASSUME NEW c \in Commits, NEW sources \in SUBSET FacetIds, NEW cell \in CellsDeclared[c][sources]
  PROVE  \E d \in DeclarationsAt[c][sources] : cell \in CellsOf(d, DEPTH)
BY DEF CellsDeclared

(* What code writes is a cell of a declaration of its commit.              *)
LEMMA Touched ==
  ASSUME NEW c \in Commits, NEW sources \in SUBSET FacetIds, NEW f \in sources, NEW w \in Code[c][f]
  PROVE  \E d \in DeclarationsAt[c][sources] : \E cell \in CellsOf(d, DEPTH) : w = Unnamed(cell)
<1>1. f \in FacetIds
  OBVIOUS
<1>2. PICK cell \in CellsAt(c, f, Sources[c].touches[f]) : w = Unnamed(cell)
  BY <1>1 DEF Code
<1>3. PICK d \in DeclarationsAt[c][{f}] : cell \in CellsOf(d, DEPTH)
  BY <1>2 DEF CellsAt
<1>4. DeclarationsAt[c][{f}] \subseteq DeclarationsAt[c][sources]
  <2>1. PICK types : types = Sources[c].types
    OBVIOUS
  <2>2. {f} \in SUBSET FacetIds
    BY <1>1
  <2>3. /\ DeclarationsAt[c][{f}] = Declarations(Variables(c, {f}), types)
        /\ DeclarationsAt[c][sources] = Declarations(Variables(c, sources), types)
    BY <2>1, <2>2 DEF DeclarationsAt
  <2>4. Variables(c, {f}) \subseteq Variables(c, sources)
    BY DEF Variables
  <2>5. QED
    BY <2>3, <2>4 DEF Declarations
<1>5. QED
  BY <1>2, <1>3, <1>4

(* The cells of declarations that agree: no two of them see something      *)
(* different in one place.                                                 *)
LEMMA AgreeingCells ==
  ASSUME NEW c \in Commits, NEW sources \in SUBSET FacetIds, StorageAgrees(DeclarationsAt[c][sources]),
         NEW x \in CellsDeclared[c][sources], NEW y \in CellsDeclared[c][sources], Meet(x, y)
  PROVE  x = y
<1>1. PICK d \in DeclarationsAt[c][sources] : x \in CellsOf(d, DEPTH)
  BY CellDeclared
<1>2. PICK e \in DeclarationsAt[c][sources] : y \in CellsOf(e, DEPTH)
  BY CellDeclared
<1>3. PICK T : T = Sources[c].types
  OBVIOUS
<1>4. PICK a : Declared(d, T, a)
  BY <1>1, <1>3, DeclaredAt
<1>5. PICK b : Declared(e, T, b)
  BY <1>2, <1>3, DeclaredAt
<1>6. d = e \/ Agrees(d, e)
  <2>1. CASE d.source = e.source
    BY <1>1, <1>2, <2>1, OfOneSource DEF Agrees
  <2>2. CASE d.source # e.source
    BY <1>1, <1>2, <2>2 DEF StorageAgrees, Agrees
  <2>3. QED
    BY <2>1, <2>2
<1>7. QED
  BY <1>1, <1>2, <1>4, <1>5, <1>6, AgreedCells

(* What a kept state's code wrote is read back.                            *)
LEMMA KeptCells ==
  ASSUME NEW c \in Commits, NEW s \in SUBSET FacetIds, NEW e \in Commits, NEW t \in SUBSET FacetIds,
         StorageKept(DeclarationsAt[c][s], DeclarationsAt[e][t]),
         NEW f \in s, NEW w \in Code[c][f], NEW cell \in CellsDeclared[e][t]
  PROVE  ReadsAs(w, cell)
<1>1. PICK o \in DeclarationsAt[c][s] : \E x \in CellsOf(o, DEPTH) : w = Unnamed(x)
  BY Touched
<1>2. PICK x \in CellsOf(o, DEPTH) : w = Unnamed(x)
  BY <1>1
<1>3. PICK n \in DeclarationsAt[e][t] : cell \in CellsOf(n, DEPTH)
  BY CellDeclared
<1>4. PICK T, U : T = Sources[c].types /\ U = Sources[e].types
  OBVIOUS
<1>5. PICK a : Declared(o, T, a)
  BY <1>1, <1>4, DeclaredAt
<1>6. PICK b : Declared(n, U, b)
  BY <1>3, <1>4, DeclaredAt
<1>7. Keeps(o, n)
  BY <1>1, <1>3 DEF StorageKept, Keeps
<1>8. ReadsAs(x, cell)
  BY <1>2, <1>3, <1>5, <1>6, <1>7, KeptReads
<1>9. w.region = x.region /\ w.start = x.start /\ w.end = x.end /\ w.what = x.what
  BY <1>2 DEF Unnamed
<1>10. QED
  BY <1>8, <1>9 DEF ReadsAs, Meet

(* What a kept state declared is still there under its name.               *)
StillThere(o, new) ==
  LET named == {n \in new : n.label = o.label}
  IN  named = {} \/ \E n \in named : \A old \in CellsOf(o, DEPTH) :
        PlacesOf(n, old.path) = {} \/ <<old.region, old.start>> \in PlacesOf(n, old.path)

(* Of a state that is compared and kept.                                   *)
LEMMA KeptNames ==
  ASSUME NEW c \in Commits, NEW s \in SUBSET FacetIds, NEW e \in Commits, NEW t \in SUBSET FacetIds,
         StorageKept(DeclarationsAt[c][s], DeclarationsAt[e][t]), NEW o \in DeclarationsAt[c][s]
  PROVE  StillThere(o, DeclarationsAt[e][t])
<1> DEFINE named == {n \in DeclarationsAt[e][t] : n.label = o.label}
<1>1. SUFFICES ASSUME named # {}
               PROVE  \E n \in named : \A old \in CellsOf(o, DEPTH) :
                        PlacesOf(n, old.path) = {} \/ <<old.region, old.start>> \in PlacesOf(n, old.path)
  BY DEF StillThere
<1>2. PICK n \in DeclarationsAt[e][t] : n.label = o.label /\ n.start = o.start
  BY <1>1 DEF StorageKept
<1>3. PICK T, U : T = Sources[c].types /\ U = Sources[e].types
  OBVIOUS
<1>4. PICK a : Declared(o, T, a) /\ T[a].size > 0
  BY <1>3, DeclaredAt
<1>5. PICK b : Declared(n, U, b) /\ U[b].size > 0
  BY <1>2, <1>3, DeclaredAt
<1>6. Overlap(o, n)
  <2>1. T[a].size \in Nat /\ U[b].size \in Nat
    BY <1>4, <1>5, RootIs
  <2>2. o.start \in Nat /\ n.start \in Nat /\ o.end = o.start + T[a].size /\ n.end = n.start + U[b].size
    BY <1>4, <1>5 DEF Declared
  <2>3. QED
    BY <1>2, <1>4, <1>5, <2>1, <2>2 DEF Overlap
<1>7. Fit(o.shape, n.shape)
  BY <1>2, <1>6 DEF StorageKept
<1>8. ASSUME NEW x \in CellsOf(o, DEPTH), PlacesOf(n, x.path) # {}
      PROVE  <<x.region, x.start>> \in PlacesOf(n, x.path)
  <2>1. PICK y \in CellsOf(n, DEPTH) : y.path = x.path
    BY <1>8 DEF PlacesOf
  <2>2. \E z \in CellsOf(n, DEPTH) : z.path = x.path /\ z.region = x.region /\ z.start = x.start
    BY <1>2, <1>4, <1>5, <1>7, <2>1, NamedThere
  <2>3. QED
    BY <2>2 DEF PlacesOf
<1>9. QED
  BY <1>2, <1>8

-----------------------------------------------------------------------------
(* What the ledger records, and the order check reads it in.               *)

(* What some function takes a finite set onto is finite.                   *)
LEMMA FiniteImage ==
  ASSUME NEW S, IsFiniteSet(S), NEW g, DOMAIN g = S, NEW T, T = {g[x] : x \in S}
  PROVE  IsFiniteSet(T)
<1> DEFINE h == [x \in S |-> g[x]]
<1>1. h \in Surjection(S, T)
  BY DEF Surjection
<1> HIDE DEF h
<1>2. QED
  BY <1>1, FS_Surjection

(* The elements of a finite set, in some order.                            *)
LEMMA SetToSeqIs ==
  ASSUME NEW S, IsFiniteSet(S)
  PROVE  SetToSeq(S) \in Seq(ToSet(SetToSeq(S))) /\ ToSet(SetToSeq(S)) = S
<1>1. PICK n \in Nat : n = Cardinality(S) /\ ExistsBijection(1 .. n, S)
  BY FS_CardinalityType
<1>2. PICK f \in [1 .. n -> S] : IsInjective(f)
  BY <1>1 DEF ExistsBijection, Bijection, Injection
<1>3. PICK seq : seq = SetToSeq(S)
  OBVIOUS
<1>4. seq \in [1 .. n -> S] /\ IsInjective(seq)
  BY <1>1, <1>2, <1>3 DEF SetToSeq
<1>5. seq \in Injection(1 .. n, S)
  BY <1>4 DEF Injection
<1>6. IsFiniteSet(1 .. n) /\ Cardinality(1 .. n) = n
  BY FS_Interval
<1>7. seq \in Surjection(1 .. n, S)
  BY <1>1, <1>5, <1>6, FS_Injection
<1>8. ToSet(seq) = S
  BY <1>4, <1>7 DEF ToSet, Surjection
<1>9. seq \in Seq(S)
  BY <1>4
<1>10. QED
  BY <1>3, <1>8, <1>9

(* facetSrc is a list.                                                     *)
LEMMA FacetsAreFinite == IsFiniteSet(FacetIds)
<1>1. PICK S : S = {Facets[i] : i \in DOMAIN Facets}
  OBVIOUS
<1>2. Facets \in Seq(S)
  BY <1>1, FacetsAssumption
<1>3. IsFiniteSet(DOMAIN Facets)
  <2>1. Len(Facets) \in Nat /\ DOMAIN Facets = 1 .. Len(Facets)
    BY <1>2
  <2>2. QED
    BY <2>1, FS_Interval
<1>4. IsFiniteSet(S)
  BY <1>1, <1>3, FiniteImage
<1>5. QED
  BY <1>1, <1>4 DEF FacetIds

(* One of the states recorded, of the retired facets of a commit.          *)
Retired(history, c) == [commit |-> c, sources |-> {s.source : s \in {s \in history : s.commit = c}}]

(* Recorded states are finitely many, of known commits and facets.         *)
LEMMA RecordedIs ==
  ASSUME LedgerNames
  PROVE  /\ IsFiniteSet(RecordedStates(ledger))
         /\ \A state \in RecordedStates(ledger) : state.commit \in Commits /\ state.sources \in SUBSET FacetIds
<1>1. PICK history : history = ledger.history
  OBVIOUS
<1>2. IsFiniteSet(history) /\ \A r \in history : r.commit \in Commits /\ r.source \in FacetIds
  BY <1>1 DEF LedgerNames
<1>3. PICK retired : retired = {Retired(history, r.commit) : r \in history}
  OBVIOUS
<1>4. IsFiniteSet(retired) /\ \A state \in retired : state.commit \in Commits /\ state.sources \in SUBSET FacetIds
  <2> DEFINE g == [r \in history |-> Retired(history, r.commit)]
  <2>1. DOMAIN g = history /\ retired = {g[r] : r \in history}
    BY <1>3
  <2> HIDE DEF g
  <2>2. IsFiniteSet(retired)
    BY <1>2, <2>1, FiniteImage
  <2>3. \A r \in history : LET state == Retired(history, r.commit)
                           IN  state.commit \in Commits /\ state.sources \in SUBSET FacetIds
    BY <1>2 DEF Retired
  <2>4. QED
    BY <1>3, <2>2, <2>3
<1>5. ASSUME NEW c \in Commits \union {NoCommit}
      PROVE  /\ IsFiniteSet(Recorded(c))
             /\ \A state \in Recorded(c) : state.commit \in Commits /\ state.sources \in SUBSET FacetIds
  <2>1. CASE c = NoCommit
    <3>1. Recorded(c) = {}
      BY <2>1 DEF Recorded
    <3>2. QED
      BY <3>1, FS_EmptySet
  <2>2. CASE c # NoCommit
    <3>1. PICK state : state = [commit |-> c, sources |-> FacetsAt(c)]
      OBVIOUS
    <3>2. Recorded(c) = {state} /\ state.commit = c /\ state.sources = FacetsAt(c)
      BY <2>2, <3>1 DEF Recorded
    <3>3. FacetsAt(c) \in SUBSET FacetIds
      BY DEF FacetsAt
    <3>4. IsFiniteSet({state})
      BY FS_Singleton
    <3>5. QED
      BY <2>2, <3>2, <3>3, <3>4
  <2>3. QED
    BY <2>1, <2>2
<1>6. PICK legacy : legacy = {ledger.legacy} \ {NotRecorded}
  OBVIOUS
<1>7. IsFiniteSet(legacy) /\ \A state \in legacy : state.commit \in Commits /\ state.sources \in SUBSET FacetIds
  <2>1. PICK all : all = {ledger.legacy}
    OBVIOUS
  <2>2. IsFiniteSet(all) /\ legacy \in SUBSET all
    BY <1>6, <2>1, FS_Singleton
  <2>3. IsFiniteSet(legacy)
    BY <2>2, FS_Subset
  <2>4. \A state \in legacy : state = ledger.legacy /\ state # NotRecorded
    BY <1>6
  <2>5. QED
    BY <2>3, <2>4 DEF LedgerNames
<1>8. PICK current, proposed : current = Recorded(ledger.current) /\ proposed = Recorded(ledger.proposed)
  OBVIOUS
<1>9. RecordedStates(ledger) = legacy \union current \union proposed \union retired
  BY <1>1, <1>3, <1>6, <1>8 DEF RecordedStates, Retired
<1>10. /\ IsFiniteSet(current) /\ IsFiniteSet(proposed)
       /\ \A state \in current \union proposed : state.commit \in Commits /\ state.sources \in SUBSET FacetIds
  BY <1>5, <1>8 DEF LedgerNames
<1>11. IsFiniteSet(legacy \union current \union proposed \union retired)
  BY <1>4, <1>7, <1>10, FS_Union
<1>12. QED
  BY <1>4, <1>7, <1>9, <1>10, <1>11

(* What has written is one of the states recorded.                         *)
LEMMA ToldIsRecorded ==
  ASSUME LedgerNames, live \in {ledger.current, ledger.proposed}, NEW c \in Commits, NEW f, Tells(c, f)
  PROVE  \E state \in RecordedStates(ledger) : state.commit = c /\ f \in state.sources
<1>1. c # NoCommit
  BY CommitsAssumption
<1>2. CASE c = ledger.legacy.commit /\ f \in ledger.legacy.sources
  <2>1. ledger.legacy # NotRecorded
    BY <1>2 DEF NotRecorded
  <2>2. ledger.legacy \in RecordedStates(ledger)
    BY <2>1 DEF RecordedStates
  <2>3. QED
    BY <1>2, <2>2
<1>3. CASE c \in {ledger.current, live} /\ f \in FacetsAt(c)
  <2>1. [commit |-> c, sources |-> FacetsAt(c)] \in Recorded(c)
    BY <1>1 DEF Recorded
  <2>2. Recorded(c) \subseteq RecordedStates(ledger)
    BY <1>3 DEF RecordedStates
  <2>3. QED
    BY <1>3, <2>1, <2>2
<1>4. CASE \E r \in ledger.history : r.commit = c /\ r.source = f
  <2>1. PICK r \in ledger.history : r.commit = c /\ r.source = f
    BY <1>4
  <2>2. Retired(ledger.history, r.commit) \in RecordedStates(ledger)
    BY DEF RecordedStates, Retired
  <2>3. f \in Retired(ledger.history, r.commit).sources /\ Retired(ledger.history, r.commit).commit = c
    BY <2>1 DEF Retired
  <2>4. QED
    BY <2>2, <2>3
<1>5. QED
  BY <1>2, <1>3, <1>4 DEF Tells

(* The invariant says enough.                                              *)
LEMMA PassedReadsBack ==
  ASSUME ReadBackInv
  PROVE  StorageReadsBack
<1>1. SUFFICES ASSUME passed # NoCommit
               PROVE  /\ \A w \in written, cell \in CellsDeclared[passed][FacetsAt(passed)] : ReadsAs(w, cell)
                      /\ \A a, b \in CellsDeclared[passed][FacetsAt(passed)] : Meet(a, b) => a = b
                      /\ \A state \in RecordedStates(ledger) : \A o \in DeclarationsAt[state.commit][state.sources] :
                           StillThere(o, DeclarationsAt[passed][FacetsAt(passed)])
  BY DEF StorageReadsBack, StillThere
<1>2. PICK c, sources : c = passed /\ sources = FacetsAt(passed)
  OBVIOUS
<1>3. /\ c \in Commits /\ sources \in SUBSET FacetIds /\ StorageAgrees(DeclarationsAt[c][sources])
      /\ \A state \in RecordedStates(ledger) :
           StorageKept(DeclarationsAt[state.commit][state.sources], DeclarationsAt[c][sources])
  BY <1>1, <1>2 DEF ReadBackInv, PassedIsKept, Kept, FacetsAt
<1>4. \A state \in RecordedStates(ledger) : state.commit \in Commits /\ state.sources \in SUBSET FacetIds
  BY RecordedIs DEF ReadBackInv
<1>5. ASSUME NEW w \in written, NEW cell \in CellsDeclared[c][sources]
      PROVE  ReadsAs(w, cell)
  <2>1. PICK d \in Commits, f \in FacetIds : w \in Code[d][f] /\ Tells(d, f)
    BY DEF ReadBackInv, WrittenIsTold
  <2>2. LedgerNames /\ live \in {ledger.current, ledger.proposed}
    BY DEF ReadBackInv, KnownCommits
  <2>3. PICK state \in RecordedStates(ledger) : state.commit = d /\ f \in state.sources
    BY <2>1, <2>2, ToldIsRecorded
  <2>4. PICK s : s = state.sources
    OBVIOUS
  <2>5. s \in SUBSET FacetIds /\ f \in s /\ StorageKept(DeclarationsAt[d][s], DeclarationsAt[c][sources])
    BY <1>3, <1>4, <2>3, <2>4
  <2>6. QED
    BY <1>3, <1>5, <2>1, <2>5, KeptCells
<1>6. ASSUME NEW a \in CellsDeclared[c][sources], NEW b \in CellsDeclared[c][sources], Meet(a, b)
      PROVE  a = b
  BY <1>3, <1>6, AgreeingCells
<1>7. ASSUME NEW state \in RecordedStates(ledger), NEW o \in DeclarationsAt[state.commit][state.sources]
      PROVE  StillThere(o, DeclarationsAt[c][sources])
  <2>1. PICK d, s : d = state.commit /\ s = state.sources
    OBVIOUS
  <2>2. /\ d \in Commits /\ s \in SUBSET FacetIds /\ o \in DeclarationsAt[d][s]
        /\ StorageKept(DeclarationsAt[d][s], DeclarationsAt[c][sources])
    BY <1>3, <1>4, <2>1
  <2>3. QED
    BY <1>3, <2>2, KeptNames
<1>8. QED
  BY <1>2, <1>5, <1>6, <1>7, Zenon

-----------------------------------------------------------------------------
(* The steps of the commands and of governance.                            *)

(* Nothing has been written but by what is recorded as legacy.             *)
LEMMA ReadBackBegins ==
  ASSUME Init
  PROVE  ReadBackInv
<1>1. /\ project \in Projects /\ head \in project
      /\ live = NoCommit /\ command = Idle /\ passed = NoCommit /\ getting = NotGetting
  BY DEF Init, TreesInit
<1>2. PICK legacy \in {NotRecorded} \union [commit : project, sources : {{f} : f \in FacetIds}] :
        /\ ledger = [legacy |-> legacy, current |-> NoCommit, proposed |-> NoCommit, history |-> {}]
        /\ written = UNION {Code[legacy.commit][f] : f \in legacy.sources}
  BY DEF Init
<1>3. project \subseteq Commits
  BY <1>1, ProjectsAssumption
<1>4. /\ ledger.legacy = legacy /\ ledger.current = NoCommit /\ ledger.proposed = NoCommit /\ ledger.history = {}
      /\ ledger = [ legacy |-> ledger.legacy, current |-> ledger.current,
                    proposed |-> ledger.proposed, history |-> ledger.history ]
  BY <1>2
<1>5. legacy = NotRecorded \/ (legacy.commit \in Commits /\ legacy.sources \subseteq FacetIds)
  BY <1>2, <1>3
<1>6. command.name = "none" /\ getting.step = "idle"
  BY <1>1 DEF Idle, NotGetting
<1>7. KnownCommits
  BY <1>1, <1>3, <1>4, <1>6 DEF KnownCommits
<1>8. LedgerNames
  BY <1>4, <1>5, FS_EmptySet DEF LedgerNames
<1>9. WrittenIsTold
  <2>1. SUFFICES ASSUME NEW w \in written
                 PROVE  \E c \in Commits, f \in FacetIds : w \in Code[c][f] /\ Tells(c, f)
    BY DEF WrittenIsTold
  <2>2. PICK f \in legacy.sources : w \in Code[legacy.commit][f]
    BY <1>2
  <2>3. legacy # NotRecorded
    BY <2>2 DEF NotRecorded
  <2>4. legacy.commit \in Commits /\ f \in FacetIds
    BY <1>5, <2>2, <2>3
  <2>5. Tells(legacy.commit, f)
    BY <1>4, <2>2 DEF Tells
  <2>6. QED
    BY <2>2, <2>4, <2>5
<1>10. CheckedSoFar /\ PassedIsKept
  BY <1>1, <1>6 DEF CheckedSoFar, PassedIsKept
<1>11. QED
  BY <1>7, <1>8, <1>9, <1>10 DEF ReadBackInv

(* What stays while the ledger does, and nothing is written.               *)
LEMMA LedgerRests ==
  ASSUME ReadBackInv, UNCHANGED <<ledger, live, written>>
  PROVE  LedgerNames' /\ WrittenIsTold'
<1>1. ledger' = ledger /\ live' = live /\ written' = written
  OBVIOUS
<1>2. LedgerNames'
  BY <1>1 DEF ReadBackInv, LedgerNames
<1>3. \A c, f : Tells(c, f) => Tells(c, f)'
  BY <1>1 DEF Tells
<1>4. WrittenIsTold'
  BY <1>1, <1>3 DEF ReadBackInv, WrittenIsTold
<1>5. QED
  BY <1>2, <1>4

(* What has passed stays so while the ledger does, or is forgotten.        *)
LEMMA PassedRests ==
  ASSUME ReadBackInv, (ledger' = ledger /\ passed' = passed) \/ passed' = NoCommit
  PROVE  PassedIsKept'
<1>1. CASE passed' = NoCommit
  BY <1>1 DEF PassedIsKept
<1>2. CASE ledger' = ledger /\ passed' = passed
  BY <1>2 DEF ReadBackInv, PassedIsKept, Kept
<1>3. QED
  BY <1>1, <1>2

(* What a command has compared stays so while head and the ledger do.       *)
LEMMA CheckingRests ==
  ASSUME ReadBackInv, ledger' = ledger, head' = head, command'.name = command.name,
         command'.reading = command.reading, ~command'.failed => ~command.failed,
         getting'.step # "idle" => command.reading # <<>>
  PROVE  CheckedSoFar'
BY DEF ReadBackInv, CheckedSoFar, Kept

(* A commit checked out has passed nothing.                                *)
LEMMA MoveHeadReadsBack ==
  ASSUME ReadBackInv, NEW c \in project, MoveHead(c)
  PROVE  ReadBackInv'
<1>1. /\ head' = c /\ passed' = NoCommit /\ command = Idle /\ command' = Idle /\ getting' = getting
      /\ project' = project /\ ledger' = ledger /\ live' = live /\ written' = written
  BY DEF MoveHead, tree_vars
<1>2. command'.name = "none" /\ command'.reading = command.reading
  BY <1>1 DEF Idle
<1>3. KnownCommits'
  BY <1>1, <1>2 DEF ReadBackInv, KnownCommits
<1>4. CheckedSoFar'
  BY <1>1, <1>2 DEF ReadBackInv, CheckedSoFar
<1>5. QED
  BY <1>1, <1>3, <1>4, LedgerRests, PassedRests DEF ReadBackInv

(* What governance runs is what is proposed; what ran before is accepted,  *)
(* or it is what is proposed already.                                      *)
LEMMA ExecuteReadsBack ==
  ASSUME ReadBackInv, Execute
  PROVE  ReadBackInv'
<1>1. /\ ledger.proposed # NoCommit /\ command.name # "deploy" /\ live' = ledger.proposed
      /\ written' = written \union UNION Installs(live')
      /\ project' = project /\ head' = head /\ ledger' = ledger /\ command' = command
      /\ passed' = passed /\ getting' = getting
  BY DEF Execute, tree_vars
<1>2. KnownCommits'
  BY <1>1 DEF ReadBackInv, KnownCommits
<1>3. LedgerNames'
  BY <1>1 DEF ReadBackInv, LedgerNames
<1>4. WrittenIsTold'
  <2>1. SUFFICES ASSUME NEW w \in written'
                 PROVE  \E c \in Commits, f \in FacetIds : w \in Code[c][f] /\ Tells(c, f)'
    BY DEF WrittenIsTold
  <2>2. CASE w \in written
    <3>1. PICK c \in Commits, f \in FacetIds : w \in Code[c][f] /\ Tells(c, f)
      BY <2>2 DEF ReadBackInv, WrittenIsTold
    <3>2. live \in {ledger.current, ledger.proposed}
      BY DEF ReadBackInv, KnownCommits
    <3>3. Tells(c, f)'
      BY <1>1, <3>1, <3>2 DEF Tells
    <3>4. QED
      BY <3>1, <3>3
  <2>3. CASE w \in UNION Installs(live')
    <3>1. PICK c : c = ledger.proposed
      OBVIOUS
    <3>2. c \in Commits /\ live' = c
      BY <1>1, <3>1 DEF ReadBackInv, LedgerNames
    <3>3. PICK f \in FacetsAt(c) : w \in Code[c][f]
      BY <1>1, <2>3, <3>1, <3>2 DEF Installs
    <3>4. f \in FacetIds
      BY <3>3 DEF FacetsAt
    <3>5. Tells(c, f)'
      BY <3>2, <3>3 DEF Tells, FacetsAt
    <3>6. QED
      BY <3>2, <3>3, <3>4, <3>5
  <2>4. QED
    BY <1>1, <2>2, <2>3
<1>5. QED
  BY <1>1, <1>2, <1>3, <1>4, CheckingRests, PassedRests DEF ReadBackInv, CheckedSoFar

(* check has all recorded states still to read.                            *)
LEMMA StartReadsBack ==
  ASSUME ReadBackInv, StartCheck \/ StartDeploy \/ StartAccept
  PROVE  ReadBackInv'
<1>1. /\ project' = project /\ head' = head /\ ledger' = ledger /\ live' = live /\ written' = written
      /\ getting' = getting /\ passed' \in {passed, NoCommit} /\ command = Idle
  BY DEF StartCheck, StartDeploy, StartAccept, Start, tree_vars
<1>2. getting.step = "idle"
  BY <1>1 DEF ReadBackInv, CheckedSoFar, Idle
<1>3. PassedIsKept'
  BY <1>1, PassedRests
<1>4. CASE StartCheck
  <2>1. PICK reading : reading = SetToSeq(RecordedStates(ledger))
    OBVIOUS
  <2>2. PICK failed : failed = ~StorageAgrees(DeclarationsAt[head][FacetsAt(head)])
    OBVIOUS
  <2>3. command' = [name |-> "check", commit |-> head, reading |-> reading, failed |-> failed, closing |-> FALSE]
    BY <1>4, <2>1, <2>2 DEF StartCheck, Start
  <2>4. command'.name = "check" /\ command'.commit = head /\ command'.reading = reading /\ command'.failed = failed
    BY <2>3
  <2>5. reading \in Seq(ToSet(reading)) /\ ToSet(reading) = RecordedStates(ledger)
    BY <2>1, RecordedIs, SetToSeqIs DEF ReadBackInv
  <2>6. KnownCommits'
    BY <1>1, <2>4 DEF ReadBackInv, KnownCommits
  <2>7. CheckedSoFar'
    BY <1>1, <1>2, <2>2, <2>4, <2>5 DEF CheckedSoFar
  <2>8. QED
    BY <1>1, <1>3, <2>6, <2>7, LedgerRests DEF ReadBackInv
<1>5. CASE StartDeploy \/ StartAccept
  <2>1. PICK name, reading :
          /\ name \in {"deploy", "accept"}
          /\ command' = [name |-> name, commit |-> head, reading |-> reading, failed |-> FALSE, closing |-> FALSE]
          /\ name = "deploy" => live = ledger.current
    BY <1>5 DEF StartDeploy, StartAccept, Start
  <2>2. command'.name = name /\ command'.commit = head
    BY <2>1
  <2>3. KnownCommits'
    BY <1>1, <2>1, <2>2 DEF ReadBackInv, KnownCommits
  <2>4. CheckedSoFar'
    BY <1>1, <1>2, <2>1, <2>2 DEF CheckedSoFar
  <2>5. QED
    BY <1>1, <1>3, <2>3, <2>4, LedgerRests DEF ReadBackInv
<1>6. QED
  BY <1>4, <1>5

(* A command goes on: what it is, is known, and it is not done with more.   *)
LEMMA GoesOn ==
  ASSUME ReadBackInv, UNCHANGED <<project, head, ledger, live, written, passed>>, CheckedSoFar',
         \/ command' = Idle
         \/ command # Idle /\ command'.name = command.name /\ command'.commit = command.commit
         \/ command' = command
  PROVE  ReadBackInv'
<1>1. KnownCommits'
  <2>1. CASE command' = Idle
    <3>1. command'.name = "none"
      BY <2>1 DEF Idle
    <3>2. QED
      BY <2>1, <3>1 DEF ReadBackInv, KnownCommits
  <2>2. CASE command # Idle /\ command'.name = command.name /\ command'.commit = command.commit
    BY <2>2 DEF ReadBackInv, KnownCommits
  <2>3. CASE command' = command
    BY <2>3 DEF ReadBackInv, KnownCommits
  <2>4. QED
    BY <2>1, <2>2, <2>3
<1>2. LedgerNames' /\ WrittenIsTold' /\ PassedIsKept'
  BY LedgerRests, PassedRests
<1>3. QED
  BY <1>1, <1>2 DEF ReadBackInv

(* Trees that cannot be made fail the check, or end the command.           *)
LEMMA OpenReadsBack ==
  ASSUME TreesInv, ReadBackInv, Open
  PROVE  ReadBackInv'
<1>1. /\ UNCHANGED <<project, head, ledger, live, written, passed>>
      /\ head' = head /\ ledger' = ledger /\ command # Idle /\ getting = NotGetting /\ getting' = getting
      /\ command.name = "check" => command.reading # <<>>
  BY DEF Open, OpenTrees
<1>2. getting'.step = "idle"
  BY <1>1 DEF NotGetting
<1>3. PICK rest : rest = Tail(command.reading)
  OBVIOUS
<1>4. CASE command' = command
  <2>1. CheckedSoFar'
    BY <1>1, <1>2, <1>4, CheckingRests
  <2>2. QED
    BY <1>1, <1>4, <2>1, GoesOn
<1>5. CASE command' = Idle
  <2>1. command'.name = "none"
    BY <1>5 DEF Idle
  <2>2. CheckedSoFar'
    BY <1>2, <2>1 DEF CheckedSoFar
  <2>3. QED
    BY <1>1, <1>5, <2>2, GoesOn
<1>6. CASE command.name = "check" /\ command' = [command EXCEPT !.failed = TRUE, !.reading = rest]
  <2>1. command = [ name |-> command.name, commit |-> command.commit, reading |-> command.reading,
                    failed |-> command.failed, closing |-> command.closing ]
    BY DEF TreesInv, FieldsStay
  <2>2. command' = [ name |-> command.name, commit |-> command.commit, reading |-> rest,
                     failed |-> TRUE, closing |-> command.closing ]
    BY <1>6, <2>1
  <2>3. command'.name = command.name /\ command'.commit = command.commit /\ command'.reading = rest /\ command'.failed
    BY <2>2
  <2>4. rest \in Seq(ToSet(rest))
    <3>1. command.reading \in Seq(ToSet(command.reading)) /\ command.reading # <<>>
      BY <1>1, <1>6 DEF ReadBackInv, CheckedSoFar
    <3>2. QED
      BY <1>3, <3>1, TailLists
  <2>5. CheckedSoFar'
    BY <1>2, <2>3, <2>4 DEF CheckedSoFar
  <2>6. QED
    BY <1>1, <2>3, <2>5, GoesOn
<1>7. QED
  BY <1>3, <1>4, <1>5, <1>6 DEF Open

(* A get changes no ledger, and there is something to read.                *)
LEMMA GetReadsBack ==
  ASSUME ReadBackInv, Read \/ Work
  PROVE  ReadBackInv'
<1>1. /\ UNCHANGED <<project, head, ledger, live, written, passed>>
      /\ head' = head /\ ledger' = ledger /\ command' = command
  BY DEF Read, Work
<1>2. command.reading # <<>>
  <2>1. CASE Read
    BY <2>1 DEF Read, DoneReading
  <2>2. CASE Work
    <3>1. getting.step # "idle"
      BY <2>2 DEF Work, GetStep, BuildRoot, Add, Clone, RemoveIncomplete, AddAgain, Update, Keep
    <3>2. QED
      BY <3>1 DEF ReadBackInv, CheckedSoFar
  <2>3. QED
    BY <2>1, <2>2
<1>3. CheckedSoFar'
  BY <1>1, <1>2, CheckingRests
<1>4. QED
  BY <1>1, <1>3, GoesOn

(* What is not read any more is kept, or check fails.                      *)
LEMMA CompareReadsBack ==
  ASSUME TreesInv, ReadBackInv, Compare
  PROVE  ReadBackInv'
<1>1. PICK kept : kept = (command.name # "check" \/ Kept(State, head))
  OBVIOUS
<1>2. PICK rest, failed : rest = Tail(command.reading) /\ failed = (command.failed \/ getting.step = "failed" \/ ~kept)
  OBVIOUS
<1>3. /\ UNCHANGED <<project, head, ledger, live, written, passed>>
      /\ head' = head /\ ledger' = ledger /\ getting.step # "idle" /\ getting' = NotGetting
      /\ command' = [command EXCEPT !.reading = rest, !.failed = failed]
  BY <1>1, <1>2 DEF Compare, Returned, Kept
<1>4. command = [ name |-> command.name, commit |-> command.commit, reading |-> command.reading,
                  failed |-> command.failed, closing |-> command.closing ]
  BY DEF TreesInv, FieldsStay
<1>5. command' = [ name |-> command.name, commit |-> command.commit, reading |-> rest,
                   failed |-> failed, closing |-> command.closing ]
  BY <1>3, <1>4
<1>6. /\ command'.name = command.name /\ command'.commit = command.commit
      /\ command'.reading = rest /\ command'.failed = failed
  BY <1>5
<1>7. command.reading # <<>> /\ getting'.step = "idle"
  BY <1>3 DEF ReadBackInv, CheckedSoFar, NotGetting
<1>8. CheckedSoFar'
  <2>1. SUFFICES ASSUME command.name = "check"
                 PROVE  /\ rest \in Seq(ToSet(rest))
                        /\ ~failed =>
                             /\ StorageAgrees(DeclarationsAt[head][FacetsAt(head)])
                             /\ \A state \in RecordedStates(ledger) : state \in ToSet(rest) \/ Kept(state, head)
    BY <1>3, <1>6, <1>7 DEF CheckedSoFar, Kept
  <2>2. command.reading \in Seq(ToSet(command.reading))
    BY <2>1 DEF ReadBackInv, CheckedSoFar
  <2>3. rest \in Seq(ToSet(rest)) /\ ToSet(command.reading) \subseteq ToSet(rest) \union {State}
    BY <1>2, <1>7, <2>2, TailLists DEF State
  <2>4. ~failed => ~command.failed /\ Kept(State, head)
    BY <1>1, <1>2, <2>1
  <2>5. QED
    BY <2>1, <2>3, <2>4 DEF ReadBackInv, CheckedSoFar
<1>9. command # Idle
  BY <1>7 DEF Idle
<1>10. QED
  BY <1>3, <1>6, <1>8, <1>9, GoesOn

(* Closing reads nothing more.                                             *)
LEMMA CloseReadsBack ==
  ASSUME TreesInv, ReadBackInv, Close
  PROVE  ReadBackInv'
<1>1. PICK failed : failed = (command.failed \/ stuck' # stuck)
  OBVIOUS
<1>2. /\ UNCHANGED <<project, head, ledger, live, written, passed>>
      /\ head' = head /\ ledger' = ledger /\ command # Idle /\ getting = NotGetting /\ getting' = getting
      /\ command' = [command EXCEPT !.closing = TRUE, !.failed = failed]
  BY <1>1 DEF Close, RemoveCheckout, RemoveFails, AllRemoved
<1>3. command = [ name |-> command.name, commit |-> command.commit, reading |-> command.reading,
                  failed |-> command.failed, closing |-> command.closing ]
  BY DEF TreesInv, FieldsStay
<1>4. command' = [ name |-> command.name, commit |-> command.commit, reading |-> command.reading,
                   failed |-> failed, closing |-> TRUE ]
  BY <1>2, <1>3
<1>5. /\ command'.name = command.name /\ command'.commit = command.commit
      /\ command'.reading = command.reading /\ command'.failed = failed
  BY <1>4
<1>6. getting'.step = "idle"
  BY <1>2 DEF NotGetting
<1>7. CheckedSoFar'
  BY <1>1, <1>2, <1>5, <1>6, CheckingRests
<1>8. QED
  BY <1>2, <1>5, <1>7, GoesOn

(* What check passes has been compared with all that was recorded.         *)
LEMMA EndCheckReadsBack ==
  ASSUME ReadBackInv, EndCheck
  PROVE  ReadBackInv'
<1>1. /\ UNCHANGED <<project, head, ledger, live, written>> /\ head' = head /\ ledger' = ledger
      /\ getting = NotGetting /\ getting' = getting
      /\ command.name = "check" /\ DoneReading /\ command' = Idle
      /\ passed' = IF command.failed THEN NoCommit ELSE head
  BY DEF EndCheck, Finished, tree_vars
<1>2. command'.name = "none" /\ getting'.step = "idle"
  BY <1>1 DEF Idle, NotGetting
<1>3. ToSet(command.reading) = {}
  <2>1. command.reading = <<>>
    BY <1>1 DEF DoneReading
  <2>2. QED
    BY <2>1 DEF ToSet
<1>4. KnownCommits' /\ CheckedSoFar'
  BY <1>1, <1>2 DEF ReadBackInv, KnownCommits, CheckedSoFar
<1>5. PassedIsKept'
  <2>1. CASE command.failed
    BY <1>1, <2>1 DEF PassedIsKept
  <2>2. CASE ~command.failed
    <3>1. /\ StorageAgrees(DeclarationsAt[head][FacetsAt(head)])
          /\ \A state \in RecordedStates(ledger) : Kept(state, head)
      BY <1>1, <1>3, <2>2 DEF ReadBackInv, CheckedSoFar
    <3>2. head \in Commits /\ passed' = head
      BY <1>1, <2>2 DEF ReadBackInv, KnownCommits
    <3>3. QED
      BY <1>1, <3>1, <3>2 DEF PassedIsKept, Kept
  <2>3. QED
    BY <2>1, <2>2
<1>6. QED
  BY <1>1, <1>4, <1>5, LedgerRests DEF ReadBackInv

(* What was proposed and never ran may be forgotten.                       *)
LEMMA EndDeployReadsBack ==
  ASSUME ReadBackInv, EndDeploy
  PROVE  ReadBackInv'
<1>1. PICK next : next = IF Routes(command.commit) = Routes(live) THEN NoCommit ELSE command.commit
  OBVIOUS
<1>2. /\ project' = project /\ head' = head /\ live' = live /\ written' = written /\ passed' = NoCommit
      /\ getting' = NotGetting /\ command.name = "deploy" /\ command' = Idle
      /\ ledger' = ledger \/ ledger' = [ledger EXCEPT !.proposed = next]
  BY <1>1 DEF EndDeploy, Finished, tree_vars
<1>3. command'.name = "none" /\ getting'.step = "idle" /\ command # Idle
  BY <1>2 DEF Idle, NotGetting
<1>4. live = ledger.current /\ next \in Commits \union {NoCommit}
  BY <1>1, <1>2, <1>3 DEF ReadBackInv, KnownCommits
<1>5. /\ ledger'.legacy = ledger.legacy /\ ledger'.current = ledger.current /\ ledger'.history = ledger.history
      /\ ledger'.proposed \in Commits \union {NoCommit}
      /\ ledger' = [ legacy |-> ledger'.legacy, current |-> ledger'.current,
                     proposed |-> ledger'.proposed, history |-> ledger'.history ]
  <2>1. ledger = [ legacy |-> ledger.legacy, current |-> ledger.current,
                   proposed |-> ledger.proposed, history |-> ledger.history ]
    BY DEF ReadBackInv, LedgerNames
  <2>2. CASE ledger' = ledger
    BY <2>1, <2>2 DEF ReadBackInv, LedgerNames
  <2>3. CASE ledger' = [ledger EXCEPT !.proposed = next]
    <3>1. ledger' = [ legacy |-> ledger.legacy, current |-> ledger.current,
                      proposed |-> next, history |-> ledger.history ]
      BY <2>1, <2>3
    <3>2. QED
      BY <1>4, <3>1
  <2>4. QED
    BY <1>2, <2>2, <2>3
<1>6. KnownCommits'
  BY <1>2, <1>3, <1>4, <1>5 DEF ReadBackInv, KnownCommits
<1>7. LedgerNames'
  BY <1>5 DEF ReadBackInv, LedgerNames
<1>8. WrittenIsTold'
  <2>1. \A c, f : Tells(c, f) => Tells(c, f)'
    BY <1>2, <1>5 DEF Tells
  <2>2. QED
    BY <1>2, <2>1 DEF ReadBackInv, WrittenIsTold
<1>9. CheckedSoFar' /\ PassedIsKept'
  BY <1>2, <1>3 DEF CheckedSoFar, PassedIsKept
<1>10. QED
  BY <1>6, <1>7, <1>8, <1>9 DEF ReadBackInv

(* The last facet that has an address, of those a commit installs there.   *)
LEMMA HistoryEntryIs ==
  ASSUME NEW c \in Commits, NEW address \in Installs(c), NEW entry, entry = HistoryEntry(c, address)
  PROVE  /\ entry.address = address /\ entry.commit = c
         /\ entry.source \in FacetIds /\ Code[c][entry.source] = address
<1> DEFINE There(i) == Facets[i] \in FacetsAt(c) /\ Code[c][Facets[i]] = address
<1>1. PICK n \in Nat : n = Len(Facets) /\ DOMAIN Facets = 1 .. n
  BY FacetsAssumption
<1>2. c # NoCommit
  BY CommitsAssumption
<1>3. PICK f \in FacetsAt(c) : Code[c][f] = address
  BY <1>2 DEF Installs
<1>4. PICK k \in 1 .. n : There(k)
  BY <1>1, <1>3 DEF FacetsAt, FacetIds
<1> DEFINE back == {m \in Nat : n - m \in 1 .. n /\ There(n - m)}
<1>5. PICK m \in back : \A other \in back : m <= other
  <2>1. n - k \in Nat /\ n - (n - k) = k
    BY <1>1, <1>4
  <2>2. n - k \in back
    BY <1>4, <2>1
  <2>3. back \in SUBSET Nat
    OBVIOUS
  <2> HIDE DEF back
  <2>4. QED
    BY <2>2, <2>3, Least
<1>6. PICK i : i = n - m
  OBVIOUS
<1>7. i \in 1 .. n /\ There(i)
  BY <1>5, <1>6
<1>8. \A j \in 1 .. n : j > i => ~There(j)
  <2>1. SUFFICES ASSUME NEW j \in 1 .. n, j > i, There(j) PROVE FALSE
    OBVIOUS
  <2>2. n - j \in Nat /\ n - (n - j) = j
    BY <1>1
  <2>3. n - j \in back
    BY <2>1, <2>2
  <2>4. m \in Nat /\ m <= n - j
    BY <1>5, <2>3
  <2>5. QED
    BY <1>1, <1>6, <2>1, <2>4
<1> DEFINE last == CHOOSE l \in DOMAIN Facets :
                     /\ Facets[l] \in FacetsAt(c) /\ Code[c][Facets[l]] = address
                     /\ \A j \in DOMAIN Facets : j > l => Facets[j] \notin FacetsAt(c) \/ Code[c][Facets[j]] # address
<1>9. last \in DOMAIN Facets /\ Facets[last] \in FacetsAt(c) /\ Code[c][Facets[last]] = address
  <2>1. \E l \in DOMAIN Facets :
          /\ Facets[l] \in FacetsAt(c) /\ Code[c][Facets[l]] = address
          /\ \A j \in DOMAIN Facets : j > l => Facets[j] \notin FacetsAt(c) \/ Code[c][Facets[j]] # address
    BY <1>1, <1>7, <1>8
  <2>2. QED
    BY <2>1
<1>10. entry = [address |-> address, commit |-> c, source |-> Facets[last]]
  BY DEF HistoryEntry
<1> HIDE DEF last
<1>11. QED
  BY <1>9, <1>10 DEF FacetsAt

(* A commit installs finitely many addresses.                              *)
LEMMA InstallsAreFinite ==
  ASSUME NEW c
  PROVE  IsFiniteSet(Installs(c))
<1>1. CASE c = NoCommit
  BY <1>1, FS_EmptySet DEF Installs
<1>2. CASE c # NoCommit
  <2>1. PICK facets : facets = FacetsAt(c)
    OBVIOUS
  <2>2. facets \in SUBSET FacetIds
    BY <2>1 DEF FacetsAt
  <2>3. IsFiniteSet(facets)
    BY <2>2, FacetsAreFinite, FS_Subset
  <2> DEFINE g == [f \in facets |-> Code[c][f]]
  <2>4. DOMAIN g = facets /\ Installs(c) = {g[f] : f \in facets}
    BY <1>2, <2>1 DEF Installs
  <2> HIDE DEF g
  <2>5. QED
    BY <2>3, <2>4, FiniteImage
<1>3. QED
  BY <1>1, <1>2

(* The history accept leaves.                                              *)
HistoryAfter(c, retired) ==
  {r \in ledger.history : r.address \notin retired} \union {HistoryEntry(c, a) : a \in retired}

(* accept's history, its entries for the addresses retired.                *)
LEMMA RetiredAreRecorded ==
  ASSUME LedgerNames, NEW c, c = ledger.current, NEW retired, retired \subseteq Installs(c),
         NEW history, history = HistoryAfter(c, retired)
  PROVE  /\ IsFiniteSet(history)
         /\ \A r \in history : r.commit \in Commits /\ r.source \in FacetIds /\ r.address = Code[r.commit][r.source]
         /\ \A a \in retired : \E r \in history : r.commit = c /\ r.source \in FacetIds /\ Code[c][r.source] = a
<1>1. \A a \in retired : c \in Commits
  <2>1. c \in Commits \union {NoCommit}
    BY DEF LedgerNames
  <2>2. c = NoCommit => Installs(c) = {}
    BY DEF Installs
  <2>3. QED
    BY <2>1, <2>2
<1>2. PICK new : new = {HistoryEntry(c, a) : a \in retired}
  OBVIOUS
<1>3. ASSUME NEW a \in retired
      PROVE  \E r \in new : /\ r.commit = c /\ r.source \in FacetIds /\ Code[c][r.source] = a
                            /\ r = HistoryEntry(c, a)
  <2>1. PICK entry : entry = HistoryEntry(c, a)
    OBVIOUS
  <2>2. c \in Commits /\ a \in Installs(c)
    BY <1>1
  <2>3. entry.commit = c /\ entry.source \in FacetIds /\ Code[c][entry.source] = a
    BY <2>1, <2>2, HistoryEntryIs
  <2>4. QED
    BY <1>2, <2>1, <2>3
<1>4. \A r \in new : r.commit \in Commits /\ r.source \in FacetIds /\ r.address = Code[r.commit][r.source]
  <2>1. SUFFICES ASSUME NEW a \in retired, NEW r, r = HistoryEntry(c, a)
                 PROVE  r.commit \in Commits /\ r.source \in FacetIds /\ r.address = Code[r.commit][r.source]
    BY <1>2
  <2>2. c \in Commits /\ a \in Installs(c)
    BY <1>1
  <2>3. r.address = a /\ r.commit = c /\ r.source \in FacetIds /\ Code[c][r.source] = a
    BY <2>1, <2>2, HistoryEntryIs
  <2>4. QED
    BY <2>2, <2>3
<1>5. IsFiniteSet(new)
  <2>1. IsFiniteSet(retired)
    BY InstallsAreFinite, FS_Subset
  <2> DEFINE g == [a \in retired |-> HistoryEntry(c, a)]
  <2>2. DOMAIN g = retired /\ new = {g[a] : a \in retired}
    BY <1>2
  <2> HIDE DEF g
  <2>3. QED
    BY <2>1, <2>2, FiniteImage
<1>6. PICK old : old = {r \in ledger.history : r.address \notin retired}
  OBVIOUS
<1>7. IsFiniteSet(old)
  <2>1. old \in SUBSET ledger.history /\ IsFiniteSet(ledger.history)
    BY <1>6 DEF LedgerNames
  <2>2. QED
    BY <2>1, FS_Subset
<1>8. history = old \union new /\ IsFiniteSet(old \union new)
  BY <1>2, <1>5, <1>6, <1>7, FS_Union DEF HistoryAfter
<1>9. QED
  BY <1>3, <1>4, <1>6, <1>8 DEF LedgerNames

(* accept: what is replaced is in the history from then on, and whatever   *)
(* leaves the history for being retired again is in it under its new name. *)
LEMMA AcceptedIsTold ==
  ASSUME ReadBackInv, NEW c, c = ledger.current, NEW next, next = ledger.proposed, live = next,
         live' = live, written' = written,
         NEW retired, retired = Installs(c) \ Installs(next),
         NEW history, history = HistoryAfter(c, retired),
         ledger'.legacy = ledger.legacy, ledger'.current = next, ledger'.history = history
  PROVE  WrittenIsTold'
<1>1. LedgerNames /\ retired \subseteq Installs(c)
  BY DEF ReadBackInv
<1>2. \A a \in retired : \E r \in history : r.commit = c /\ r.source \in FacetIds /\ Code[c][r.source] = a
  BY <1>1, RetiredAreRecorded
<1>3. c \in Commits \union {NoCommit} /\ next \in Commits \union {NoCommit}
  BY <1>1 DEF LedgerNames
<1>4. SUFFICES ASSUME NEW w \in written
               PROVE  \E d \in Commits, f \in FacetIds : w \in Code[d][f] /\ Tells(d, f)'
  BY DEF WrittenIsTold
<1>5. PICK d \in Commits, f \in FacetIds : w \in Code[d][f] /\ Tells(d, f)
  BY DEF ReadBackInv, WrittenIsTold
<1>6. ASSUME NEW a \in retired, w \in a
      PROVE  \E d1 \in Commits, f1 \in FacetIds : w \in Code[d1][f1] /\ Tells(d1, f1)'
  <2>1. PICK r \in history : r.commit = c /\ r.source \in FacetIds /\ Code[c][r.source] = a
    BY <1>2
  <2>2. c \in Commits
    BY <1>3, <1>6 DEF Installs
  <2>3. Tells(c, r.source)'
    BY <2>1 DEF Tells
  <2>4. QED
    BY <1>6, <2>1, <2>2, <2>3
<1>7. CASE d = ledger.legacy.commit /\ f \in ledger.legacy.sources
  BY <1>5, <1>7 DEF Tells
<1>8. CASE d = next /\ f \in FacetsAt(d)
  <2>1. Tells(d, f)'
    BY <1>8 DEF Tells, FacetsAt
  <2>2. QED
    BY <1>5, <2>1
<1>9. CASE d = c /\ f \in FacetsAt(d)
  <2>1. PICK a : a = Code[d][f]
    OBVIOUS
  <2>2. a \in Installs(c) /\ w \in a
    BY <1>5, <1>9, <2>1, CommitsAssumption DEF Installs
  <2>3. CASE a \in retired
    BY <1>6, <2>2, <2>3
  <2>4. CASE a \notin retired
    <3>1. next # NoCommit /\ \E g \in FacetsAt(next) : Code[next][g] = a
      BY <2>2, <2>4 DEF Installs
    <3>2. PICK g \in FacetsAt(next) : Code[next][g] = a
      BY <3>1
    <3>3. next \in Commits /\ g \in FacetIds /\ Tells(next, g)'
      BY <1>3, <3>1, <3>2 DEF Tells, FacetsAt
    <3>4. QED
      BY <2>2, <3>2, <3>3
  <2>5. QED
    BY <2>3, <2>4
<1>10. CASE \E r \in ledger.history : r.commit = d /\ r.source = f
  <2>1. PICK r \in ledger.history : r.commit = d /\ r.source = f
    BY <1>10
  <2>2. r.address = Code[d][f]
    BY <1>1, <2>1 DEF LedgerNames
  <2>3. CASE r.address \in retired
    BY <1>5, <1>6, <2>2, <2>3
  <2>4. CASE r.address \notin retired
    <3>1. r \in history
      BY <2>1, <2>4 DEF HistoryAfter
    <3>2. Tells(d, f)'
      BY <2>1, <3>1 DEF Tells
    <3>3. QED
      BY <1>5, <3>2
  <2>5. QED
    BY <2>3, <2>4
<1>11. QED
  BY <1>5, <1>7, <1>8, <1>9, <1>10 DEF Tells

(* accept forgets nothing that has written.                                *)
LEMMA EndAcceptReadsBack ==
  ASSUME ReadBackInv, EndAccept
  PROVE  ReadBackInv'
<1>1. /\ project' = project /\ head' = head /\ live' = live /\ written' = written /\ passed' = NoCommit
      /\ getting' = NotGetting /\ command' = Idle
  BY DEF EndAccept, Finished, tree_vars
<1>2. command'.name = "none" /\ getting'.step = "idle"
  BY <1>1 DEF Idle, NotGetting
<1>3. CheckedSoFar' /\ PassedIsKept'
  BY <1>1, <1>2 DEF CheckedSoFar, PassedIsKept
<1>4. CASE ledger' = ledger
  <2>1. KnownCommits'
    BY <1>1, <1>2, <1>4 DEF ReadBackInv, KnownCommits
  <2>2. QED
    BY <1>1, <1>3, <1>4, <2>1, LedgerRests DEF ReadBackInv
<1>5. CASE ledger' # ledger
  <2>1. PICK c, next : c = ledger.current /\ next = ledger.proposed
    OBVIOUS
  <2>2. PICK retired : retired = Installs(c) \ Installs(next)
    OBVIOUS
  <2>3. PICK history : history = HistoryAfter(c, retired)
    OBVIOUS
  <2>4. live = next /\ ledger' = [ledger EXCEPT !.current = next, !.proposed = NoCommit, !.history = history]
    BY <1>5, <2>1, <2>2, <2>3 DEF EndAccept, HistoryAfter
  <2>5. ledger = [ legacy |-> ledger.legacy, current |-> ledger.current,
                   proposed |-> ledger.proposed, history |-> ledger.history ]
    BY DEF ReadBackInv, LedgerNames
  <2>6. ledger' = [legacy |-> ledger.legacy, current |-> next, proposed |-> NoCommit, history |-> history]
    BY <2>4, <2>5
  <2>7. /\ ledger'.legacy = ledger.legacy /\ ledger'.current = next
        /\ ledger'.proposed = NoCommit /\ ledger'.history = history
        /\ ledger' = [ legacy |-> ledger'.legacy, current |-> ledger'.current,
                       proposed |-> ledger'.proposed, history |-> ledger'.history ]
    BY <2>6
  <2>8. KnownCommits'
    BY <1>1, <1>2, <2>4, <2>7 DEF ReadBackInv, KnownCommits
  <2>9. LedgerNames'
    <3>1. LedgerNames /\ retired \subseteq Installs(c)
      BY <2>2 DEF ReadBackInv
    <3>2. /\ IsFiniteSet(history)
          /\ \A r \in history : r.commit \in Commits /\ r.source \in FacetIds /\ r.address = Code[r.commit][r.source]
      BY <2>1, <2>3, <3>1, RetiredAreRecorded
    <3>3. QED
      BY <2>1, <2>7, <3>1, <3>2 DEF LedgerNames
  <2>10. WrittenIsTold'
    BY <1>1, <2>1, <2>2, <2>3, <2>4, <2>7, AcceptedIsTold
  <2>11. QED
    BY <1>3, <2>8, <2>9, <2>10 DEF ReadBackInv
<1>6. QED
  BY <1>4, <1>5

(* Whatever ran and wrote is told by the ledger or runs still, and what    *)
(* check passes has been compared with all of it: for any histories,       *)
(* facets and layouts solc makes, and any order of commands.               *)
THEOREM WhatRanIsCompared == Spec => []ReadBackInv
<1>1. Init => ReadBackInv
  BY ReadBackBegins
<1>2. TreesInv /\ ReadBackInv /\ [Next]_vars => ReadBackInv'
  <2> SUFFICES ASSUME TreesInv, ReadBackInv, [Next]_vars PROVE ReadBackInv'
    OBVIOUS
  <2>1. CASE \E c \in project : MoveHead(c)
    BY <2>1, MoveHeadReadsBack
  <2>2. CASE Execute
    BY <2>2, ExecuteReadsBack
  <2>3. CASE StartCheck \/ StartDeploy \/ StartAccept
    BY <2>3, StartReadsBack
  <2>4. CASE Open
    BY <2>4, OpenReadsBack
  <2>5. CASE Read \/ Work
    BY <2>5, GetReadsBack
  <2>6. CASE Compare
    BY <2>6, CompareReadsBack
  <2>7. CASE Close
    BY <2>7, CloseReadsBack
  <2>8. CASE EndCheck
    BY <2>8, EndCheckReadsBack
  <2>9. CASE EndDeploy
    BY <2>9, EndDeployReadsBack
  <2>10. CASE EndAccept
    BY <2>10, EndAcceptReadsBack
  <2>11. CASE UNCHANGED vars
    <3>1. /\ UNCHANGED <<project, head, ledger, live, written, passed>>
          /\ head' = head /\ ledger' = ledger /\ command' = command /\ getting' = getting
      BY <2>11 DEF vars, tree_vars
    <3>2. CheckedSoFar'
      BY <3>1, CheckingRests DEF ReadBackInv, CheckedSoFar
    <3>3. QED
      BY <3>1, <3>2, GoesOn
  <2>12. QED
    BY <2>1, <2>2, <2>3, <2>4, <2>5, <2>6, <2>7, <2>8, <2>9, <2>10, <2>11 DEF Next
<1>3. QED
  BY <1>1, <1>2, TreesHold, PTL DEF Spec

(* When check passes a commit, its facets read back all that any code the  *)
(* proxy ever ran has written; no two of them see something different in   *)
(* one place; and what was recorded is still there under its name.         *)
THEOREM StorageIsReadBack == Spec => []StorageReadsBack
<1>1. ReadBackInv => StorageReadsBack
  BY PassedReadsBack
<1>2. QED
  BY <1>1, WhatRanIsCompared, PTL
=============================================================================
