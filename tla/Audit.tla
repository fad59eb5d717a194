-------------------------------- MODULE Audit --------------------------------
(***************************************************************************)
(* How `audit` reads a proxy's logs: find_deploy_block bisects for the     *)
(* first block with its code, then get_logs scans from there through the   *)
(* latest block in rounds, narrowing the windows the node rejects and      *)
(* reporting the blocks whose history it lacks.                            *)
(*                                                                         *)
(* The order of get_logs' queue only decides which windows go in the       *)
(* batches before one that fails, and any may here, so it is a set.        *)
(***************************************************************************)
EXTENDS BatchOutcome, Integers

CONSTANTS
  Latest,      \* the block fixed up front by run_audit
  FromBlocks   \* bound: values of --from-block

ASSUME BlocksAssumption == Latest \in Nat /\ FromBlocks \subseteq Nat

VARIABLES
  deployed,     \* the node: the first block with the proxy's code
  held,         \* the node: the blocks whose logs it serves
  phase,        \* "search", then "scan", then "done", or "raised" from either
  lo, hi,       \* find_deploy_block's bracket
  from_block,   \* where the scan starts
  queue,        \* windows still to query
  scanned,      \* windows whose logs were collected
  missing,      \* blocks reported missing
  first_held,   \* lowest block a query succeeded from, NoneHeld yet
  odd           \* whether an odd number of rounds was made

node == <<deployed, held>>
search == <<lo, hi, from_block>>
vars == <<deployed, held, phase, lo, hi, from_block, queue, scanned, missing, first_held, odd>>

Blocks == 0..Latest
NoneHeld == Latest + 1   \* above every block, as `is None` is treated

Window == Nat \X Nat   \* (first, last), empty if last < first
Span(w) == w[1]..w[2]
Spans(windows) == UNION {Span(w) : w \in windows}
Single(w) == w[1] = w[2]

-----------------------------------------------------------------------------
(* Narrowing a window the node rejected.                                   *)

AtMost(a, b) == IF a < b THEN a ELSE b
AtLeast(a, b) == IF a < b THEN b ELSE a

(* Windows of `span` blocks covering lo..hi. *)
Windows(first, last, span) ==
  {<<start, AtMost(start + span - 1, last)>> :
     start \in {b \in first..last : (b - first) % span = 0}}

(* A bug: half the distance between the ends, not half the blocks. *)
HalvesRoundedDown(w) ==
  LET half == (w[2] - w[1]) \div 2
  IN  {<<w[1], w[1] + half - 1>>, <<w[1] + half, w[2]>>}

Halves(w) ==
  LET half == (w[2] - w[1] + 1) \div 2
  IN  {<<w[1], w[1] + half - 1>>, <<w[1] + half, w[2]>>}

(* What the node says of a window it rejects: that it takes ranges up to a *)
(* width, that a range from its first block fits its result cap, or none   *)
(* of these.                                                               *)
Unstated == [cap |-> "unstated", blocks |-> 0]
Words == {Unstated} \union [cap : {"range", "results"}, blocks : Blocks]

(* A bug: the block after the range that fits is skipped. *)
NarrowSkippingABlock(words, w) ==
  IF words.cap = "results" /\ w[1] + words.blocks < w[2]
  THEN {<<w[1], w[1] + words.blocks>>} \union Windows(w[1] + words.blocks + 2, w[2], words.blocks + 1)
  ELSE Halves(w)

(* A bug: the last block of the range that fits is asked for again. *)
NarrowRepeatingABlock(words, w) ==
  IF words.cap = "results" /\ w[1] + words.blocks < w[2]
  THEN {<<w[1], w[1] + words.blocks>>} \union Windows(w[1] + words.blocks, w[2], words.blocks + 1)
  ELSE Halves(w)

Narrow(words, w) ==
  IF words.cap = "range" /\ words.blocks < w[2] - w[1] THEN Windows(w[1], w[2], words.blocks + 1)
  ELSE IF words.cap = "results" /\ w[1] + words.blocks < w[2]
  THEN {<<w[1], w[1] + words.blocks>>} \union Windows(w[1] + words.blocks + 1, w[2], words.blocks + 1)
  ELSE Halves(w)

-----------------------------------------------------------------------------
(* Where a window whose history is missing is held from.  The node may say *)
(* where its history starts; else single blocks are probed by bisection,   *)
(* which ends at a held block above one that is missing or is the first.   *)

(* The one block the history starts at, NoneHeld if there is none. *)
HistoryFrom == {b \in held \union {NoneHeld} : \A c \in held : b <= c}

(* A bug: the probe of the last block decides for the whole window. *)
HistoryStartsProbingLast(first, last) == {last + 1}

(* A bug: where the history starts is believed even of a window past it. *)
HistoryStartsUnclamped(first, last) == {AtMost(b, last + 1) : b \in HistoryFrom}

HistoryStarts(first, last) ==
  {AtMost(AtLeast(b, first + 1), last + 1) : b \in HistoryFrom} \union
  (IF last \notin held THEN {last + 1}
   ELSE {b \in first + 1..last : b \in held /\ (b - 1 \notin held \/ b - 1 = first)})

-----------------------------------------------------------------------------
(* find_deploy_block.  A proxy, once deployed, keeps its code.             *)

HasCode(b) == b >= deployed

Init ==
  /\ deployed \in 0..Latest
  /\ held \in SUBSET Blocks
  /\ phase = "search"
  /\ lo = 0
  /\ hi = Latest
  /\ from_block = 0
  /\ queue = {}
  /\ scanned = {}
  /\ missing = {}
  /\ first_held = NoneHeld
  /\ odd = FALSE

ScanFrom(b) ==
  /\ phase' = "scan"
  /\ from_block' = b
  /\ queue' = {<<b, Latest>>}

Bisect ==
  /\ phase = "search"
  /\ lo < hi
  /\ LET mid == (lo + hi) \div 2
     IN  IF HasCode(mid) THEN hi' = mid /\ lo' = lo ELSE lo' = mid + 1 /\ hi' = hi
  /\ UNCHANGED <<node, phase, from_block, queue, scanned, missing, first_held, odd>>

Found ==
  /\ phase = "search"
  /\ lo = hi
  /\ ScanFrom(lo)
  /\ UNCHANGED <<node, lo, hi, scanned, missing, first_held, odd>>

(* --from-block skips the search.  Nothing compares it with Latest. *)
FromBlock(b) ==
  /\ phase = "search"
  /\ lo = 0 /\ hi = Latest
  /\ ScanFrom(b)
  /\ UNCHANGED <<node, lo, hi, scanned, missing, first_held, odd>>

-----------------------------------------------------------------------------
(* get_logs.                                                               *)

(* Windows the node lacks history of, below every block a query succeeded  *)
(* from: blocks are missing up to where the topmost is held from, and the  *)
(* rest of it is asked for again.                                          *)
Restart(start_windows, gaps, retry) ==
  \E top, bottom \in start_windows :
    /\ \A w \in start_windows : bottom[1] <= w[1] /\ w[1] <= top[1]
    /\ \E start \in HistoryStarts(top[1], top[2]) :
         /\ missing' = missing \union gaps \union bottom[1]..(start - 1)
         /\ queue' = retry \union {w \in {<<start, top[2]>>} : start <= top[2]}

(* One round: the windows of the queue go out, those of a batch without an *)
(* answer in time are halved, and each answer is the logs, which the node  *)
(* gives only of blocks it holds, missing history, or a rejection.  What   *)
(* the node rejects as a single block is raised (Abort).                   *)
Round(outcome, ok, rejected, words) ==
  LET timedOut == {w \in outcome.failed : ~Single(w)}
      lacking == outcome.answered \ (ok \union rejected)
      waiting == queue \ (outcome.answered \union timedOut)
      retry == waiting \union (UNION {Narrow(words, w) : w \in rejected}) \union (UNION {Halves(w) : w \in timedOut})
      succeeded == {first_held} \union {w[1] : w \in ok}
  IN  /\ phase = "scan"
      /\ queue # {}
      /\ outcome.failed # {} => timedOut # {}
      /\ \A w \in lacking : ~(Span(w) \subseteq held)
      /\ odd' = ~odd
      /\ scanned' = scanned \union ok
      /\ first_held' \in succeeded
      /\ \A b \in succeeded : first_held' <= b
      /\ LET start_windows == {w \in lacking : w[2] < first_held'}
             gaps == Spans(lacking \ start_windows)
         IN  \/ /\ start_windows = {}
                /\ missing' = missing \union gaps
                /\ queue' = retry
             \/ Restart(start_windows, gaps, retry)
      /\ UNCHANGED <<node, search, phase>>

Scan ==
  \E outcome \in Outcomes(queue) :
    \E ok \in SUBSET {w \in outcome.answered : Span(w) \subseteq held} :
      \E rejected \in SUBSET {w \in outcome.answered \ ok : ~Single(w)} :
        \E words \in Words :
          (rejected = {} => words = Unstated) /\ Round(outcome, ok, rejected, words)

Finish ==
  /\ phase = "scan"
  /\ queue = {}
  /\ phase' = "done"
  /\ UNCHANGED <<node, search, queue, scanned, missing, first_held, odd>>

(* A request fails for good: the node is down, lacks historical state, or  *)
(* rejects or does not answer a single block.                              *)
Abort ==
  /\ phase \in {"search", "scan"}
  /\ phase' = "raised"
  /\ UNCHANGED <<node, search, queue, scanned, missing, first_held, odd>>

Next == Bisect \/ Found \/ (\E b \in FromBlocks : FromBlock(b)) \/ Scan \/ Finish \/ Abort

Spec == Init /\ [][Next]_vars

(* The command goes on until it ends, and every query ends somehow. *)
FairSpec == Spec /\ WF_vars(Next)

-----------------------------------------------------------------------------
(* Properties.                                                             *)

TypeOK ==
  /\ deployed \in Blocks
  /\ held \subseteq Blocks
  /\ phase \in {"search", "scan", "done", "raised"}
  /\ lo \in Blocks /\ hi \in Blocks /\ from_block \in Nat
  /\ queue \subseteq Window
  /\ scanned \subseteq Window
  /\ missing \subseteq Blocks
  /\ first_held \in Nat
  /\ odd \in BOOLEAN

(***************************************************************************)
(* An audit that ends vouches for every block from the scan's start, or,   *)
(* without --from-block, from the proxy's deployment: its logs were read,  *)
(* or it is reported as unaudited, however the node capped, timed out or   *)
(* lacked history.                                                         *)
(***************************************************************************)
EveryBlockIsAccountedFor ==
  phase = "done" =>
    /\ from_block..Latest \subseteq Spans(scanned) \union missing
    /\ lo = hi => deployed..Latest \subseteq Spans(scanned) \union missing

(***************************************************************************)
(* No log is collected twice: a window is never asked for again once its   *)
(* logs are in, and windows never overlap.                                 *)
(***************************************************************************)
NoLogTwice ==
  /\ queue \intersect scanned = {}
  /\ \A v, w \in queue \union scanned : v # w => Span(v) \intersect Span(w) = {}

(***************************************************************************)
(* "Missing history is assumed missing from the start": on a node of which *)
(* that is true, exactly the blocks it lacks are reported, never one whose *)
(* logs it would have given.                                               *)
(***************************************************************************)
MissingIsLacking ==
  (\A b, c \in Blocks : b \in held /\ b <= c => c \in held) => missing \intersect held = {}

(***************************************************************************)
(* The inductive invariant.  What is left to query, what was read and what *)
(* is missing make up the whole range at every point of the scan, and      *)
(* share nothing; the bracket of the search holds the deployment.          *)
(***************************************************************************)
Bracketed == lo <= deployed /\ deployed <= hi

WithinRange == \A w \in queue \union scanned : w[1] <= w[2] /\ w[2] <= Latest

Accounted ==
  /\ phase = "search" => queue = {} /\ scanned = {}
  /\ phase \in {"scan", "done"} =>
       /\ from_block..Latest \subseteq Spans(queue) \union Spans(scanned) \union missing
       /\ lo = hi => from_block <= deployed
  /\ phase = "done" => queue = {}

ScanInv == TypeOK /\ Bracketed /\ WithinRange /\ Accounted /\ NoLogTwice

(* get_logs ends: each round resolves, narrows or shrinks some window.     *)
AuditEnds == <>(phase \in {"done", "raised"})

(***************************************************************************)
(* The invariant behind MissingIsLacking: the logs that were read are of   *)
(* held blocks, and the lowest block a query succeeded from starts a       *)
(* window that was read.                                                   *)
(***************************************************************************)
HeldInv ==
  /\ \A v \in scanned : Span(v) \subseteq held
  /\ first_held = NoneHeld \/ \E v \in scanned : v[1] = first_held
  /\ MissingIsLacking
=============================================================================
