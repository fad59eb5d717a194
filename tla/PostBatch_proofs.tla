--------------------------- MODULE PostBatch_proofs ---------------------------
(***************************************************************************)
(* post_batch accounts for every request and never sends again as many as  *)
(* were refused, for calls of any length, any number of them on one limit, *)
(* and whatever the node takes of each batch.                              *)
(***************************************************************************)
EXTENDS PostBatch, Integers, FiniteSetTheorems, WellFoundedInduction, TLAPS

(* Every set of numbers has a least one.                                   *)
LEMMA Least ==
  ASSUME NEW T \in SUBSET Nat, T # {}
  PROVE  \E x \in T : \A y \in T : x <= y
<1>1. PICK x \in T : \A y \in T : <<y, x>> \notin OpToRel(<, Nat)
  BY NatLessThanWellFounded, WFMin, Zenon
<1>2. \A y \in T : y \in Nat /\ x \in Nat
  OBVIOUS
<1>3. \A y \in T : ~(y < x)
  BY <1>1, <1>2, Zenon DEF OpToRel
<1>4. QED
  BY <1>2, <1>3

-----------------------------------------------------------------------------
(* The first positions of a set.                                           *)

LEMMA PositionsFinite ==
  ASSUME NEW set \in SUBSET Requests
  PROVE  IsFiniteSet(set) /\ Cardinality(set) \in Nat
<1>1. IsFiniteSet(Requests)
  BY LimitsAssumption, FS_Interval DEF Requests
<1>2. QED
  BY <1>1, FS_Subset, FS_CardinalityType

(* A prefix of some length has the first position.                         *)
LEMMA PrefixStarts ==
  ASSUME NEW set \in SUBSET Requests, set # {}, NEW n \in Nat \ {0}
  PROVE  Prefix(set, n) # {} /\ Prefix(set, n) \in SUBSET set
<1>1. set \in SUBSET Nat
  BY DEF Requests
<1>2. PICK first \in set : \A j \in set : first <= j
  BY <1>1, Least
<1>3. {j \in set : j <= first} = {first}
  <2>1. \A j \in set : j <= first <=> j = first
    BY <1>1, <1>2
  <2>2. QED
    BY <2>1
<1>4. first \in Prefix(set, n)
  BY <1>3, FS_Singleton DEF Prefix
<1>5. QED
  BY <1>4 DEF Prefix

(* A prefix is no longer than it may be.                                   *)
LEMMA PrefixShort ==
  ASSUME NEW set \in SUBSET Requests, NEW n \in Nat
  PROVE  Cardinality(Prefix(set, n)) <= n
<1>1. set \in SUBSET Nat /\ MaxRequests \in Nat /\ \A i \in set : i <= MaxRequests
  BY LimitsAssumption DEF Requests
<1>2. Prefix(set, n) \in SUBSET set
  BY DEF Prefix
<1>3. CASE Prefix(set, n) = {}
  BY <1>3, FS_EmptySet
<1>4. CASE Prefix(set, n) # {}
  <2> DEFINE below == {MaxRequests - i : i \in Prefix(set, n)}
  <2>1. below \in SUBSET Nat /\ below # {}
    <3>1. \A i \in Prefix(set, n) : MaxRequests - i \in Nat
      <4> TAKE i \in Prefix(set, n)
      <4>1. i \in set
        BY <1>2
      <4>2. i \in Nat /\ i <= MaxRequests /\ MaxRequests \in Nat
        BY <1>1, <4>1
      <4>3. QED
        BY <4>2
    <3>2. PICK i \in Prefix(set, n) : TRUE
      BY <1>4
    <3>3. MaxRequests - i \in below
      OBVIOUS
    <3>4. QED
      BY <3>1, <3>3
  <2> HIDE DEF below
  <2>2. PICK x \in below : \A y \in below : x <= y
    BY <2>1, Least
  <2>3. PICK last \in Prefix(set, n) : x = MaxRequests - last
    BY <2>2 DEF below
  <2>4. \A j \in Prefix(set, n) : j <= last
    <3> TAKE j \in Prefix(set, n)
    <3>1. MaxRequests - last <= MaxRequests - j
      BY <2>2, <2>3 DEF below
    <3>2. j \in Nat /\ last \in Nat
      BY <1>1, <1>2
    <3>3. QED
      BY <1>1, <3>1, <3>2
  <2> DEFINE upTo == {j \in set : j <= last}
  <2>5. Prefix(set, n) \in SUBSET upTo
    BY <1>2, <2>4
  <2>6. Cardinality(upTo) <= n
    BY DEF Prefix
  <2>7. IsFiniteSet(upTo) /\ Cardinality(upTo) \in Nat
    <3>1. upTo \in SUBSET Requests
      OBVIOUS
    <3> HIDE DEF upTo
    <3>2. QED
      BY <3>1, PositionsFinite
  <2>8. Cardinality(Prefix(set, n)) <= Cardinality(upTo) /\ Cardinality(Prefix(set, n)) \in Nat
    <3> HIDE DEF upTo
    <3>1. Prefix(set, n) \in SUBSET Requests
      BY <1>2
    <3>2. QED
      BY <2>5, <2>7, <3>1, FS_Subset, PositionsFinite
  <2>9. QED
    BY <2>6, <2>7, <2>8
<1>5. QED
  BY <1>3, <1>4

(* The batch at the head of what is pending.                               *)
LEMMA ChunkSent ==
  ASSUME BatchInv, status = "posting"
  PROVE  /\ Chunk # {} /\ Chunk \in SUBSET pending /\ pending \in SUBSET Requests
         /\ IsFiniteSet(Chunk) /\ Cardinality(Chunk) \in Nat \ {0}
         /\ Cardinality(Chunk) <= limit
<1>1. pending \in SUBSET Requests /\ pending # {} /\ limit \in Nat \ {0}
  BY DEF BatchInv, TypeOK, Accounted
<1>2. Chunk # {} /\ Chunk \in SUBSET pending
  BY <1>1, PrefixStarts DEF Chunk
<1>3. IsFiniteSet(Chunk) /\ Cardinality(Chunk) \in Nat
  BY <1>1, <1>2, PositionsFinite
<1>4. Cardinality(Chunk) # 0
  BY <1>2, <1>3, FS_EmptySet
<1>5. Cardinality(Chunk) <= limit
  BY <1>1, PrefixShort DEF Chunk
<1>6. QED
  BY <1>1, <1>2, <1>3, <1>4, <1>5

(* What is cut off is part of the batch: all of it, or less.               *)
LEMMA UnfitCut ==
  ASSUME BatchInv, status = "posting", NEW fitting \in SUBSET Chunk
  PROVE  /\ Cardinality(Chunk \ fitting) \in 0..Cardinality(Chunk)
         /\ fitting # Chunk => Cardinality(Chunk \ fitting) # 0
<1>1. Chunk \in SUBSET Requests /\ IsFiniteSet(Chunk) /\ Cardinality(Chunk) \in Nat
  BY ChunkSent
<1>2. IsFiniteSet(Chunk \ fitting) /\ Cardinality(Chunk \ fitting) \in Nat
  BY <1>1, PositionsFinite
<1>3. Cardinality(Chunk \ fitting) <= Cardinality(Chunk)
  BY <1>1, FS_Subset
<1>4. fitting # Chunk => Chunk \ fitting # {}
  OBVIOUS
<1>5. QED
  BY <1>1, <1>2, <1>3, <1>4, FS_EmptySet

-----------------------------------------------------------------------------
(* The steps of a call.                                                    *)

LEMMA InitBatch == Init => BatchInv
<1> SUFFICES ASSUME Init PROVE BatchInv
  OBVIOUS
<1>1. TypeOK /\ Accounted /\ CutOnlyWhenAlone /\ BelowRefused
  BY LimitsAssumption DEF Init, TypeOK, Accounted, CutOnlyWhenAlone, BelowRefused
<1>2. QED
  BY <1>1 DEF BatchInv

LEMMA CallKeeps ==
  ASSUME BatchInv, NEW n \in Requests, Call(n)
  PROVE  BatchInv'
<1>1. 1..n \in SUBSET Requests /\ 1..n # {}
  BY LimitsAssumption DEF Requests
<1>2. TypeOK' /\ Accounted' /\ CutOnlyWhenAlone' /\ BelowRefused'
  BY <1>1 DEF BatchInv, TypeOK, Accounted, CutOnlyWhenAlone, BelowRefused, Call
<1>3. QED
  BY <1>2 DEF BatchInv

(* The batch that fails is still to answer.                                *)
LEMMA RaiseKeeps ==
  ASSUME BatchInv, status = "posting", Raise
  PROVE  BatchInv'
<1>1. Chunk # {} /\ Chunk \in SUBSET pending /\ pending \in SUBSET call
  BY ChunkSent DEF BatchInv, TypeOK
<1>2. TypeOK' /\ Accounted' /\ CutOnlyWhenAlone' /\ BelowRefused'
  BY <1>1 DEF BatchInv, TypeOK, Accounted, CutOnlyWhenAlone, BelowRefused, Raise
<1>3. QED
  BY <1>2 DEF BatchInv

(* A batch too large is halved, to one or more and less than was refused.  *)
LEMMA TooLargeKeeps == BatchInv /\ TooLarge => BatchInv'
<1> SUFFICES ASSUME BatchInv, TooLarge PROVE BatchInv'
  OBVIOUS
<1>1. CASE Raise
  BY <1>1, RaiseKeeps DEF TooLarge
<1>2. CASE /\ Cardinality(Chunk) # 1
           /\ limit' = Cardinality(Chunk) \div 2
           /\ refused' = AtMost(refused, Cardinality(Chunk))
           /\ UNCHANGED <<status, call, oversized, pending, answers, attempt, failed, calls>>
  <2> DEFINE size == Cardinality(Chunk)
  <2>1. size \in Nat \ {0, 1} /\ size <= limit
    BY <1>2, ChunkSent DEF TooLarge
  <2> HIDE DEF size
  <2>2. limit \in Nat /\ refused \in Nat /\ limit < refused
    BY DEF BatchInv, TypeOK, BelowRefused
  <2>3. size \div 2 \in Nat \ {0} /\ size \div 2 < size
    BY <2>1
  <2>4. limit' = size \div 2 /\ refused' = size
    BY <1>2, <2>1, <2>2 DEF size, AtMost
  <2>5. BelowRefused'
    BY <2>3, <2>4 DEF BelowRefused
  <2>6. TypeOK' /\ Accounted' /\ CutOnlyWhenAlone'
    BY <1>2, <2>1, <2>3, <2>4 DEF BatchInv, TypeOK, Accounted, CutOnlyWhenAlone
  <2>7. QED
    BY <2>5, <2>6 DEF BatchInv
<1>3. QED
  BY <1>1, <1>2 DEF TooLarge

LEMMA UnavailableKeeps ==
  ASSUME BatchInv, NEW s, Unavailable(s)
  PROVE  BatchInv'
<1>1. CASE Raise
  BY <1>1, RaiseKeeps DEF Unavailable
<1>2. CASE UNCHANGED <<limit, status, call, oversized, pending, answers, failed, calls, refused>>
  BY <1>2 DEF BatchInv, TypeOK, Accounted, CutOnlyWhenAlone, BelowRefused
<1>3. QED
  BY <1>1, <1>2 DEF Unavailable

(* What is answered leaves what is pending, and what is cut off does not   *)
(* unless it was alone.                                                    *)
LEMMA AnsweredKeeps == BatchInv /\ Answered => BatchInv'
<1> SUFFICES ASSUME BatchInv, Answered PROVE BatchInv'
  OBVIOUS
<1>1. PICK fitting \in SUBSET Chunk :
        LET unfit == Chunk \ fitting
            cut   == IF Cardinality(Chunk) > 1 THEN unfit ELSE {}
        IN  Fits(fitting) /\ Answer(fitting, unfit \ cut, cut, LimitAfter(cut))
  BY DEF Answered
<1> DEFINE size == Cardinality(Chunk)
           unfit == Chunk \ fitting
           cut == IF size > 1 THEN unfit ELSE {}
           errors == unfit \ cut
<1>2. /\ status = "posting"
      /\ limit' = LimitAfter(cut)
      /\ pending' = cut \union (pending \ Chunk)
      /\ answers' = [i \in Requests |-> IF i \in fitting THEN "result" ELSE IF i \in errors THEN "cut" ELSE answers[i]]
      /\ status' = IF pending' = {} THEN "returned" ELSE "posting"
      /\ refused' = IF fitting # Chunk /\ size > 1 THEN AtMost(refused, size) ELSE refused
      /\ oversized' = oversized /\ call' = call /\ failed' = failed
  BY <1>1 DEF Answer
<1>3. /\ Chunk \in SUBSET pending /\ pending \in SUBSET call /\ call \in SUBSET Requests
      /\ size \in Nat \ {0} /\ size <= limit
  BY <1>2, ChunkSent DEF BatchInv, TypeOK
<1>4. /\ Cardinality(unfit) \in 0..size
      /\ fitting # Chunk => Cardinality(unfit) # 0
  BY <1>2, UnfitCut
<1>5. size = 1 => unfit \in SUBSET oversized
  BY <1>1 DEF Fits
<1>6. \/ cut = unfit /\ errors = {} /\ size > 1
      \/ cut = {} /\ errors = unfit /\ errors \in SUBSET oversized /\ size = 1
  BY <1>3, <1>5
<1>7. /\ limit \in Nat \ {0} /\ refused \in Nat /\ limit < refused
      /\ oversized \in SUBSET call
      /\ answers \in [Requests -> {"none", "result", "cut"}] /\ failed = {}
      /\ \A i \in call : answers[i] = "none" <=> i \in pending
      /\ \A i \in Requests : answers[i] = "cut" => i \in oversized
  BY <1>2 DEF BatchInv, TypeOK, Accounted, CutOnlyWhenAlone, BelowRefused
<1>8. limit' \in Nat \ {0} /\ refused' \in Nat /\ limit' < refused'
  <2>1. CASE cut = {}
    <3>1. limit' = limit
      BY <1>2, <2>1 DEF LimitAfter
    <3>2. refused' = refused
      BY <1>2, <1>3, <1>6, <2>1
    <3>3. QED
      BY <1>7, <3>1, <3>2
  <2>2. CASE cut # {}
    <3>1. size > 1 /\ cut = unfit /\ fitting # Chunk
      BY <1>6, <2>2
    <3>2. limit' = AtLeast(1, size - Cardinality(unfit))
      BY <1>2, <2>2, <3>1 DEF LimitAfter
    <3>3. refused' = size
      BY <1>2, <1>3, <1>7, <3>1 DEF AtMost
    <3> HIDE DEF size, unfit
    <3>4. QED
      BY <1>3, <1>4, <3>1, <3>2, <3>3 DEF AtLeast
  <2>3. QED
    BY <2>1, <2>2
<1> HIDE DEF size, unfit, cut, errors
<1>9. TypeOK'
  BY <1>2, <1>3, <1>6, <1>7, <1>8 DEF BatchInv, TypeOK, unfit
<1>10. \A i \in call : answers'[i] = "none" <=> i \in pending'
  BY <1>2, <1>3, <1>6, <1>7 DEF unfit
<1>11. Accounted'
  BY <1>2, <1>7, <1>10 DEF Accounted
<1>12. CutOnlyWhenAlone'
  BY <1>2, <1>6, <1>7 DEF CutOnlyWhenAlone
<1>13. BelowRefused'
  BY <1>8 DEF BelowRefused
<1>14. QED
  BY <1>9, <1>11, <1>12, <1>13 DEF BatchInv

LEMMA NextBatch == BatchInv /\ [Next]_vars => BatchInv'
<1> SUFFICES ASSUME BatchInv, [Next]_vars PROVE BatchInv'
  OBVIOUS
<1>1. CASE \E n \in Requests : Call(n)
  BY <1>1, CallKeeps
<1>2. CASE TooLarge \/ Answered
  BY <1>2, TooLargeKeeps, AnsweredKeeps
<1>3. CASE Fail
  BY <1>3, RaiseKeeps DEF Fail
<1>4. CASE \E s \in DOMAIN TRIES : Unavailable(s)
  BY <1>4, UnavailableKeeps
<1>5. CASE UNCHANGED vars
  BY <1>5 DEF vars, BatchInv, TypeOK, Accounted, CutOnlyWhenAlone, BelowRefused
<1>6. QED
  BY <1>1, <1>2, <1>3, <1>4, <1>5 DEF Next, Post

-----------------------------------------------------------------------------

(* Between any two posts what is pending and what is answered make up the  *)
(* call.                                                                   *)
THEOREM BatchHolds == Spec => []BatchInv
BY InitBatch, NextBatch, PTL DEF Spec

(* A call of post_batch returns with every answer, or raises with those    *)
(* before the failed batch and that batch's requests, none of them         *)
(* answered: what its callers retry from.                                  *)
THEOREM EveryCallEndsInAnOutcome == Spec => []EndsInAnOutcome
<1>1. BatchInv => EndsInAnOutcome
  <2> SUFFICES ASSUME BatchInv PROVE EndsInAnOutcome
    OBVIOUS
  <2> DEFINE outcome == [answered |-> {i \in call : answers[i] # "none"}, failed |-> failed]
  <2>1. outcome \in Outcome(call)
    BY DEF BatchInv, TypeOK, Outcome
  <2>2. status = "returned" => outcome \in Outcomes(call) /\ failed = {}
    BY <2>1 DEF BatchInv, Accounted, Outcomes
  <2>3. status = "raised" => outcome \in Outcomes(call) /\ failed # {}
    BY <2>1 DEF BatchInv, Accounted, Outcomes
  <2>4. QED
    BY <2>2, <2>3 DEF EndsInAnOutcome
<1>2. QED
  BY <1>1, BatchHolds, PTL

(* A request is answered with "too large" only if its answer alone is more *)
(* than the node sends.                                                    *)
THEOREM NothingCutIsLost == Spec => []CutOnlyWhenAlone
<1>1. BatchInv => CutOnlyWhenAlone
  BY DEF BatchInv
<1>2. QED
  BY <1>1, BatchHolds, PTL

(* However many calls share a limit, and whatever their bytes, no post     *)
(* carries as many requests as some batch refused or cut off before it.    *)
THEOREM RefusedOnce == Spec => []NothingRefusedTwice
<1>1. BatchInv => NothingRefusedTwice
  <2> SUFFICES ASSUME BatchInv, status = "posting" PROVE Chunk # {} /\ Cardinality(Chunk) < refused
    BY DEF NothingRefusedTwice
  <2>1. Chunk # {} /\ Cardinality(Chunk) \in Nat /\ Cardinality(Chunk) <= limit
    BY ChunkSent
  <2>2. limit \in Nat /\ refused \in Nat /\ limit < refused
    BY DEF BatchInv, TypeOK, BelowRefused
  <2>3. QED
    BY <2>1, <2>2
<1>2. QED
  BY <1>1, BatchHolds, PTL
=============================================================================
