------------------------------ MODULE PostBatch ------------------------------
(***************************************************************************)
(* post_batch: a call's requests go to the node in batches of at most the  *)
(* limit learned for it.  A batch the node finds too large is halved and   *)
(* resent, one it cannot serve now is resent a few times, and requests cut *)
(* off by too large a response go out again in a smaller batch.  The limit *)
(* outlives the call.                                                      *)
(*                                                                         *)
(* Requests keep their order throughout (`cut + pending[len(chunk):]`), so *)
(* the list `pending` is a set of positions and its prefix the lowest.     *)
(*                                                                         *)
(* What a node takes or answers is counted in requests by some and in      *)
(* bytes by others (_BATCH_TOO_LARGE, _RESPONSE_TOO_LARGE), and bytes      *)
(* differ from one batch to the next: any batch may be found too large,    *)
(* and any number of its answers may fit.                                  *)
(***************************************************************************)
EXTENDS BatchOutcome, Naturals, FiniteSets

CONSTANTS
  MaxRequests,   \* bound: requests of a call
  MaxCalls,      \* bound: calls
  BATCH_LIMIT    \* requests of a batch before anything is learned

ASSUME LimitsAssumption == MaxRequests \in Nat /\ MaxCalls \in Nat /\ BATCH_LIMIT \in Nat \ {0}

VARIABLES
  limit,      \* _batch_limits[url]
  status,     \* "idle" before the first call
  call,       \* the requests of this call
  oversized,  \* those of them whose answer alone is more than the node sends
  pending,    \* those still to answer
  answers,    \* request |-> its answer, "none" yet
  attempt,    \* resends of the batch at the head of pending
  failed,     \* RpcError.failed
  calls,      \* bounded by MaxCalls
  refused     \* history: the smallest batch of several found too large or cut off

vars == <<limit, status, call, oversized, pending, answers, attempt, failed, calls, refused>>

Requests == 1..MaxRequests

(* How many times a batch answered with a status is sent in all; 429 and   *)
(* 502 are as 503.                                                         *)
TRIES == [s \in {503, 504} |-> IF s = 504 THEN 2 ELSE 5]

AtLeast(a, b) == IF a < b THEN b ELSE a
AtMost(a, b) == IF a < b THEN a ELSE b

(* The first n of a set of positions. *)
Prefix(set, n) == {i \in set : Cardinality({j \in set : j <= i}) <= n}

Chunk == Prefix(pending, limit)

Init ==
  /\ limit = BATCH_LIMIT
  /\ status = "idle"
  /\ call = {}
  /\ oversized = {}
  /\ pending = {}
  /\ answers = [i \in Requests |-> "none"]
  /\ attempt = 0
  /\ failed = {}
  /\ calls = 0
  /\ refused = BATCH_LIMIT + 1

Call(n) ==
  /\ status # "posting"
  /\ calls < MaxCalls
  /\ calls' = calls + 1
  /\ status' = "posting"
  /\ call' = 1..n
  /\ oversized' \in SUBSET (1..n)
  /\ pending' = 1..n
  /\ answers' = [i \in Requests |-> "none"]
  /\ attempt' = 0
  /\ failed' = {}
  /\ UNCHANGED <<limit, refused>>

(* The exception leaves with the answers so far and the batch it was about. *)
Raise ==
  /\ status' = "raised"
  /\ failed' = Chunk
  /\ UNCHANGED <<limit, call, oversized, pending, answers, attempt, calls, refused>>

(* 413, or one error for the whole batch that says it was too large, by    *)
(* count or by bytes.  The smaller batch inherits the resends of the larger. *)
TooLarge ==
  /\ status = "posting"
  /\ \/ /\ Cardinality(Chunk) = 1
        /\ Raise
     \/ /\ Cardinality(Chunk) # 1
        /\ limit' = Cardinality(Chunk) \div 2
        /\ refused' = AtMost(refused, Cardinality(Chunk))
        /\ UNCHANGED <<status, call, oversized, pending, answers, attempt, failed, calls>>

(* 429, 502, 503 or 504: resent after a wait, while tries are left.  A node *)
(* says so of a batch of any size.                                         *)
Unavailable(s) ==
  /\ status = "posting"
  /\ \/ /\ attempt + 1 < TRIES[s]
        /\ attempt' = attempt + 1
        /\ UNCHANGED <<limit, status, call, oversized, pending, answers, failed, calls, refused>>
     \/ /\ attempt + 1 >= TRIES[s]
        /\ Raise

(* No answer in time, a dropped connection, another status, an answer that *)
(* is not JSON or that lacks some request's.                               *)
Fail ==
  /\ status = "posting"
  /\ Raise

(* The answers of a response are the first of the batch, up to some length; *)
(* those past it are cut off, and one alone only if it is oversized.       *)
Fits(fitting) ==
  /\ \E n \in 0..Cardinality(Chunk) : fitting = Prefix(Chunk, n)
  /\ fitting \intersect oversized = {}
  /\ Cardinality(Chunk) = 1 => fitting = Chunk \ oversized

LimitAfter(cut) == IF cut = {} THEN limit ELSE AtLeast(1, Cardinality(Chunk) - Cardinality(cut))

(* Every request of the batch is answered: with a result, or with an error *)
(* that cuts it off; those resent go first.                                *)
Answer(results, errors, resent, new_limit) ==
  /\ status = "posting"
  /\ limit' = new_limit
  /\ pending' = resent \union (pending \ Chunk)
  /\ answers' = [i \in Requests |-> IF i \in results THEN "result" ELSE IF i \in errors THEN "cut" ELSE answers[i]]
  /\ status' = IF pending' = {} THEN "returned" ELSE "posting"
  /\ attempt' = 0
  /\ refused' = IF results # Chunk /\ Cardinality(Chunk) > 1 THEN AtMost(refused, Cardinality(Chunk)) ELSE refused
  /\ UNCHANGED <<call, oversized, failed, calls>>

(* A bug: what was cut off is resent even when it was sent alone. *)
AnsweredResendingAlone ==
  \E fitting \in SUBSET Chunk : Fits(fitting) /\ Answer(fitting, {}, Chunk \ fitting, LimitAfter(Chunk \ fitting))

(* A bug: a request cut off is answered with the node's error. *)
AnsweredCut ==
  \E fitting \in SUBSET Chunk : Fits(fitting) /\ Answer(fitting, Chunk \ fitting, {}, LimitAfter(Chunk \ fitting))

(* A bug: a request cut off is neither answered nor resent. *)
AnsweredForgettingCut ==
  \E fitting \in SUBSET Chunk : Fits(fitting) /\ Answer(fitting, {}, {}, LimitAfter(Chunk \ fitting))

(* A bug: the limit becomes the number cut off, not the number answered. *)
AnsweredCountingCut ==
  \E fitting \in SUBSET Chunk :
    LET unfit == Chunk \ fitting
        cut   == IF Cardinality(Chunk) > 1 THEN unfit ELSE {}
    IN  Fits(fitting) /\ Answer(fitting, unfit \ cut, cut, IF cut = {} THEN limit ELSE Cardinality(cut))

(* What is cut off goes out again, unless it was alone: then the error is  *)
(* its answer.                                                             *)
Answered ==
  \E fitting \in SUBSET Chunk :
    LET unfit == Chunk \ fitting
        cut   == IF Cardinality(Chunk) > 1 THEN unfit ELSE {}
    IN  Fits(fitting) /\ Answer(fitting, unfit \ cut, cut, LimitAfter(cut))

Post == TooLarge \/ Answered \/ Fail \/ \E s \in DOMAIN TRIES : Unavailable(s)

Next == (\E n \in Requests : Call(n)) \/ Post

Spec == Init /\ [][Next]_vars

(* The loop runs on; the node answers each post, one way or another. *)
FairSpec == Spec /\ WF_vars(Post)

-----------------------------------------------------------------------------
(* Properties.                                                             *)

(***************************************************************************)
(* A call ends as get_logs and rpc_batch rely on: with every answer, or    *)
(* with those before the failed batch and that batch's requests, none of   *)
(* them answered (RpcError's docstring), whatever was halved, resent or    *)
(* cut off on the way.                                                     *)
(***************************************************************************)
EndsInAnOutcome ==
  LET outcome == [answered |-> {i \in call : answers[i] # "none"}, failed |-> failed]
  IN  /\ status = "returned" => outcome \in Outcomes(call) /\ failed = {}
      /\ status = "raised" => outcome \in Outcomes(call) /\ failed # {}

(***************************************************************************)
(* "Requests cut off by too large a response are resent in a smaller       *)
(* batch": such an error is an answer only to a request whose answer alone *)
(* is more than the node sends, never to one that was cut off behind it.   *)
(***************************************************************************)
CutOnlyWhenAlone == \A i \in Requests : answers[i] = "cut" => i \in oversized

(***************************************************************************)
(* What one call learns serves the next: every post carries a request, and *)
(* fewer than any batch found too large or cut off before, by this call or *)
(* an earlier one.                                                         *)
(***************************************************************************)
NothingRefusedTwice == status = "posting" => Chunk # {} /\ Cardinality(Chunk) < refused

(* Each call ends: resending, halving and cutting off all come to an end.  *)
CallEnds == status = "posting" ~> status # "posting"

(***************************************************************************)
(* An inductive invariant: what is still to answer and what is answered    *)
(* make up the call, and the batch that failed is none of what is answered. *)
(***************************************************************************)
TypeOK ==
  /\ limit \in Nat \ {0}
  /\ refused \in Nat
  /\ status \in {"idle", "posting", "returned", "raised"}
  /\ call \in SUBSET Requests
  /\ oversized \in SUBSET call
  /\ pending \in SUBSET call
  /\ answers \in [Requests -> {"none", "result", "cut"}]
  /\ failed \in SUBSET call

Accounted ==
  /\ status = "posting" => pending # {} /\ failed = {} /\ \A i \in call : answers[i] = "none" <=> i \in pending
  /\ status = "returned" => failed = {} /\ \A i \in call : answers[i] # "none"
  /\ status = "raised" => failed # {} /\ \A i \in failed : answers[i] = "none"

(* Any batch of several is kept below those refused, so what is refused   *)
(* next is smaller still.                                                  *)
BelowRefused == limit < refused

BatchInv == TypeOK /\ Accounted /\ CutOnlyWhenAlone /\ BelowRefused
=============================================================================
