---------------------------- MODULE Relay_proofs ----------------------------
(***************************************************************************)
(* For a pipe of any capacity and calls of any length: josuke has the whole *)
(* trace before it acts on a line, and relays on one cache read one block.  *)
(*                                                                          *)
(* The trace needs an invariant that relates the two processes.  The child  *)
(* prints nothing before its trace is written (PrintsLast), and josuke goes *)
(* on only with the whole line (HasLine): so when it drains the trace for   *)
(* the last time, the child writes no more of it.                           *)
(***************************************************************************)
EXTENDS Relay, FiniteSetTheorems, TLAPS

(* Where the processes are, and how much of either pipe is read.            *)
Counted ==
    /\ parent \in Parents /\ evm \in Children
    /\ executed \in Nat /\ traced \in Nat /\ drained \in Nat /\ printed \in Nat /\ taken \in Nat
    /\ drained <= traced /\ traced <= Chunks * executed
    /\ taken <= printed /\ printed <= Chunks

(* The child prints once its trace is written, and then waits.              *)
PrintsLast ==
    /\ printed > 0 => traced = Chunks * executed /\ evm \in {"printing", "reading", "exited"}
    /\ evm = "printing" => printed = 1

(* josuke drains the trace for the last time, and answers, with a line.     *)
HasLine  == parent \in {"last_drain", "line"} => taken = Chunks

(* What it read by then is all there is.                                    *)
Drained  == parent = "line" => drained = traced

(* Between two calls both pipes are empty, and the child waits or is gone.  *)
Quiet ==
    parent = "idle" =>
        /\ drained = Chunks * executed /\ printed = 0
        /\ evm \in {"reading", "exited"}

RelayInv == Counted /\ PrintsLast /\ HasLine /\ Drained /\ Quiet

(* The blocks children were told of are the cached one.                     *)
CacheInv ==
    /\ cache \in Nat /\ head \in Nat \ {0}
    /\ observed \subseteq {cache}
    /\ cache = 0 => observed = {}

-----------------------------------------------------------------------------
(* RelayInv holds at first and is kept by every step.                       *)
THEOREM RelayInvariant == Spec => []RelayInv
<1> USE DEF Chunks, Parents, Children, RelayInv, Counted, PrintsLast, HasLine, Drained, Quiet
<1>1. Init => RelayInv
  BY DEF Init
<1>2. RelayInv /\ [Next]_vars => RelayInv'
  <2> SUFFICES ASSUME RelayInv, [Next]_vars
               PROVE  RelayInv'
    OBVIOUS
  <2>1. CASE Open
    BY <2>1 DEF Open, NewPipes
  <2>2. CASE Request
    BY <2>2 DEF Request, io
  <2>3. CASE Select
    BY <2>3 DEF Select, io
  <2>4. CASE Drain
    BY <2>4 DEF Drain, AfterDrain
  <2>5. CASE Read
    BY <2>5 DEF Read, AfterRead
  <2>6. CASE Return
    BY <2>6 DEF Return
  <2>7. CASE AnswerBlock \/ AnswerRead \/ AnswerError
    BY <2>7 DEF AnswerBlock, AnswerRead, AnswerError, Answered
  <2>8. CASE Leave \/ Exited \/ Interrupt
    BY <2>8 DEF Leave, Exited, Interrupt, Close, io
  <2>9. CASE Reap
    BY <2>9 DEF Reap, io
  <2>10. CASE Terminate
    BY <2>10 DEF Terminate, io
  <2>11. CASE Execute
    BY <2>11 DEF Execute
  <2>12. CASE Stop("fetch") \/ Stop("result")
    BY <2>12 DEF Stop, io
  <2>13. CASE Trace
    BY <2>13 DEF Trace
  <2>14. CASE PrintLine
    BY <2>14 DEF PrintLine
  <2>15. CASE Exit \/ Crash \/ Hang
    BY <2>15 DEF Exit, Crash, Hang, BecomeOf, io
  <2>16. CASE NewBlock
    BY <2>16 DEF NewBlock, io
  <2>17. CASE UNCHANGED vars
    BY <2>17 DEF vars, io
  <2> QED
    BY <2>1, <2>2, <2>3, <2>4, <2>5, <2>6, <2>7, <2>8, <2>9, <2>10, <2>11, <2>12, <2>13,
       <2>14, <2>15, <2>16, <2>17 DEF Next, Josuke, Child, Rest, Finished
<1>3. QED
  BY <1>1, <1>2, PTL DEF Spec

(* A state fetch is answered, and a call returns, only once every step the  *)
(* child executed has been delivered.                                       *)
THEOREM TraceDelivered == Spec => []TraceIsDelivered
<1>1. RelayInv => TraceIsDelivered
  BY DEF RelayInv, Counted, PrintsLast, HasLine, Drained, Quiet, TraceIsDelivered, Chunks
<1>2. QED
  BY <1>1, RelayInvariant, PTL

-----------------------------------------------------------------------------
(* CacheInv holds at first, and only the first answer to eth_blockNumber    *)
(* changes the cache.                                                       *)
THEOREM CacheInvariant == Spec => []CacheInv
<1>1. Init => CacheInv
  BY DEF Init, CacheInv
<1>2. CacheInv /\ [Next]_vars => CacheInv'
  <2> SUFFICES ASSUME CacheInv, [Next]_vars
               PROVE  CacheInv'
    OBVIOUS
  <2>1. CASE AnswerBlock
    BY <2>1 DEF AnswerBlock, Answered, CacheInv
  <2>2. CASE AnswerRead \/ AnswerError
    BY <2>2 DEF AnswerRead, AnswerError, Answered, CacheInv
  <2>3. CASE NewBlock
    BY <2>3 DEF NewBlock, CacheInv
  <2>4. CASE UNCHANGED node
    BY <2>4 DEF node, CacheInv
  <2>5. CASE Josuke \/ Interrupt
    BY <2>1, <2>2, <2>4, <2>5 DEF Josuke, Open, Request, Select, Drain, Read, Return,
       Leave, Exited, Interrupt, Close, Reap, Terminate
  <2>6. CASE Child \/ Crash \/ Hang
    BY <2>4, <2>6 DEF Child, Execute, Stop, Trace, PrintLine, Exit, Crash, Hang, BecomeOf
  <2>7. CASE UNCHANGED vars
    BY <2>4, <2>7 DEF vars
  <2> QED
    BY <2>2, <2>3, <2>5, <2>6, <2>7 DEF Next, Rest, Finished
<1>3. QED
  BY <1>1, <1>2, PTL DEF Spec

(* Relays that share a cache read the chain at one block.                   *)
THEOREM RelaysReadOneBlock == Spec => []OneBlock
<1>1. ASSUME CacheInv PROVE OneBlock
  <2>1. observed = {} \/ observed = {cache}
    BY <1>1 DEF CacheInv
  <2>2. Cardinality({}) = 0 /\ Cardinality({cache}) = 1
    BY FS_EmptySet, FS_Singleton
  <2> QED
    BY <2>1, <2>2 DEF OneBlock
<1>2. CacheInv => OneBlock
  BY <1>1
<1>3. QED
  BY <1>2, CacheInvariant, PTL
=============================================================================
