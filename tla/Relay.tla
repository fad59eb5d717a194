------------------------------- MODULE Relay -------------------------------
(***************************************************************************)
(* EvmRelay (evm.py): josuke runs `evm` as a child process.  A request goes *)
(* down its stdin; the state fetches it needs come up its stdout, are       *)
(* answered from a cache or by the node, and go down again; so does, at     *)
(* last, its result.  The trace of what it executes comes up a third pipe,  *)
(* which fills up unless it is read.                                        *)
(*                                                                          *)
(* A pipe is two counters, what was put in and what was taken out.  A line  *)
(* is two chunks, so that a read may end in the middle of one.              *)
(***************************************************************************)
EXTENDS Integers, FiniteSets

CONSTANTS TraceCapacity,  \* chunks the trace pipe holds
          MaxRelays,      \* bound on the relays that share the cache
          MaxCalls,       \* bound on the calls of a relay
          MaxSteps,       \* bound on the traced steps of a call
          MaxHead         \* bound on the chain's head

ASSUME CapacityAssumption == TraceCapacity \in Nat \ {0}
ASSUME BoundsAssumption   == {MaxRelays, MaxCalls, MaxSteps, MaxHead} \subseteq Nat \ {0}

VARIABLES
    parent,    \* where josuke is: see Parents
    ready,     \* what its select() reported
    watched,   \* the trace pipe is registered with its selector
    closed,    \* the pipes whose ends it has closed
    evm,       \* where the child is: see Children
    line,      \* what the child prints: "fetch" or "result"
    block,     \* the block the child reads at in this call, 0 before it asked
    executed,  \* steps of this relay the child executed
    traced,    \* chunks of their trace it wrote
    drained,   \* chunks of them josuke read
    printed,   \* chunks of its line the child wrote
    taken,     \* chunks of it josuke read
    cache,     \* the block eth_blockNumber is cached as, 0 when it is not
    head,      \* the node's latest block
    observed,  \* the blocks children were told they read at
    calls, relays, steps

io   == <<executed, traced, drained, printed, taken>>
node == <<cache, head, observed>>
vars == <<parent, ready, watched, closed, evm, line, block, io, node, calls, relays, steps>>

Parents  == {"out", "idle", "selecting", "drain", "read", "last_drain",
             "line", "reaping"}
Children == {"none", "reading", "running", "tracing", "printing", "hung", "exited"}
Chunks   == 2

TraceHas == traced > drained \/ (evm = "exited" /\ watched)
LineHas  == printed > taken \/ evm = "exited"

-----------------------------------------------------------------------------
Init ==
    /\ parent = "out" /\ ready = {} /\ watched = FALSE /\ closed = {}
    /\ evm = "none" /\ line = "result" /\ block = 0
    /\ executed = 0 /\ traced = 0 /\ drained = 0 /\ printed = 0 /\ taken = 0
    /\ cache = 0 /\ head = 1 /\ observed = {}
    /\ calls = 0 /\ relays = 0 /\ steps = 0

NewPipes == executed' = 0 /\ traced' = 0 /\ drained' = 0 /\ printed' = 0 /\ taken' = 0

(* EvmRelay(): the pipes and the process.                                   *)
Open ==
    /\ parent = "out" /\ relays < MaxRelays
    /\ relays' = relays + 1
    /\ parent' = "idle" /\ evm' = "reading"
    /\ watched' = TRUE /\ closed' = {} /\ ready' = {}
    /\ NewPipes
    /\ calls' = 0
    /\ UNCHANGED <<line, block, node, steps>>

(* call: the request, which the child reads as it is written.               *)
Request ==
    /\ parent = "idle" /\ calls < MaxCalls /\ evm = "reading"
    /\ calls' = calls + 1
    /\ parent' = "selecting"
    /\ evm' = "running" /\ block' = 0 /\ steps' = 0
    /\ UNCHANGED <<ready, watched, closed, line, io, node, relays>>

(* _readline: select() until the line is whole.  What it reports ready need *)
(* not have been so at one instant: any part of what there is.              *)
Select ==
    /\ parent = "selecting"
    /\ ready' \in SUBSET {s \in {"trace", "stdout"} :
                        (s = "trace" => TraceHas) /\ (s = "stdout" => LineHas)} \ {{}}
    /\ parent' = IF "trace" \in ready' THEN "drain" ELSE "read"
    /\ UNCHANGED <<watched, closed, evm, line, block, io, node, calls, relays, steps>>

AfterDrain == IF parent = "drain" THEN "read" ELSE "line"

(* Mutant of Drain: nothing is read before the line is whole.               *)
DrainAtTheEnd ==
    /\ parent \in {"drain", "last_drain"}
    /\ drained' = IF parent = "drain" THEN drained ELSE traced
    /\ parent' = IF parent = "drain" \/ traced = drained THEN AfterDrain ELSE parent
    /\ watched' = (watched /\ ~(evm = "exited" /\ traced = drained))
    /\ UNCHANGED <<ready, closed, evm, line, block, executed, traced, printed, taken, node,
                   calls, relays, steps>>

(* _read_trace: reads until there is nothing, or the child has exited.      *)
Drain ==
    /\ parent \in {"drain", "last_drain"}
    /\ drained' = traced
    /\ parent' = IF traced = drained THEN AfterDrain ELSE parent
    /\ watched' = (watched /\ ~(evm = "exited" /\ traced = drained))
    /\ UNCHANGED <<ready, closed, evm, line, block, executed, traced, printed, taken, node,
                   calls, relays, steps>>

(* Mutant of AfterRead: the trace is read only when select() says so.       *)
AfterReadAtOnce(whole) == IF whole THEN "line" ELSE "selecting"

(* Once the line is whole, what is left of the trace is read.               *)
AfterRead(whole) == IF whole THEN "last_drain" ELSE "selecting"

(* The chunks of the line there are, if select() said so.                   *)
Read ==
    /\ parent = "read"
    /\ "stdout" \in ready => printed > taken
    /\ taken' = IF "stdout" \in ready THEN printed ELSE taken
    /\ parent' = AfterRead(taken' = Chunks)
    /\ UNCHANGED <<ready, watched, closed, evm, line, block, executed, traced, drained, printed,
                   node, calls, relays, steps>>

(* The line is the result: call returns.                                    *)
Return ==
    /\ parent = "line" /\ line = "result"
    /\ parent' = "idle" /\ printed' = 0 /\ taken' = 0
    /\ UNCHANGED <<ready, watched, closed, evm, line, block, executed, traced, drained, node,
                   calls, relays, steps>>

(* The child has its answer, and executes the step that waited for it.      *)
Answered ==
    /\ evm = "reading" /\ evm' = "running"
    /\ executed' = executed + 1
    /\ parent' = "selecting" /\ printed' = 0 /\ taken' = 0
    /\ UNCHANGED <<ready, watched, closed, line, traced, drained, head, calls, relays, steps>>

(* Mutant of AnswerBlock: the answer is not kept.                           *)
AnswerBlockUncached ==
    /\ parent = "line" /\ line = "fetch" /\ block = 0
    /\ block' = IF cache = 0 THEN head ELSE cache
    /\ observed' = observed \cup {block'}
    /\ UNCHANGED cache
    /\ Answered

(* _answer, to eth_blockNumber, which a call asks for first: from the cache *)
(* or the node, whose answer is kept for all relays on the cache.           *)
AnswerBlock ==
    /\ parent = "line" /\ line = "fetch" /\ block = 0
    /\ block' = IF cache = 0 THEN head ELSE cache
    /\ cache' = block'
    /\ observed' = observed \cup {block'}
    /\ Answered

(* To a read at that block; and an error, which is passed on and not kept.  *)
AnswerRead ==
    /\ parent = "line" /\ line = "fetch" /\ block # 0
    /\ UNCHANGED <<block, cache, observed>>
    /\ Answered

AnswerError ==
    /\ parent = "line" /\ line = "fetch" /\ (block = 0 => cache = 0)
    /\ UNCHANGED <<block, cache, observed>>
    /\ Answered

(* Mutant of Close: the trace stays open, and unread.                       *)
CloseInputOnly ==
    /\ parent' = "reaping" /\ closed' = {"stdin"}
    /\ UNCHANGED <<ready, watched, evm, line, block, io, node, calls, relays, steps>>

(* close: stdin and the trace, then wait.                                   *)
Close ==
    /\ parent' = "reaping" /\ closed' = {"stdin", "trace"}
    /\ UNCHANGED <<ready, watched, evm, line, block, io, node, calls, relays, steps>>

(* The relay is done with, its child is gone before the line was whole or   *)
(* took no request or answer, or something raised: the node, or the user.   *)
Leave     == parent = "idle" /\ Close
Exited    == evm = "exited" /\ Close
                /\ \/ parent = "idle"
                   \/ parent = "line" /\ line = "fetch"
                   \/ parent = "read" /\ "stdout" \in ready /\ printed = taken
Interrupt == parent \notin {"out", "reaping"} /\ Close

Reap ==
    /\ parent = "reaping" /\ evm = "exited"
    /\ parent' = "out"
    /\ UNCHANGED <<ready, watched, closed, evm, line, block, io, node, calls, relays, steps>>

(* Five seconds are enough for a child that can still go on to exit.        *)
Terminate ==
    /\ parent = "reaping" /\ evm = "hung"
    /\ evm' = "exited"
    /\ UNCHANGED <<parent, ready, watched, closed, line, block, io, node, calls, relays, steps>>

-----------------------------------------------------------------------------
(* The child, and the chain.                                                *)

Execute ==
    /\ evm = "running" /\ steps < MaxSteps
    /\ executed' = executed + 1 /\ steps' = steps + 1
    /\ UNCHANGED <<parent, ready, watched, closed, evm, line, block, traced, drained, printed,
                   taken, node, calls, relays>>

(* It prints a fetch, or its result, once it has written its trace.         *)
Stop(what) ==
    /\ evm = "running"
    /\ what = "fetch" => steps < MaxSteps
    /\ steps' = IF what = "fetch" THEN steps + 1 ELSE steps
    /\ line' = what
    /\ evm' = "tracing"
    /\ UNCHANGED <<parent, ready, watched, closed, block, io, node, calls, relays>>

(* Its buffer goes out when it prints, or when it is full.                  *)
Trace ==
    /\ evm \in {"running", "tracing"} /\ "trace" \notin closed
    /\ traced < Chunks * executed /\ traced - drained < TraceCapacity
    /\ traced' = traced + 1
    /\ UNCHANGED <<parent, ready, watched, closed, evm, line, block, executed, drained, printed,
                   taken, node, calls, relays, steps>>

PrintLine ==
    /\ evm = "printing" \/ (evm = "tracing" /\ traced = Chunks * executed)
    /\ printed' = printed + 1
    /\ evm' = IF printed' = Chunks THEN "reading" ELSE "printing"
    /\ UNCHANGED <<parent, ready, watched, closed, line, block, executed, traced, drained, taken,
                   node, calls, relays, steps>>

BecomeOf(end) ==
    /\ evm' = end
    /\ UNCHANGED <<parent, ready, watched, closed, line, block, io, node, calls, relays, steps>>

(* It exits at the end of its input, or as it writes to a closed pipe.      *)
Exit ==
    /\ \/ "stdin" \in closed /\ evm = "reading"
       \/ "trace" \in closed /\ evm = "tracing" /\ traced < Chunks * executed
    /\ BecomeOf("exited")

Crash == evm \notin {"none", "exited"} /\ BecomeOf("exited")
Hang  == evm = "running" /\ BecomeOf("hung")

NewBlock ==
    /\ head < MaxHead /\ head' = head + 1
    /\ UNCHANGED <<parent, ready, watched, closed, evm, line, block, io, cache, observed, calls,
                   relays, steps>>

-----------------------------------------------------------------------------
Josuke == Open \/ Request \/ Select \/ Drain \/ Read \/ Return \/ AnswerBlock \/ AnswerRead
            \/ Leave \/ Exited \/ Reap \/ Terminate
Child  == Execute \/ Stop("fetch") \/ Stop("result") \/ Trace \/ PrintLine \/ Exit
Rest   == AnswerError \/ Interrupt \/ Crash \/ Hang \/ NewBlock

Finished == parent = "out" /\ relays = MaxRelays /\ UNCHANGED vars

Next == Josuke \/ Child \/ Rest \/ Finished

(* Neither process stops while it can go on.                                *)
Spec == Init /\ [][Next]_vars /\ WF_vars(Josuke) /\ WF_vars(Child)

-----------------------------------------------------------------------------
(* "By the time a state fetch is answered, or call returns, every step      *)
(* before it has been delivered": none is left in the child, in the pipe or *)
(* half read, and none of a later step is there.                            *)
TraceIsDelivered == parent \in {"line", "idle"} => drained = Chunks * executed

(* Every relay on a cache reads the chain at one block, however many blocks *)
(* there were since, and whichever of their fetches failed.                 *)
OneBlock == Cardinality(observed) <= 1

(* A call returns or raises, unless the child itself never stops: nobody    *)
(* waits on a full pipe.                                                    *)
CallEnds == parent = "selecting" ~> (parent \in {"idle", "reaping"} \/ evm = "hung")

(* A child left in the middle of a call exits by itself.                    *)
ChildExits == parent = "reaping" ~> (evm \in {"exited", "hung"})
=============================================================================
