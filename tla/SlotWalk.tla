------------------------------ MODULE SlotWalk ------------------------------
(***************************************************************************)
(* ProxyStorage.fetch (storage.py): josuke does not know which storage      *)
(* slot of a proxy routes a selector, so it walks the selector's dispatch.  *)
(* Each slot the proxy reads is pointed at a stub delegate, to see whether  *)
(* the call reaches the stub; slots that fail are fetched in batches, and   *)
(* the walks go on.  An unfetched slot reads as zero.                       *)
(*                                                                          *)
(* The proxy's code and storage are whatever a proxy may hold: Init takes   *)
(* any of the dispatchers and any contents of its slots.                    *)
(* Neither changes during a walk, since every read is pinned to one block.  *)
(***************************************************************************)
EXTENDS Integers, SequencesExt

CONSTANTS Selectors,   \* what a caller may ask for
          Dummies,     \* the two selectors probed beside a lone one, in order
          Requests,    \* what callers ask for at once: selectors without repeats
          Common,      \* in a slot's name, in place of a selector: not keyed by it
          MaxSteps,    \* bound on a dispatcher's length
          Dispatchers  \* the codes a proxy may have

ASSUME DummiesAssumption == Dummies \in Seq(Selectors) /\ Len(Dummies) = 2 /\ IsInjective(Dummies)
ASSUME CommonAssumption  == Common \notin Selectors

(* What a step of a dispatcher does with the word it reads.  load takes it  *)
(* for the delegate, default takes it when there is none yet, guard stops   *)
(* on zero and unless on anything else, count loops that many times over a  *)
(* list in storage, via runs the code at that address in a frame of its     *)
(* own, which the rest of the dispatch belongs to.                          *)
Kinds == {"load", "default", "guard", "unless", "count", "via"}

(* A step reads a slot of its own: one for each selector, or one for all.   *)
Steps == [kind : Kinds, keyed : BOOLEAN]

ASSUME StepsAssumption       == MaxSteps \in Nat \ {0}
ASSUME RequestsAssumption    == \A r \in Requests : r \in Seq(Selectors) /\ IsInjective(r)
ASSUME DispatchersAssumption == \A d \in Dispatchers : d \in Seq(Steps) /\ Len(d) <= MaxSteps

VARIABLES
    dispatcher,  \* the proxy's code: its steps, in order
    store,       \* the proxy's storage
    wanted,      \* the selectors asked for, without repeats
    phase,       \* "walking", then "found" or "raised"
    queue,       \* selectors to walk in this round, the next one last
    walk,        \* the selector being walked and the slots of its dispatch still to try
    known,       \* the slots fetched
    needs,       \* the slots to fetch before the waiting selectors can go on
    waiting,     \* the selectors that wait for them, in order
    shared,      \* slots that route more than one selector
    claims,      \* slot -> the selector it routes
    found,       \* selector -> slot
    failed       \* <<selector, slot>> that did not route

proxy == <<dispatcher, store, wanted>>
vars  == <<proxy, phase, queue, walk, known, needs, waiting, shared, claims, found, failed>>

-----------------------------------------------------------------------------
(* The proxy, which is external: what evm runs.                             *)

SlotOf(s, i) == <<i, IF dispatcher[i].keyed THEN s ELSE Common>>

(* A facet's own state, and what lies past the end of the list a count      *)
(* walks through.                                                           *)
FacetSlot == <<0, Common>>
ListSlot  == <<MaxSteps + 1, Common>>

Slots == (0 .. MaxSteps + 1) \X (Selectors \cup {Common})

(* A slot holds "zero", a "live" word its owners put there, or the "stub" a *)
(* probe puts in its place.  A trace has an event for each read of the      *)
(* proxy's storage and one, without a slot, for each call made.             *)
NoSlot == <<>>
Start  == [target |-> "zero", depth |-> 1, events |-> <<>>, end |-> "running"]
Read(frame, slot)  == [frame EXCEPT !.events = Append(@, [depth |-> frame.depth, slot |-> slot])]
CallIn(frame)      == Read(frame, NoSlot)
End(frame, status) == [frame EXCEPT !.end = status]

(* A call to the code at a word: the stub answers, no code returns nothing. *)
Into(frame, word) ==
    CASE word = "stub" -> End(CallIn(frame), "reached")
      [] word = "zero" -> End(CallIn(frame), "returned")
      [] OTHER         -> [CallIn(frame) EXCEPT !.depth = @ + 1, !.target = "zero"]

StepOn(frame, step, slot, word) ==
    LET read == Read(frame, slot)
    IN  CASE step.kind = "default" /\ frame.target # "zero" -> frame
          [] step.kind = "default" /\ frame.target = "zero" -> [read EXCEPT !.target = word]
          [] step.kind = "load"                              -> [read EXCEPT !.target = word]
          [] step.kind = "guard"  /\ word = "zero"           -> End(read, "reverted")
          [] step.kind = "unless" /\ word # "zero"           -> End(read, "reverted")
          [] step.kind = "count"  /\ word = "stub"           -> End(Read(read, ListSlot), "exhausted")
          [] step.kind = "via"                               -> Into(read, word)
          [] OTHER                                           -> read

(* The end of a dispatch: a call to the delegate, which is a facet with     *)
(* state of its own, the stub, or nothing.                                  *)
Delegate(frame) ==
    IF frame.target = "live" THEN End(Read(Into(frame, "live"), FacetSlot), "returned")
                             ELSE Into(frame, frame.target)

(* A call of selector s to the proxy with that storage, as evm traces it.   *)
Call(s, storage) ==
    LET ran[i \in 0 .. Len(dispatcher)] ==
            IF i = 0 THEN Start
            ELSE LET frame == ran[i - 1]
                 IN  IF frame.end # "running" THEN frame
                     ELSE StepOn(frame, dispatcher[i], SlotOf(s, i), storage[SlotOf(s, i)])
        last == ran[Len(dispatcher)]
    IN  IF last.end = "running" THEN Delegate(last) ELSE last

-----------------------------------------------------------------------------
(* fetch                                                                    *)

Without(f, x) == [y \in DOMAIN f \ {x} |-> f[y]]
With(f, x, v) == [y \in DOMAIN f \cup {x} |-> IF y = x THEN v ELSE f[y]]

(* What evm is given: the storage known, the rest zero.                     *)
Known            == [k \in Slots |-> IF k \in known THEN store[k] ELSE "zero"]
Stubbed(storage, key) == [k \in Slots |-> IF k = key THEN "stub" ELSE storage[k]]

(* The elements of a sequence that are in T, in order.                      *)
Only(seq, T) ==
    LET upTo[n \in 0 .. Len(seq)] ==
            IF n = 0 THEN <<>>
            ELSE IF seq[n] \in T THEN Append(upTo[n - 1], seq[n]) ELSE upTo[n - 1]
    IN  upTo[Len(seq)]

Reached(call)   == call.end = "reached"
Exhausted(call) == call.end = "exhausted"

(* The slots a selector's dispatch reads, in order.                         *)
Reads(s, storage) ==
    LET events == Call(s, storage).events
    IN  Only([p \in DOMAIN events |-> events[p].slot], Slots)

(* The slots read after key until the frame that read it, or one that       *)
(* called that frame, makes a call.                                         *)
SteeredBy(events, key) ==
    LET at == CHOOSE p \in DOMAIN events : events[p].slot = key
        HandsOff(p) == events[p].slot = NoSlot /\ events[p].depth <= events[at].depth
    IN  {events[p].slot : p \in {q \in at + 1 .. Len(events) :
             events[q].slot # NoSlot /\ \A r \in at + 1 .. q : ~HandsOff(r)}}

(* Mutants of Unknown: the steering slots of a test that ran out of gas     *)
(* count, and the test counts whatever it read.                             *)
UnknownWithoutGas(call, key) == SteeredBy(call.events, key) \ (known \cup {key})
UnknownIgnored(call, key)    == {}

(* The slots a test has yet to have fetched.  Out of gas, it is no route,   *)
(* whatever else it read.                                                   *)
Unknown(call, key) ==
    IF Exhausted(call) THEN {} ELSE SteeredBy(call.events, key) \ (known \cup {key})

(* A lone selector is probed beside a dummy, so a slot that routes every    *)
(* selector is not unique.                                                  *)
Probed(asked) ==
    LET others == Only(Dummies, Selectors \ ToSet(asked))
    IN  asked \o SubSeq(others, 1, Min({Len(others), 2 - Len(asked)}))

(* The walk of a selector is over once it has no slots left to try.         *)
NoWalk == [selector |-> Common, keys |-> <<>>]
Walk(s, keys) == IF keys = <<>> THEN NoWalk ELSE [selector |-> s, keys |-> keys]

Init ==
    /\ dispatcher \in Dispatchers
    /\ wanted \in Requests
    /\ \E live \in SUBSET {SlotOf(s, i) : s \in ToSet(Probed(wanted)), i \in DOMAIN dispatcher} :
           store = [k \in Slots |-> IF k \in live THEN "live" ELSE "zero"]
    /\ phase = "walking"
    /\ queue = Probed(wanted)
    /\ walk = NoWalk
    /\ known = {} /\ needs = {} /\ waiting = <<>>
    /\ shared = {} /\ claims = <<>> /\ found = <<>> /\ failed = {}

(* The next selector of the round.                                          *)
Take ==
    /\ phase = "walking" /\ walk = NoWalk /\ queue # <<>>
    /\ walk'  = Walk(Last(queue), Reads(Last(queue), Known))
    /\ queue' = Front(queue)
    /\ UNCHANGED <<proxy, phase, known, needs, waiting, shared, claims, found, failed>>

Key   == Head(walk.keys)
Tried == Key \in shared \/ <<walk.selector, Key>> \in failed

Walking == phase = "walking" /\ walk.keys # <<>>
Counts(test) == Unknown(test, Key) = {}

(* The walk stops until those slots are fetched.                            *)
WaitFor(slots) ==
    /\ needs'   = needs \cup slots
    /\ waiting' = Append(waiting, walk.selector)
    /\ walk'    = NoWalk

(* Mutant of GoOn: every key that is not the route is waited for.           *)
GoOnWaiting == WaitFor({Key})

(* The key is not the route, so it is on the way to it, and its real value  *)
(* decides what is read next.                                               *)
GoOn ==
    IF Key \in known
      THEN walk' = Walk(walk.selector, Tail(walk.keys)) /\ UNCHANGED <<needs, waiting>>
      ELSE WaitFor({Key})

(* A slot known not to be the route of this selector.                       *)
Pass ==
    /\ Walking /\ Tried
    /\ GoOn
    /\ UNCHANGED <<proxy, phase, queue, known, shared, claims, found, failed>>

(* A test that read slots not fetched says nothing yet.                     *)
Defer(test) ==
    /\ ~Counts(test)
    /\ WaitFor(Unknown(test, Key))
    /\ UNCHANGED <<proxy, phase, queue, known, shared, claims, found, failed>>

Claim(test) ==
    /\ Counts(test) /\ Reached(test)
    /\ Key \notin DOMAIN claims
    /\ claims' = With(claims, Key, walk.selector)
    /\ found'  = With(found, walk.selector, Key)
    /\ walk'   = NoWalk
    /\ UNCHANGED <<proxy, phase, queue, known, needs, waiting, shared, failed>>

(* Mutant of Contest: the selector that claimed the slot is not walked on.  *)
ContestForgettingOther(test) ==
    /\ Counts(test) /\ Reached(test)
    /\ Key \in DOMAIN claims
    /\ claims' = Without(claims, Key)
    /\ shared' = shared \cup {Key}
    /\ found'  = Without(found, claims[Key])
    /\ GoOn
    /\ UNCHANGED <<proxy, phase, queue, known, failed>>

(* A second selector routed by a claimed slot: it routes neither of them    *)
(* alone, and the first walks on.                                           *)
Contest(test) ==
    /\ Counts(test) /\ Reached(test)
    /\ Key \in DOMAIN claims
    /\ claims' = Without(claims, Key)
    /\ shared' = shared \cup {Key}
    /\ found'  = Without(found, claims[Key])
    /\ queue'  = Append(queue, claims[Key])
    /\ GoOn
    /\ UNCHANGED <<proxy, phase, known, failed>>

Fail(test) ==
    /\ Counts(test) /\ ~Reached(test)
    /\ failed' = failed \cup {<<walk.selector, Key>>}
    /\ GoOn
    /\ UNCHANGED <<proxy, phase, queue, known, shared, claims, found>>

(* The key pointed at the stub, to see what the call then does.             *)
Try ==
    /\ Walking /\ ~Tried
    /\ LET test == Call(walk.selector, Stubbed(Known, Key))
       IN  Defer(test) \/ Claim(test) \/ Contest(test) \/ Fail(test)

(* The end of a round: one batch of fetches, then the walks that waited.    *)
Fetch ==
    /\ phase = "walking" /\ walk = NoWalk /\ queue = <<>> /\ waiting # <<>>
    /\ known'   = known \cup needs
    /\ queue'   = Only(waiting, Selectors \ DOMAIN found)
    /\ needs'   = {}
    /\ waiting' = <<>>
    /\ UNCHANGED <<proxy, phase, walk, shared, claims, found, failed>>

(* Nothing waits: the routes' values are fetched, or a selector has none.   *)
Finish ==
    /\ phase = "walking" /\ walk = NoWalk /\ queue = <<>> /\ waiting = <<>>
    /\ known' = known \cup {found[s] : s \in ToSet(wanted) \cap DOMAIN found}
    /\ phase' = IF ToSet(wanted) \subseteq DOMAIN found THEN "found" ELSE "raised"
    /\ UNCHANGED <<proxy, queue, walk, needs, waiting, shared, claims, found, failed>>

Ended == phase # "walking" /\ UNCHANGED vars

Next == Take \/ Pass \/ Try \/ Fetch \/ Finish \/ Ended

Spec == Init /\ [][Next]_vars

-----------------------------------------------------------------------------
(* What fetch promises.                                                     *)

(* The proxy as it is: every slot with its real word.                       *)
Routes(s, k) == Reached(Call(s, Stubbed(store, k)))

(* A test counts only once it says what the whole storage would: a slot     *)
(* found does route its selector on the proxy as it is, and one recorded    *)
(* as failing does not, though most of the storage was zero to the tests.   *)
VerdictsHold ==
    /\ \A s \in DOMAIN found : Routes(s, found[s])
    /\ \A p \in failed : ~Routes(p[1], p[2])

(* The route of a selector: the first slot its dispatch reads that routes   *)
(* it, and no other selector probed with it.                                *)
Alone(s, k) == Routes(s, k) /\ \A t \in ToSet(Probed(wanted)) \ {s} : ~Routes(t, k)
TheRoutes(s) ==
    LET reads == Reads(s, store)
    IN  {reads[i] : i \in {j \in DOMAIN reads :
            Alone(s, reads[j]) /\ \A h \in 1 .. j - 1 : ~Alone(s, reads[h])}}

(* However the walks were ordered, cut short and resumed, what fetch finds  *)
(* is each selector's route, and it fails only where there is none.         *)
FindsTheRoutes ==
    phase # "walking" =>
        \A s \in ToSet(wanted) :
            TheRoutes(s) = IF s \in DOMAIN found THEN {found[s]} ELSE {}

(* A count the stub's address drives is cut off by gas, and what it read    *)
(* until then is never fetched.                                             *)
ListNotFetched == ListSlot \notin known \cup needs

(* Every batch fetches a slot that was not fetched before, so there are no  *)
(* more rounds than slots, and a walk ends.                                 *)
RoundsGetOn == [][waiting # <<>> /\ waiting' = <<>> => known' # known]_vars

-----------------------------------------------------------------------------
(* The inductive invariant behind them.                                     *)

TypeOK ==
    /\ dispatcher \in Dispatchers /\ wanted \in Requests
    /\ store \in [Slots -> {"zero", "live"}]
    /\ phase \in {"walking", "found", "raised"}
    /\ queue \in Seq(Selectors) /\ waiting \in Seq(Selectors)
    /\ walk = NoWalk \/ walk \in [selector : Selectors, keys : Seq(Slots) \ {<<>>}]
    /\ known \subseteq Slots /\ needs \subseteq Slots /\ shared \subseteq Slots
    /\ DOMAIN claims \subseteq Slots /\ \A k \in DOMAIN claims : claims[k] \in Selectors
    /\ DOMAIN found \subseteq Selectors /\ \A s \in DOMAIN found : found[s] \in Slots
    /\ failed \subseteq Selectors \X Slots

(* A round's batch is of slots not fetched before, some just if a walk      *)
(* waits.                                                                   *)
NeedsAreNew == needs \cap known = {} /\ (waiting = <<>> <=> needs = {})

(* A walk is over the slots its dispatch reads as far as they are known,    *)
(* and what it passed is known: the dispatch does get as far as its key.    *)
PassedAreKnown ==
    walk # NoWalk =>
        LET reads == Reads(walk.selector, Known)
        IN  \E n \in 0 .. Len(reads) - 1 :
                /\ walk.keys = SubSeq(reads, n + 1, Len(reads))
                /\ \A i \in 1 .. n : reads[i] \in known

NoRouteOnTheList == \A s \in DOMAIN found : found[s] # ListSlot

WalkInv ==
    /\ TypeOK /\ NeedsAreNew /\ PassedAreKnown
    /\ NoRouteOnTheList /\ ListNotFetched /\ VerdictsHold
=============================================================================
