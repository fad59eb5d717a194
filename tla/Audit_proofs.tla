---------------------------- MODULE Audit_proofs ----------------------------
(***************************************************************************)
(* Theorems about Audit, for every chain length and every node.            *)
(***************************************************************************)
EXTENDS Audit, TLAPS

(* Each number is at or past a multiple, by less than the divisor. *)
LEMMA MultipleBelow ==
  ASSUME NEW n \in Nat, NEW k \in Nat \ {0}
  PROVE  \E m \in 0..n : m % k = 0 /\ n < m + k
<1> DEFINE q == n \div k
           r == n % k
<1>1. n = k * q + r /\ r \in 0..k-1 /\ q \in Nat
  OBVIOUS
<1>2. (k * q) % k = 0
  OBVIOUS
<1>3. n - r \in 0..n /\ n - r = k * q /\ n < (n - r) + k
  BY <1>1
<1>4. QED
  BY <1>2, <1>3

(* Multiples lie a divisor apart. *)
LEMMA MultiplesApart ==
  ASSUME NEW k \in Nat \ {0}, NEW n \in Nat, NEW m \in Nat, n % k = 0, m % k = 0, n < m
  PROVE  n + k <= m
<1> DEFINE q == n \div k
           r == m \div k
<1>1. n = k * q /\ m = k * r /\ q \in Nat /\ r \in Nat
  OBVIOUS
<1>2. q < r
  BY <1>1
<1>3. k * (q + 1) <= k * r
  BY <1>2
<1>4. QED
  BY <1>1, <1>3

-----------------------------------------------------------------------------
(* Narrowing tiles the window: nothing is dropped, nothing asked for twice. *)

Tiles(pieces, first, last) ==
  /\ pieces \subseteq Window
  /\ \A v \in pieces : first <= v[1] /\ v[1] <= v[2] /\ v[2] <= last
  /\ \A v, w \in pieces : v # w => v[2] < w[1] \/ w[2] < v[1]
  /\ \A b \in first..last : \E v \in pieces : v[1] <= b /\ b <= v[2]

(* _windows covers a range exactly, in windows of at most the span.        *)
LEMMA WindowsTile ==
  ASSUME NEW first \in Nat, NEW last \in Nat, first <= last, NEW span \in Nat \ {0}
  PROVE  Tiles(Windows(first, last, span), first, last)
<1> DEFINE starts == {b \in first..last : (b - first) % span = 0}
           end(b) == AtMost(b + span - 1, last)
<1>1. \A v \in Windows(first, last, span) : \E b \in starts : v = <<b, end(b)>>
  BY DEF Windows
<1>2. \A b \in starts : <<b, end(b)>> \in Windows(first, last, span)
  BY DEF Windows
<1>3. \A b \in starts : b \in Nat /\ end(b) \in Nat /\ first <= b /\ b <= end(b) /\ end(b) <= last
                        /\ end(b) <= b + span - 1
  BY DEF AtMost
<1>4. ASSUME NEW b \in starts, NEW c \in starts, b < c
      PROVE  end(b) < c
  <2> DEFINE n == b - first
             m == c - first
  <2>1. n \in Nat /\ m \in Nat /\ n % span = 0 /\ m % span = 0 /\ n < m
    BY <1>4
  <2>2. n + span <= m
    <3> HIDE DEF n, m
    <3>1. QED
      BY <2>1, MultiplesApart
  <2>3. b + span <= c /\ b \in Nat /\ c \in Nat
    BY <2>2
  <2>4. end(b) \in Nat /\ end(b) <= b + span - 1
    BY <1>3
  <2> HIDE DEF end
  <2>5. QED
    BY <2>3, <2>4
<1>5. ASSUME NEW b \in first..last
      PROVE  \E c \in starts : c <= b /\ b <= end(c)
  <2> DEFINE n == b - first
  <2>1. n \in Nat
    OBVIOUS
  <2>2. PICK m \in 0..n : m % span = 0 /\ n < m + span
    <3> HIDE DEF n
    <3>1. QED
      BY <2>1, MultipleBelow
  <2> DEFINE c == first + m
  <2>3. c \in first..last /\ c - first = m /\ c <= b
    BY <2>2
  <2>4. c \in starts
    BY <2>2, <2>3
  <2>5. b <= end(c)
    BY <2>2 DEF AtMost
  <2> HIDE DEF c, end, starts
  <2>6. QED
    BY <2>3, <2>4, <2>5
<1> HIDE DEF end
<1>6. Windows(first, last, span) \subseteq Window
  BY <1>1, <1>3 DEF Window
<1>7. \A v \in Windows(first, last, span) : first <= v[1] /\ v[1] <= v[2] /\ v[2] <= last
  BY <1>1, <1>3
<1>8. ASSUME NEW v \in Windows(first, last, span), NEW w \in Windows(first, last, span), v # w
      PROVE  v[2] < w[1] \/ w[2] < v[1]
  <2>1. PICK b \in starts : v = <<b, end(b)>>
    BY <1>1
  <2>2. PICK c \in starts : w = <<c, end(c)>>
    BY <1>1
  <2>3. b < c \/ c < b
    BY <1>8, <2>1, <2>2
  <2>4. QED
    BY <1>4, <2>1, <2>2, <2>3
<1>9. ASSUME NEW b \in first..last
      PROVE  \E v \in Windows(first, last, span) : v[1] <= b /\ b <= v[2]
  <2>1. PICK c \in starts : c <= b /\ b <= end(c)
    BY <1>5
  <2>2. <<c, end(c)>>[1] <= b /\ b <= <<c, end(c)>>[2]
    BY <2>1
  <2>3. QED
    BY <1>2, <2>2
<1>10. QED
  BY <1>6, <1>7, <1>8, <1>9 DEF Tiles

(* So do the two halves of a window of more than one block.                *)
LEMMA HalvesTile ==
  ASSUME NEW w \in Window, w[1] < w[2]
  PROVE  Tiles(Halves(w), w[1], w[2])
<1> DEFINE half == (w[2] - w[1] + 1) \div 2
           left == <<w[1], w[1] + half - 1>>
           right == <<w[1] + half, w[2]>>
<1>1. w[1] \in Nat /\ w[2] \in Nat
  BY DEF Window
<1>2. half \in Nat /\ 1 <= half /\ half <= w[2] - w[1]
  BY <1>1
<1>3. Halves(w) = {left, right}
  BY DEF Halves
<1> HIDE DEF half
<1>4. left \in Window /\ right \in Window
  BY <1>1, <1>2 DEF Window
<1>5. left[1] = w[1] /\ left[2] = w[1] + half - 1 /\ right[1] = w[1] + half /\ right[2] = w[2]
  OBVIOUS
<1> HIDE DEF left, right
<1>6. QED
  BY <1>1, <1>2, <1>3, <1>4, <1>5 DEF Tiles

(* So does _narrow, whatever cap the node's rejection states.              *)
LEMMA NarrowTiles ==
  ASSUME NEW words \in Words, NEW w \in Window, w[1] < w[2]
  PROVE  Tiles(Narrow(words, w), w[1], w[2])
<1>1. w[1] \in Nat /\ w[2] \in Nat /\ words.blocks \in Nat
  BY BlocksAssumption DEF Window, Words, Unstated, Blocks
<1>2. CASE words.cap = "range" /\ words.blocks < w[2] - w[1]
  <2>1. Narrow(words, w) = Windows(w[1], w[2], words.blocks + 1)
    BY <1>2 DEF Narrow
  <2>2. QED
    BY <1>1, <2>1, WindowsTile
<1>3. CASE words.cap = "results" /\ w[1] + words.blocks < w[2]
  <2> DEFINE next == w[1] + words.blocks + 1
             fit == <<w[1], w[1] + words.blocks>>
             rest == Windows(next, w[2], words.blocks + 1)
  <2>1. Narrow(words, w) = {fit} \union rest
    BY <1>3 DEF Narrow
  <2>2. Tiles(rest, next, w[2]) /\ next \in Nat
    BY <1>1, <1>3, WindowsTile
  <2>3. fit \in Window /\ fit[1] = w[1] /\ fit[2] = next - 1 /\ w[1] < next
    BY <1>1 DEF Window
  <2> HIDE DEF fit, rest, next
  <2>4. {fit} \union rest \subseteq Window
    BY <2>2, <2>3 DEF Tiles
  <2>5. \A v \in {fit} \union rest : w[1] <= v[1] /\ v[1] <= v[2] /\ v[2] <= w[2]
    <3>1. next <= w[2]
      BY <1>1, <1>3 DEF next
    <3>2. \A v \in rest : v[1] \in Nat /\ v[2] \in Nat /\ next <= v[1] /\ v[1] <= v[2] /\ v[2] <= w[2]
      BY <2>2 DEF Tiles, Window
    <3>3. QED
      BY <1>1, <2>2, <2>3, <3>1, <3>2
  <2>6. ASSUME NEW u \in {fit} \union rest, NEW v \in {fit} \union rest, u # v
        PROVE  u[2] < v[1] \/ v[2] < u[1]
    <3>1. \A x \in rest : x[1] \in Nat /\ next <= x[1]
      BY <2>2 DEF Tiles, Window
    <3>2. CASE u \in rest /\ v \in rest
      BY <2>2, <2>6, <3>2 DEF Tiles
    <3>3. CASE u = fit \/ v = fit
      BY <2>2, <2>3, <2>6, <3>1, <3>3
    <3>4. QED
      BY <3>2, <3>3
  <2>7. ASSUME NEW b \in w[1]..w[2]
        PROVE  \E v \in {fit} \union rest : v[1] <= b /\ b <= v[2]
    <3>1. CASE b < next
      BY <1>1, <2>2, <2>3, <3>1
    <3>2. CASE next <= b
      <4>1. PICK v \in rest : v[1] <= b /\ b <= v[2]
        BY <1>1, <2>2, <3>2 DEF Tiles
      <4>2. QED
        BY <4>1
    <3>3. QED
      BY <1>1, <2>2, <3>1, <3>2
  <2>8. QED
    BY <2>1, <2>4, <2>5, <2>6, <2>7 DEF Tiles
<1>4. CASE Narrow(words, w) = Halves(w)
  BY <1>4, HalvesTile
<1>5. QED
  BY <1>2, <1>3, <1>4 DEF Narrow

-----------------------------------------------------------------------------
(* Windows that share no block.                                            *)

Filled(windows) == \A w \in windows : w[1] <= w[2]
Apart(windows) == \A v, w \in windows : v # w => v[2] < w[1] \/ w[2] < v[1]

(* Windows that are apart have no block in common.                         *)
LEMMA ApartSpans ==
  ASSUME NEW windows \in SUBSET Window, Filled(windows)
  PROVE  Apart(windows) <=> \A v, w \in windows : v # w => Span(v) \intersect Span(w) = {}
<1>1. ASSUME NEW v \in windows, NEW w \in windows
      PROVE  Span(v) \intersect Span(w) = {} <=> v[2] < w[1] \/ w[2] < v[1]
  <2>1. v[1] \in Nat /\ v[2] \in Nat /\ w[1] \in Nat /\ w[2] \in Nat /\ v[1] <= v[2] /\ w[1] <= w[2]
    BY DEF Window, Filled
  <2>2. v[1] \in Span(v) /\ w[1] \in Span(w)
    BY <2>1 DEF Span
  <2>3. ASSUME Span(v) \intersect Span(w) = {}, ~(v[2] < w[1]), ~(w[2] < v[1])
        PROVE  FALSE
    <3>1. CASE v[1] <= w[1]
      BY <2>1, <2>2, <2>3, <3>1 DEF Span
    <3>2. CASE w[1] <= v[1]
      BY <2>1, <2>2, <2>3, <3>2 DEF Span
    <3>3. QED
      BY <2>1, <3>1, <3>2
  <2>4. ASSUME v[2] < w[1] \/ w[2] < v[1]
        PROVE  Span(v) \intersect Span(w) = {}
    BY <2>1, <2>4 DEF Span
  <2>5. QED
    BY <2>3, <2>4
<1>2. QED
  BY <1>1 DEF Apart

(* The windows of `new` are parts of those of `old`, each window's own     *)
(* apart from each other.                                                  *)
Divided(old, Parts, new) ==
  /\ old \subseteq Window /\ new \subseteq Window
  /\ \A x \in new : x[1] <= x[2] /\ \E p \in old : x \in Parts[p]
  /\ \A p \in old : \A x \in Parts[p] : p[1] <= x[1] /\ x[2] <= p[2]
  /\ \A p \in old : Apart(Parts[p])

(* Parts are apart from each other and from the windows that stay whole.   *)
LEMMA PartsApart ==
  ASSUME NEW old, NEW whole, NEW Parts, NEW new, Divided(old, Parts, new),
         whole \subseteq Window, old \intersect whole = {},
         Filled(old \union whole), Apart(old \union whole)
  PROVE  /\ new \intersect whole = {}
         /\ Filled(new \union whole)
         /\ Apart(new \union whole)
<1>1. \A w \in old \union whole \union new : w[1] \in Nat /\ w[2] \in Nat /\ w[1] <= w[2]
  BY DEF Window, Filled, Divided
<1>2. ASSUME NEW x \in new, NEW w \in whole
      PROVE  x[2] < w[1] \/ w[2] < x[1]
  <2>1. PICK p \in old : x \in Parts[p]
    BY DEF Divided
  <2>2. p # w
    OBVIOUS
  <2>3. p[1] <= x[1] /\ x[2] <= p[2]
    BY <2>1 DEF Divided
  <2>4. p[2] < w[1] \/ w[2] < p[1]
    BY <2>2 DEF Apart
  <2>5. QED
    BY <1>1, <2>3, <2>4
<1>3. ASSUME NEW x \in new, NEW y \in new, x # y
      PROVE  x[2] < y[1] \/ y[2] < x[1]
  <2>1. PICK p \in old : x \in Parts[p]
    BY DEF Divided
  <2>2. PICK q \in old : y \in Parts[q]
    BY DEF Divided
  <2>3. CASE p = q
    BY <1>3, <2>1, <2>2, <2>3 DEF Apart, Divided
  <2>4. CASE p # q
    <3>1. p[2] < q[1] \/ q[2] < p[1]
      BY <2>4 DEF Apart
    <3>2. p[1] <= x[1] /\ x[2] <= p[2] /\ q[1] <= y[1] /\ y[2] <= q[2]
      BY <2>1, <2>2 DEF Divided
    <3>3. QED
      BY <1>1, <3>1, <3>2
  <2>5. QED
    BY <2>3, <2>4
<1>4. new \intersect whole = {}
  BY <1>1, <1>2
<1>5. ASSUME NEW x \in new \union whole, NEW y \in new \union whole, x # y
      PROVE  x[2] < y[1] \/ y[2] < x[1]
  <2>1. CASE x \in whole /\ y \in whole
    BY <1>5, <2>1 DEF Apart
  <2>2. CASE x \in new /\ y \in whole
    BY <1>2, <2>2
  <2>3. CASE x \in whole /\ y \in new
    BY <1>2, <2>3
  <2>4. CASE x \in new /\ y \in new
    BY <1>3, <1>5, <2>4
  <2>5. QED
    BY <2>1, <2>2, <2>3, <2>4
<1>6. QED
  BY <1>1, <1>4, <1>5 DEF Filled, Apart

-----------------------------------------------------------------------------
(* One round of get_logs.                                                  *)

(* A start of the history lies past the window's first block: the scan     *)
(* gets on.                                                                *)
LEMMA StartsBeyond ==
  ASSUME NEW first \in Blocks, NEW last \in Blocks, first <= last, held \subseteq Blocks,
         NEW start \in HistoryStarts(first, last)
  PROVE  start \in Nat /\ first < start /\ start <= last + 1
<1>1. \A b \in HistoryFrom : b \in Nat
  BY BlocksAssumption DEF HistoryFrom, NoneHeld, Blocks
<1>2. CASE \E b \in HistoryFrom : start = AtMost(AtLeast(b, first + 1), last + 1)
  <2>1. PICK b \in HistoryFrom : start = AtMost(AtLeast(b, first + 1), last + 1)
    BY <1>2
  <2>2. b \in Nat /\ first \in Nat /\ last \in Nat
    BY <1>1, BlocksAssumption DEF Blocks
  <2>3. AtLeast(b, first + 1) \in Nat /\ first + 1 <= AtLeast(b, first + 1)
    BY <2>2 DEF AtLeast
  <2>4. QED
    BY <2>1, <2>2, <2>3 DEF AtMost
<1>3. CASE start = last + 1 \/ start \in first + 1..last
  BY <1>3, BlocksAssumption DEF Blocks
<1>4. QED
  BY <1>2, <1>3 DEF HistoryStarts

(* A round of get_logs keeps the queue, what was read and what is missing  *)
(* apart, and the whole range accounted for.                               *)
LEMMA RoundKeeps ==
  ASSUME ScanInv, NEW outcome \in Outcomes(queue),
         NEW ok \in SUBSET outcome.answered,
         NEW rejected \in SUBSET {w \in outcome.answered \ ok : ~Single(w)},
         NEW words \in Words, Round(outcome, ok, rejected, words)
  PROVE  ScanInv'
<1> DEFINE timedOut == {w \in outcome.failed : ~Single(w)}
           lacking == outcome.answered \ (ok \union rejected)
           waiting == queue \ (outcome.answered \union timedOut)
           retry == waiting \union (UNION {Narrow(words, w) : w \in rejected})
                            \union (UNION {Halves(w) : w \in timedOut})
           succeeded == {first_held} \union {w[1] : w \in ok}
           start_windows == {w \in lacking : w[2] < first_held'}
           gaps == Spans(lacking \ start_windows)
<1>1. /\ outcome.answered \subseteq queue /\ outcome.failed \subseteq queue
      /\ outcome.answered \intersect outcome.failed = {}
  BY DEF Outcomes, Outcome
<1>2. /\ phase = "scan" /\ queue # {}
      /\ odd' = ~odd
      /\ scanned' = scanned \union ok
      /\ first_held' \in succeeded
      /\ \/ start_windows = {} /\ missing' = missing \union gaps /\ queue' = retry
         \/ Restart(start_windows, gaps, retry)
      /\ UNCHANGED <<node, search, phase>>
  BY DEF Round
<1>3. \A w \in queue \union scanned : /\ w \in Window /\ w[1] \in Blocks /\ w[2] \in Blocks
                                     /\ w[1] <= w[2] /\ w[2] <= Latest
  BY BlocksAssumption DEF ScanInv, TypeOK, WithinRange, Window, Blocks
<1>4. /\ queue \intersect scanned = {} /\ Filled(queue \union scanned) /\ Apart(queue \union scanned)
      /\ queue \union scanned \in SUBSET Window
  <2>1. Filled(queue \union scanned) /\ queue \union scanned \in SUBSET Window
    BY <1>3 DEF Filled
  <2>2. QED
    BY <2>1, ApartSpans DEF ScanInv, NoLogTwice
<1>5. rejected \subseteq outcome.answered /\ rejected \intersect ok = {}
  OBVIOUS
<1>6. \A w \in rejected \union timedOut : w \in Window /\ w[1] < w[2]
  BY <1>1, <1>3, <1>5, BlocksAssumption DEF Single, Blocks
<1>7. \A w \in rejected : Tiles(Narrow(words, w), w[1], w[2])
  BY <1>6, NarrowTiles
<1>8. \A w \in timedOut : Tiles(Halves(w), w[1], w[2])
  BY <1>6, HalvesTile
<1>9. \A w \in queue : w \in waiting \/ w \in rejected \/ w \in timedOut \/ w \in lacking \/ w \in ok
  OBVIOUS
(* What replaces the queue's windows, parts(rest) of each when `rest` is   *)
(* what is asked again of the windows whose history is missing.            *)
<1> DEFINE parts(rest) ==
             [p \in queue \ ok |-> IF p \in rejected THEN Narrow(words, p)
                              ELSE IF p \in timedOut THEN Halves(p)
                              ELSE IF p \in waiting THEN {p}
                              ELSE {w \in {rest} : p[1] <= w[1] /\ w[1] <= w[2] /\ w[2] = p[2]}]
<1>10. ASSUME NEW rest \in Window, NEW new \in SUBSET Window,
              \A x \in new : \/ x \in retry
                             \/ x = rest /\ \E p \in lacking : p[1] <= x[1] /\ x[1] <= x[2] /\ x[2] = p[2]
       PROVE  /\ new \intersect (scanned \union ok) = {}
              /\ Filled(new \union scanned \union ok)
              /\ Apart(new \union scanned \union ok)
              /\ \A x \in new : x[2] <= Latest
  <2> DEFINE P == parts(rest)
             old == queue \ ok
             whole == scanned \union ok
  <2>1. \A p \in old : /\ P[p] \subseteq Window
                       /\ \A x \in P[p] : p[1] <= x[1] /\ x[1] <= x[2] /\ x[2] <= p[2]
                       /\ Apart(P[p])
    <3> SUFFICES ASSUME NEW p \in old
                 PROVE  /\ P[p] \subseteq Window
                        /\ \A x \in P[p] : p[1] <= x[1] /\ x[1] <= x[2] /\ x[2] <= p[2]
                        /\ Apart(P[p])
      OBVIOUS
    <3>0. p \in Window /\ p[1] \in Nat /\ p[2] \in Nat /\ p[1] <= p[2]
      BY <1>3 DEF Window
    <3>1. CASE p \in rejected
      <4>1. P[p] = Narrow(words, p)
        BY <3>1
      <4>2. QED
        BY <1>7, <3>1, <4>1 DEF Tiles, Apart
    <3>2. CASE p \notin rejected /\ p \in timedOut
      <4>1. P[p] = Halves(p)
        BY <3>2
      <4>2. QED
        BY <1>8, <3>2, <4>1 DEF Tiles, Apart
    <3>3. CASE p \notin rejected /\ p \notin timedOut /\ p \in waiting
      <4>1. P[p] = {p}
        BY <3>3
      <4>2. QED
        BY <3>0, <4>1 DEF Apart
    <3>4. CASE p \notin rejected /\ p \notin timedOut /\ p \notin waiting
      <4>1. P[p] = {w \in {rest} : p[1] <= w[1] /\ w[1] <= w[2] /\ w[2] = p[2]}
        BY <3>4
      <4> HIDE DEF P
      <4>2. QED
        BY <3>0, <4>1 DEF Apart
    <3>5. QED
      BY <3>1, <3>2, <3>3, <3>4
  <2>2. ASSUME NEW x \in new
        PROVE  \E p \in old : x \in P[p]
    <3>1. CASE x \in waiting
      BY <1>1, <1>5, <3>1
    <3>2. ASSUME NEW p \in rejected, x \in Narrow(words, p)
          PROVE  \E q \in old : x \in P[q]
      <4>1. p \in old /\ P[p] = Narrow(words, p)
        BY <1>1, <1>5
      <4>2. QED
        BY <3>2, <4>1
    <3>3. ASSUME NEW p \in timedOut, x \in Halves(p)
          PROVE  \E q \in old : x \in P[q]
      <4>1. p \in old /\ P[p] = Halves(p)
        BY <1>1, <1>5
      <4>2. QED
        BY <3>3, <4>1
    <3>4. ASSUME NEW p \in lacking, p[1] <= x[1], x[1] <= x[2], x[2] = p[2], x = rest
          PROVE  \E q \in old : x \in P[q]
      <4>1. p \in old /\ p \notin rejected /\ p \notin timedOut /\ p \notin waiting
        BY <1>1
      <4>2. x \in P[p]
        BY <3>4, <4>1
      <4>3. QED
        BY <4>1, <4>2
    <3>5. x \in retry => \/ x \in waiting
                         \/ \E p \in rejected : x \in Narrow(words, p)
                         \/ \E p \in timedOut : x \in Halves(p)
      <4> HIDE DEF waiting, timedOut
      <4>1. QED
        OBVIOUS
    <3>6. QED
      BY <1>10, <3>1, <3>2, <3>3, <3>4, <3>5
  <2>3. /\ old \in SUBSET Window /\ whole \in SUBSET Window /\ old \intersect whole = {}
        /\ old \union whole = queue \union scanned
    BY <1>1, <1>3, <1>4
  <2> HIDE DEF P, old, whole
  <2>4. \A x \in new : x[1] <= x[2] /\ \E p \in old : x \in P[p]
    BY <2>1, <2>2
  <2>5. /\ new \intersect whole = {} /\ Filled(new \union whole) /\ Apart(new \union whole)
    <3>1. Divided(old, P, new)
      BY <2>1, <2>3, <2>4 DEF Divided
    <3>2. old \intersect whole = {} /\ Filled(old \union whole) /\ Apart(old \union whole) /\ whole \subseteq Window
      BY <1>4, <2>3
    <3>3. QED
      BY <3>1, <3>2, PartsApart
  <2>6. \A x \in new : x[2] <= Latest
    <3> SUFFICES ASSUME NEW x \in new PROVE x[2] <= Latest
      OBVIOUS
    <3>1. PICK p \in old : x \in P[p]
      BY <2>4
    <3>2. x[2] <= p[2] /\ p \in queue
      BY <2>1, <3>1 DEF old
    <3>3. p[2] <= Latest /\ p[2] \in Nat /\ x[2] \in Nat
      BY <1>3, <3>2 DEF Window
    <3>4. QED
      BY <3>2, <3>3, BlocksAssumption
  <2>7. QED
    BY <2>5, <2>6 DEF whole
<1>11. retry \subseteq Window
  <2>1. waiting \subseteq Window
    BY <1>3
  <2>2. \A w \in rejected : Narrow(words, w) \subseteq Window
    BY <1>7 DEF Tiles
  <2>3. \A w \in timedOut : Halves(w) \subseteq Window
    BY <1>8 DEF Tiles
  <2> HIDE DEF waiting, timedOut
  <2>4. QED
    BY <2>1, <2>2, <2>3
<1>12. ASSUME NEW b \in from_block..Latest
       PROVE  \/ b \in Spans(retry) \/ b \in Spans(scanned') \/ b \in missing
              \/ \E p \in lacking : p[1] <= b /\ b <= p[2]
  <2>1. b \in Nat
    BY BlocksAssumption DEF ScanInv, TypeOK
  <2>2. b \in Spans(queue) \union Spans(scanned) \union missing
    BY <1>2, <1>12 DEF ScanInv, Accounted
  <2>3. CASE b \in Spans(scanned) \union missing
    BY <1>2, <2>3 DEF Spans
  <2>4. CASE b \in Spans(queue)
    <3>1. PICK p \in queue : b \in Span(p)
      BY <2>4 DEF Spans
    <3>2. p[1] <= b /\ b <= p[2] /\ p[1] \in Nat /\ p[2] \in Nat
      BY <1>3, <3>1 DEF Span, Window
    <3>3. CASE p \in waiting
      BY <3>1, <3>3 DEF Spans
    <3>4. CASE p \in ok
      BY <1>2, <3>1, <3>4 DEF Spans
    <3>5. CASE p \in lacking
      BY <3>2, <3>5
    <3>6. CASE p \in rejected
      <4>1. PICK v \in Narrow(words, p) : v[1] <= b /\ b <= v[2]
        BY <1>7, <2>1, <3>2, <3>6 DEF Tiles
      <4>2. v \in retry
        BY <3>6, <4>1
      <4>3. v[1] \in Nat /\ v[2] \in Nat
        BY <1>11, <4>2 DEF Window
      <4>4. b \in Span(v)
        BY <2>1, <4>1, <4>3 DEF Span
      <4> HIDE DEF retry
      <4>5. QED
        BY <4>2, <4>4 DEF Spans
    <3>7. CASE p \in timedOut
      <4>1. PICK v \in Halves(p) : v[1] <= b /\ b <= v[2]
        BY <1>8, <2>1, <3>2, <3>7 DEF Tiles
      <4>2. v \in retry
        BY <3>7, <4>1
      <4>3. v[1] \in Nat /\ v[2] \in Nat
        BY <1>11, <4>2 DEF Window
      <4>4. b \in Span(v)
        BY <2>1, <4>1, <4>3 DEF Span
      <4> HIDE DEF retry
      <4>5. QED
        BY <4>2, <4>4 DEF Spans
    <3>8. QED
      BY <1>9, <3>3, <3>4, <3>5, <3>6, <3>7
  <2>5. QED
    BY <2>2, <2>3, <2>4
<1>13. /\ scanned' \subseteq Window /\ first_held' \in Nat /\ odd' \in BOOLEAN
       /\ \A w \in scanned' : w[1] <= w[2] /\ w[2] <= Latest
  <2>1. ok \subseteq queue
    BY <1>1
  <2>2. \A w \in ok : w[1] \in Nat
    BY <1>3, <2>1 DEF Window
  <2>3. first_held' \in Nat
    BY <1>2, <2>2 DEF ScanInv, TypeOK
  <2>4. QED
    BY <1>2, <1>3, <2>1, <2>3
(* It remains to show what becomes of the queue and what is reported.      *)
<1>14. ASSUME queue' \subseteq Window, missing' \subseteq Blocks,
              queue' \intersect scanned' = {}, Filled(queue' \union scanned'), Apart(queue' \union scanned'),
              \A x \in queue' : x[2] <= Latest,
              \A b \in from_block..Latest : b \in Spans(queue') \union Spans(scanned') \union missing'
       PROVE  ScanInv'
  <2>1. TypeOK'
    BY <1>2, <1>13, <1>14 DEF ScanInv, TypeOK, search, node
  <2>2. Bracketed'
    BY <1>2 DEF ScanInv, Bracketed, search, node
  <2>3. WithinRange'
    BY <1>13, <1>14 DEF WithinRange, Filled
  <2>4. Accounted'
    BY <1>2, <1>14 DEF ScanInv, Accounted, search, node
  <2>5. NoLogTwice'
    <3>1. queue' \union scanned' \in SUBSET Window
      BY <1>13, <1>14
    <3>2. \A v, w \in queue' \union scanned' : v # w => Span(v) \intersect Span(w) = {}
      BY <1>14, <3>1, ApartSpans
    <3>3. QED
      BY <1>14, <3>2 DEF NoLogTwice, Span
  <2>6. QED
    BY <2>1, <2>2, <2>3, <2>4, <2>5 DEF ScanInv
<1>15. ASSUME start_windows = {}, missing' = missing \union gaps, queue' = retry
       PROVE  ScanInv'
  <2>1. gaps = Spans(lacking)
    BY <1>15
  <2>2. \A p \in lacking : p[1] \in Nat /\ p[2] \in Nat /\ p[2] <= Latest
    BY <1>1, <1>3 DEF Window
  <2>3. gaps \subseteq Blocks
    BY <2>1, <2>2, BlocksAssumption DEF Spans, Span, Blocks
  <2> DEFINE rest == <<0, 0>>
  <2>4. rest \in Window
    BY DEF Window
  <2>5. queue' \in SUBSET Window /\ \A x \in queue' : x \in retry
    BY <1>11, <1>15
  <2> HIDE DEF rest, retry, lacking, waiting, timedOut, parts
  <2>6. /\ queue' \intersect (scanned \union ok) = {}
        /\ Filled(queue' \union scanned \union ok)
        /\ Apart(queue' \union scanned \union ok)
        /\ \A x \in queue' : x[2] <= Latest
    BY <1>10, <2>4, <2>5
  <2>7. ASSUME NEW b \in from_block..Latest
        PROVE  b \in Spans(queue') \union Spans(scanned') \union missing'
    <3>1. b \in Int
      OBVIOUS
    <3>2. ASSUME NEW p \in lacking, p[1] <= b, b <= p[2]
          PROVE  b \in gaps
      BY <2>1, <2>2, <3>1, <3>2 DEF Spans, Span
    <3> HIDE DEF gaps
    <3>3. QED
      BY <1>12, <1>15, <3>2
  <2>8. scanned' = scanned \union ok /\ queue' \union scanned' = queue' \union scanned \union ok
    BY <1>2
  <2>9. missing' \subseteq Blocks
    BY <1>15, <2>3 DEF ScanInv, TypeOK
  <2>10. QED
    BY <1>14, <2>5, <2>6, <2>7, <2>8, <2>9
<1>16. ASSUME Restart(start_windows, gaps, retry)
       PROVE  ScanInv'
  <2>1. PICK top \in start_windows, bottom \in start_windows :
          /\ \A w \in start_windows : bottom[1] <= w[1] /\ w[1] <= top[1]
          /\ \E start \in HistoryStarts(top[1], top[2]) :
               /\ missing' = missing \union gaps \union bottom[1]..(start - 1)
               /\ queue' = retry \union {w \in {<<start, top[2]>>} : start <= top[2]}
    BY <1>16 DEF Restart
  <2>2. PICK start \in HistoryStarts(top[1], top[2]) :
               /\ missing' = missing \union gaps \union bottom[1]..(start - 1)
               /\ queue' = retry \union {w \in {<<start, top[2]>>} : start <= top[2]}
    BY <2>1
  <2>3. \A p \in lacking : /\ p \in queue /\ p \in Window /\ p[1] \in Blocks /\ p[2] \in Blocks
                           /\ p[1] \in Nat /\ p[2] \in Nat /\ p[1] <= p[2] /\ p[2] <= Latest
    BY <1>1, <1>3 DEF Window
  <2>4. top \in lacking /\ bottom \in lacking
    OBVIOUS
  <2>5. start \in Nat /\ top[1] < start /\ start <= top[2] + 1
    BY <2>2, <2>3, <2>4, StartsBeyond DEF ScanInv, TypeOK
  <2> DEFINE rest == <<start, top[2]>>
  <2>6. rest \in Window /\ rest[1] = start /\ rest[2] = top[2]
    BY <2>3, <2>4, <2>5 DEF Window
  <2>7. queue' = retry \union {w \in {rest} : start <= top[2]}
    BY <2>2
  <2>8. missing' \subseteq Blocks
    <3>1. gaps \subseteq Blocks
      BY <2>3, BlocksAssumption DEF Spans, Span, Blocks
    <3>2. bottom[1]..(start - 1) \subseteq Blocks
      BY <2>3, <2>4, <2>5, BlocksAssumption DEF Blocks
    <3>3. QED
      BY <2>2, <3>1, <3>2 DEF ScanInv, TypeOK
  <2>9. queue' \in SUBSET Window
    BY <1>11, <2>6, <2>7
  <2>10. \A x \in queue' : \/ x \in retry
                           \/ x = rest /\ \E p \in lacking : p[1] <= x[1] /\ x[1] <= x[2] /\ x[2] = p[2]
    <3> SUFFICES ASSUME NEW x \in queue', x \notin retry
                 PROVE  x = rest /\ \E p \in lacking : p[1] <= x[1] /\ x[1] <= x[2] /\ x[2] = p[2]
      OBVIOUS
    <3>1. x = rest /\ start <= top[2]
      BY <2>7
    <3> HIDE DEF rest, lacking, retry
    <3>2. top[1] <= x[1] /\ x[1] <= x[2] /\ x[2] = top[2]
      BY <2>3, <2>4, <2>5, <2>6, <3>1
    <3>3. QED
      BY <2>4, <3>1, <3>2
  <2>11. ASSUME NEW b \in from_block..Latest
         PROVE  b \in Spans(queue') \union Spans(scanned') \union missing'
    <3>1. b \in Int
      OBVIOUS
    <3>2. ASSUME NEW p \in lacking, p[1] <= b, b <= p[2]
          PROVE  b \in Spans(queue') \union missing'
      <4>1. CASE p \notin start_windows
        <5>1. b \in Span(p)
          BY <2>3, <3>1, <3>2 DEF Span
        <5>2. QED
          BY <2>2, <4>1, <5>1 DEF Spans
      <4>2. CASE p \in start_windows /\ b < start
        <5>1. bottom[1] <= p[1] /\ bottom[1] \in Nat /\ p[1] \in Nat
          BY <2>1, <2>3, <2>4, <4>2
        <5>2. b \in bottom[1]..(start - 1)
          BY <2>5, <3>1, <3>2, <4>2, <5>1
        <5>3. QED
          BY <2>2, <5>2
      <4>3. CASE p \in start_windows /\ start <= b
        <5>1. p = top
          <6>1. p[1] <= top[1] /\ top[1] < p[2]
            BY <2>1, <2>3, <2>4, <2>5, <3>1, <3>2, <4>3
          <6>2. ~(p[2] < top[1]) /\ ~(top[2] < p[1])
            BY <2>3, <2>4, <6>1
          <6>3. p \in queue \union scanned /\ top \in queue \union scanned
            BY <2>3, <2>4
          <6>4. QED
            BY <1>4, <6>2, <6>3 DEF Apart
        <5>2. rest \in queue' /\ b \in Span(rest)
          BY <2>3, <2>4, <2>5, <2>6, <2>7, <3>1, <3>2, <4>3, <5>1 DEF Span
        <5>3. QED
          BY <5>2 DEF Spans
      <4>4. QED
        BY <2>5, <3>1, <4>1, <4>2, <4>3
    <3>3. b \in Spans(retry) => b \in Spans(queue')
      BY <2>7 DEF Spans
    <3>4. b \in missing => b \in missing'
      BY <2>2
    <3> HIDE DEF retry, lacking
    <3>5. QED
      BY <1>12, <3>2, <3>3, <3>4
  <2>12. scanned' = scanned \union ok /\ queue' \union scanned' = queue' \union scanned \union ok
    BY <1>2
  <2> HIDE DEF rest, retry, lacking, waiting, timedOut, parts
  <2>13. /\ queue' \intersect (scanned \union ok) = {}
         /\ Filled(queue' \union scanned \union ok)
         /\ Apart(queue' \union scanned \union ok)
         /\ \A x \in queue' : x[2] <= Latest
    BY <1>10, <2>6, <2>9, <2>10
  <2>14. QED
    BY <1>14, <2>8, <2>9, <2>11, <2>12, <2>13
<1>17. QED
  BY <1>2, <1>15, <1>16

-----------------------------------------------------------------------------
(***************************************************************************)
(* The scan's invariant holds if --from-block names a block of the chain.  *)
(***************************************************************************)
THEOREM ScanInvariant ==
  ASSUME FromBlocks \subseteq Blocks
  PROVE  Spec => []ScanInv
<1>1. Init => ScanInv
  <2> SUFFICES ASSUME Init
               PROVE  ScanInv
    OBVIOUS
  <2> USE BlocksAssumption DEF Init
  <2>1. TypeOK
    <3>1. deployed \in Blocks /\ lo \in Blocks /\ hi \in Blocks /\ from_block \in Nat /\ first_held \in Nat
      BY DEF Blocks, NoneHeld
    <3>2. queue \subseteq Window /\ scanned \subseteq Window /\ missing \subseteq Blocks /\ held \subseteq Blocks
      OBVIOUS
    <3>3. phase \in {"search", "scan", "done", "raised"} /\ odd \in BOOLEAN
      OBVIOUS
    <3>4. QED
      BY <3>1, <3>2, <3>3 DEF TypeOK
  <2>2. Bracketed
    BY DEF Bracketed
  <2>3. WithinRange /\ Accounted /\ NoLogTwice
    BY DEF WithinRange, Accounted, NoLogTwice
  <2>4. QED
    BY <2>1, <2>2, <2>3 DEF ScanInv
<1>2. ScanInv /\ [Next]_vars => ScanInv'
  <2> SUFFICES ASSUME ScanInv, [Next]_vars
               PROVE  ScanInv'
    OBVIOUS
  <2> USE BlocksAssumption
  <2>1. CASE Bisect
    <3>1. lo' \in Blocks /\ hi' \in Blocks /\ Bracketed'
      BY <2>1 DEF Bisect, ScanInv, TypeOK, Bracketed, HasCode, Blocks, node
    <3>2. QED
      BY <2>1, <3>1 DEF Bisect, ScanInv, TypeOK, WithinRange, Accounted, NoLogTwice, node
  <2>2. ASSUME NEW b \in Blocks, phase = "search", ScanFrom(b), lo = hi => b <= deployed,
               UNCHANGED <<node, lo, hi, scanned, missing, first_held, odd>>
        PROVE  ScanInv'
    <3> DEFINE whole == <<b, Latest>>
    <3>1. queue' = {whole} /\ scanned' = {} /\ phase' = "scan" /\ from_block' = b
      BY <2>2 DEF ScanFrom, ScanInv, Accounted
    <3>2. whole \in Window /\ whole[1] = b /\ whole[2] = Latest /\ b \in Nat /\ b <= Latest
      BY DEF Window, Blocks
    <3>3. Span(whole) = b..Latest
      BY DEF Span
    <3> HIDE DEF whole
    <3>4. TypeOK' /\ Bracketed'
      BY <2>2, <3>1, <3>2 DEF ScanInv, TypeOK, Bracketed, node
    <3>5. WithinRange' /\ NoLogTwice'
      BY <3>1, <3>2 DEF WithinRange, NoLogTwice
    <3>6. Accounted'
      BY <2>2, <3>1, <3>3 DEF Accounted, Spans, node
    <3>7. QED
      BY <3>4, <3>5, <3>6 DEF ScanInv
  <2>3. CASE Found
    <3>1. lo \in Blocks /\ lo <= deployed
      BY DEF ScanInv, TypeOK, Bracketed
    <3>2. QED
      BY <2>2, <2>3, <3>1 DEF Found
  <2>4. ASSUME NEW b \in FromBlocks, FromBlock(b)
        PROVE  ScanInv'
    <3>1. b \in Blocks /\ (lo = hi => b <= deployed)
      BY <2>4 DEF FromBlock, ScanInv, TypeOK, Blocks
    <3>2. QED
      BY <2>2, <2>4, <3>1 DEF FromBlock
  <2>5. CASE Scan
    BY <2>5, RoundKeeps DEF Scan
  <2>6. CASE Finish
    BY <2>6 DEF Finish, ScanInv, TypeOK, Bracketed, WithinRange, Accounted, NoLogTwice, node, search
  <2>7. CASE Abort
    BY <2>7 DEF Abort, ScanInv, TypeOK, Bracketed, WithinRange, Accounted, NoLogTwice, node, search
  <2>8. CASE UNCHANGED vars
    BY <2>8 DEF vars, ScanInv, TypeOK, Bracketed, WithinRange, Accounted, NoLogTwice
  <2>9. QED
    BY <2>1, <2>3, <2>4, <2>5, <2>6, <2>7, <2>8 DEF Next
<1>3. QED
  BY <1>1, <1>2, PTL DEF Spec

(***************************************************************************)
(* Whatever the node says, an audit that ends leaves no block of its range *)
(* unaccounted for.                                                        *)
(***************************************************************************)
THEOREM NothingIsSkipped ==
  ASSUME FromBlocks \subseteq Blocks
  PROVE  Spec => []EveryBlockIsAccountedFor
<1>1. ScanInv => EveryBlockIsAccountedFor
  <2> SUFFICES ASSUME ScanInv, phase = "done"
               PROVE  EveryBlockIsAccountedFor
    BY DEF EveryBlockIsAccountedFor
  <2>1. from_block..Latest \subseteq Spans(scanned) \union missing
    BY DEF ScanInv, Accounted, Spans
  <2>2. ASSUME lo = hi
        PROVE  deployed..Latest \subseteq from_block..Latest
    BY <2>2, BlocksAssumption DEF ScanInv, TypeOK, Accounted, Blocks
  <2>3. QED
    BY <2>1, <2>2 DEF EveryBlockIsAccountedFor
<1>2. QED
  BY <1>1, ScanInvariant, PTL

(***************************************************************************)
(* Nor is any log collected twice.                                         *)
(***************************************************************************)
THEOREM NothingIsReadTwice ==
  ASSUME FromBlocks \subseteq Blocks
  PROVE  Spec => []NoLogTwice
<1>1. ScanInv => NoLogTwice
  BY DEF ScanInv
<1>2. QED
  BY <1>1, ScanInvariant, PTL

-----------------------------------------------------------------------------
(* What is reported missing.                                               *)

HeldToTheEnd == \A b, c \in Blocks : b \in held /\ b <= c => c \in held

(* Where the history is said to start, the block before it is not held.    *)
LEMMA LacksBeforeTheStart ==
  ASSUME NEW first \in Blocks, NEW last \in Blocks, first <= last, held \subseteq Blocks, first \notin held,
         NEW start \in HistoryStarts(first, last)
  PROVE  start - 1 \notin held
<1>1. first \in Nat /\ last \in Nat /\ start \in Nat /\ first < start
  BY StartsBeyond, BlocksAssumption DEF Blocks
<1>2. CASE \E b \in HistoryFrom : start = AtMost(AtLeast(b, first + 1), last + 1)
  <2>1. PICK b \in HistoryFrom : start = AtMost(AtLeast(b, first + 1), last + 1)
    BY <1>2
  <2>2. b \in Nat /\ \A c \in held : b <= c
    BY <2>1, BlocksAssumption DEF HistoryFrom, NoneHeld, Blocks
  <2>3. start <= b \/ start = first + 1
    BY <1>1, <2>1, <2>2 DEF AtMost, AtLeast
  <2>4. CASE start <= b
    BY <1>1, <2>2, <2>4
  <2>5. CASE start = first + 1
    BY <1>1, <2>5
  <2>6. QED
    BY <2>3, <2>4, <2>5
<1>3. CASE last \notin held /\ start = last + 1
  BY <1>1, <1>3
<1>4. CASE start \in first + 1..last /\ (start - 1 \notin held \/ start - 1 = first)
  BY <1>4
<1>5. QED
  BY <1>2, <1>3, <1>4 DEF HistoryStarts

(* A round of get_logs keeps HeldInv.                                      *)
LEMMA RoundReportsLacking ==
  ASSUME ScanInv, HeldInv, NEW outcome \in Outcomes(queue),
         NEW ok \in SUBSET {w \in outcome.answered : Span(w) \subseteq held},
         NEW rejected \in SUBSET {w \in outcome.answered \ ok : ~Single(w)},
         NEW words \in Words, Round(outcome, ok, rejected, words)
  PROVE  HeldInv'
<1> DEFINE timedOut == {w \in outcome.failed : ~Single(w)}
           lacking == outcome.answered \ (ok \union rejected)
           waiting == queue \ (outcome.answered \union timedOut)
           retry == waiting \union (UNION {Narrow(words, w) : w \in rejected})
                            \union (UNION {Halves(w) : w \in timedOut})
           succeeded == {first_held} \union {w[1] : w \in ok}
           start_windows == {w \in lacking : w[2] < first_held'}
           gaps == Spans(lacking \ start_windows)
<1>1. outcome.answered \subseteq queue
  BY DEF Outcomes, Outcome
<1>2. /\ scanned' = scanned \union ok
      /\ first_held' \in succeeded
      /\ \A w \in lacking : ~(Span(w) \subseteq held)
      /\ \/ start_windows = {} /\ missing' = missing \union gaps
         \/ Restart(start_windows, gaps, retry)
      /\ held' = held
  BY DEF Round, node
<1>3. \A w \in queue \union scanned : /\ w[1] \in Nat /\ w[2] \in Nat /\ w[1] <= w[2] /\ w[2] <= Latest
                                      /\ w[1] \in Blocks /\ w[2] \in Blocks
  BY BlocksAssumption DEF ScanInv, TypeOK, WithinRange, Window, Blocks
<1>4. \A v \in scanned' : v \in queue \union scanned /\ Span(v) \subseteq held
  BY <1>1, <1>2 DEF HeldInv
<1>5. \A v \in scanned' : (Span(v) \subseteq held)'
  BY <1>2, <1>4 DEF Span
<1>6. first_held' = NoneHeld \/ \E v \in scanned' : v[1] = first_held'
  <2>1. CASE first_held' = first_held
    BY <1>2, <2>1 DEF HeldInv
  <2>2. CASE \E w \in ok : first_held' = w[1]
    BY <1>2, <2>2
  <2>3. QED
    BY <1>2, <2>1, <2>2
<1>7. ASSUME HeldToTheEnd
      PROVE  missing' \intersect held = {}
  <2>1. missing \intersect held = {}
    BY <1>7 DEF HeldInv, MissingIsLacking, HeldToTheEnd
  <2>2. \A w \in lacking : w \in queue /\ w \notin scanned'
    BY <1>1, <1>2 DEF ScanInv, NoLogTwice
  <2>3. ASSUME NEW w \in lacking
        PROVE  w[1] \notin held
    <3>1. PICK c \in Span(w) : c \notin held
      BY <1>2
    <3>2. w[1] \in Blocks /\ c \in Blocks /\ w[1] <= c
      BY <1>3, <2>2, <3>1, BlocksAssumption DEF Span, Blocks
    <3>3. QED
      BY <1>7, <3>1, <3>2 DEF HeldToTheEnd
  (* No window that lacks history reaches a block above a query that       *)
  (* succeeded.                                                            *)
  <2>4. ASSUME NEW w \in lacking
        PROVE  w \in start_windows
    <3>1. /\ w \in queue /\ w[1] \in Nat /\ w[2] \in Nat /\ w[1] <= w[2] /\ w[2] <= Latest
          /\ w[1] \in Blocks
      BY <1>3, <2>2
    <3>2. CASE first_held' = NoneHeld
      BY <3>1, <3>2, BlocksAssumption DEF NoneHeld
    <3>3. ASSUME NEW v \in scanned', v[1] = first_held', ~(w[2] < v[1])
          PROVE  FALSE
      <4>1. v[1] \in Nat /\ v[2] \in Nat /\ v[1] <= v[2] /\ v[1] \in Blocks
        BY <1>3, <1>4
      <4>2. v[1] \in held /\ v[1] \in Span(v)
        BY <1>4, <4>1 DEF Span
      <4>3. w[1] < v[1]
        BY <1>7, <2>3, <3>1, <4>1, <4>2 DEF HeldToTheEnd
      <4>4. v[1] \in Span(w)
        BY <3>1, <3>3, <4>1, <4>3 DEF Span
      <4>5. v # w
        BY <2>2
      <4>6. Span(v) \intersect Span(w) = {}
        BY <1>4, <3>1, <4>5 DEF ScanInv, NoLogTwice
      <4>7. QED
        BY <4>2, <4>4, <4>6
    <3>4. QED
      BY <1>6, <3>2, <3>3
  <2>5. gaps = {}
    BY <2>4 DEF Spans
  <2>6. ASSUME Restart(start_windows, gaps, retry)
        PROVE  missing' \intersect held = {}
    <3>1. PICK top \in start_windows, bottom \in start_windows :
            \E start \in HistoryStarts(top[1], top[2]) :
               missing' = missing \union gaps \union bottom[1]..(start - 1)
      BY <2>6 DEF Restart
    <3>2. PICK start \in HistoryStarts(top[1], top[2]) :
               missing' = missing \union gaps \union bottom[1]..(start - 1)
      BY <3>1
    <3>3. /\ top[1] \in Blocks /\ top[2] \in Blocks /\ top[1] <= top[2] /\ top[1] \notin held
          /\ bottom[1] \in Nat
      BY <1>3, <2>2, <2>3
    <3>4. held \subseteq Blocks
      BY DEF ScanInv, TypeOK
    <3>5. start - 1 \notin held
      BY <3>2, <3>3, <3>4, LacksBeforeTheStart
    <3>6. start \in Nat /\ top[1] < start /\ start <= top[2] + 1
      BY <3>2, <3>3, <3>4, StartsBeyond
    <3>7. start - 1 \in Blocks
      BY <3>3, <3>6, BlocksAssumption DEF Blocks
    <3>8. ASSUME NEW b \in bottom[1]..(start - 1), b \in held
          PROVE  FALSE
      <4>1. b \in Blocks /\ b <= start - 1
        BY <3>3, <3>4, <3>6, <3>8
      <4>2. QED
        BY <1>7, <3>5, <3>7, <3>8, <4>1 DEF HeldToTheEnd
    <3>9. QED
      BY <2>1, <2>5, <3>2, <3>8
  <2>7. QED
    BY <1>2, <2>1, <2>5, <2>6
<1>8. MissingIsLacking'
  BY <1>2, <1>7 DEF MissingIsLacking, HeldToTheEnd
<1>9. QED
  BY <1>5, <1>6, <1>8 DEF HeldInv, Span, NoneHeld

(***************************************************************************)
(* On a node that lacks history only from the start, no block whose logs   *)
(* it would have given is reported missing.                                *)
(***************************************************************************)
THEOREM ReportedIsLacking ==
  ASSUME FromBlocks \subseteq Blocks
  PROVE  Spec => []MissingIsLacking
<1>1. Init => HeldInv
  BY DEF Init, HeldInv, MissingIsLacking
<1>2. ScanInv /\ HeldInv /\ [Next]_vars => HeldInv'
  <2> SUFFICES ASSUME ScanInv, HeldInv, [Next]_vars
               PROVE  HeldInv'
    OBVIOUS
  <2>1. CASE Scan
    <3>1. PICK outcome \in Outcomes(queue) :
            \E ok \in SUBSET {w \in outcome.answered : Span(w) \subseteq held} :
              \E rejected \in SUBSET {w \in outcome.answered \ ok : ~Single(w)} :
                \E words \in Words : Round(outcome, ok, rejected, words)
      BY <2>1 DEF Scan
    <3>2. QED
      BY <3>1, RoundReportsLacking
  <2>2. CASE UNCHANGED <<node, scanned, missing, first_held>>
    <3>1. UNCHANGED <<held, scanned, missing, first_held>>
      BY <2>2 DEF node
    <3>2. QED
      BY <3>1 DEF HeldInv, MissingIsLacking, Span, NoneHeld
  <2>3. CASE Bisect \/ Found \/ (\E b \in FromBlocks : FromBlock(b)) \/ Finish \/ Abort
    BY <2>2, <2>3 DEF Bisect, Found, FromBlock, Finish, Abort, node
  <2>4. CASE UNCHANGED vars
    BY <2>2, <2>4 DEF vars, node
  <2>5. QED
    BY <2>1, <2>3, <2>4 DEF Next
<1>3. HeldInv => MissingIsLacking
  BY DEF HeldInv
<1>4. QED
  BY <1>1, <1>2, <1>3, ScanInvariant, PTL DEF Spec
=============================================================================
