--------------------------- MODULE SlotWalk_proofs ---------------------------
(***************************************************************************)
(* Theorems about SlotWalk, for dispatchers of any length, any storage and *)
(* any number of selectors asked for at once.                              *)
(***************************************************************************)
EXTENDS SlotWalk, SequenceTheorems, WellFoundedInduction, TLAPS

(* Every set of numbers has a least one.                                   *)
LEMMA Least ==
  ASSUME NEW T \in SUBSET Nat, T # {}
  PROVE  \E x \in T : \A y \in T : x <= y
<1>1. PICK x \in T : \A y \in T : <<y, x>> \notin OpToRel(<, Nat)
  BY NatLessThanWellFounded, WFMin, Zenon
<1>2. \A y \in T : y \in Nat /\ x \in Nat
  OBVIOUS
<1>3. \A y \in T : ~(y < x)
  BY <1>1, <1>2, Zenon DEF OpToRel
<1>4. QED
  BY <1>2, <1>3

(* What zero has and each number passes on to the next, every number has.  *)
LEMMA Inductive ==
  ASSUME NEW T \in SUBSET Nat, 0 \in T, \A n \in T : n + 1 \in T
  PROVE  T = Nat
<1> DEFINE rest == Nat \ T
<1>1. SUFFICES ASSUME rest # {} PROVE FALSE
  OBVIOUS
<1>2. PICK x \in rest : \A y \in rest : x <= y
  <2>1. rest \in SUBSET Nat
    OBVIOUS
  <2> HIDE DEF rest
  <2>2. QED
    BY <1>1, <2>1, Least
<1>3. x - 1 \in Nat /\ x - 1 \notin rest
  BY <1>2
<1>4. QED
  BY <1>2, <1>3

(* What Only picks from a sequence, as it goes through it.                 *)
Picking(seq, T) ==
    LET upTo[n \in 0 .. Len(seq)] ==
            IF n = 0 THEN <<>>
            ELSE IF seq[n] \in T THEN Append(upTo[n - 1], seq[n]) ELSE upTo[n - 1]
    IN  upTo

LEMMA PickingIs ==
  ASSUME NEW seq, Len(seq) \in Nat, NEW T
  PROVE  /\ Only(seq, T) = Picking(seq, T)[Len(seq)]
         /\ Picking(seq, T) = [n \in 0 .. Len(seq) |->
              IF n = 0 THEN <<>>
              ELSE IF seq[n] \in T THEN Append(Picking(seq, T)[n - 1], seq[n])
                                   ELSE Picking(seq, T)[n - 1]]
<1> DEFINE Goes(f, n) == f = [i \in 0 .. n |->
                           IF i = 0 THEN <<>>
                           ELSE IF seq[i] \in T THEN Append(f[i - 1], seq[i]) ELSE f[i - 1]]
           U == {n \in Nat : \E f : Goes(f, n)}
<1>1. 0 \in U
  <2>1. Goes([i \in 0 .. 0 |-> <<>>], 0)
    OBVIOUS
  <2>2. QED
    BY <2>1
<1>2. ASSUME NEW n \in U
      PROVE  n + 1 \in U
  <2>1. PICK f : Goes(f, n)
    OBVIOUS
  <2>2. n \in Nat
    OBVIOUS
  <2> DEFINE next == IF seq[n + 1] \in T THEN Append(f[n], seq[n + 1]) ELSE f[n]
             g == [i \in 0 .. n + 1 |-> IF i = n + 1 THEN next ELSE f[i]]
             h == [i \in 0 .. n + 1 |->
                     IF i = 0 THEN <<>>
                     ELSE IF seq[i] \in T THEN Append(g[i - 1], seq[i]) ELSE g[i - 1]]
  <2>3. ASSUME NEW i \in 0 .. n + 1
        PROVE  g[i] = h[i]
    <3>1. CASE i = n + 1
      BY <2>2, <3>1
    <3>2. CASE i # n + 1 /\ i # 0
      <4>1. i \in 0 .. n /\ i - 1 \in 0 .. n + 1 /\ i - 1 # n + 1
        BY <2>2, <3>2
      <4>2. g[i] = f[i] /\ g[i - 1] = f[i - 1]
        BY <3>2, <4>1
      <4>3. f[i] = IF seq[i] \in T THEN Append(f[i - 1], seq[i]) ELSE f[i - 1]
        BY <2>1, <3>2, <4>1
      <4>4. QED
        BY <3>2, <4>2, <4>3
    <3>3. CASE i = 0
      <4>1. 0 \in 0 .. n /\ 0 # n + 1
        BY <2>2
      <4>2. f[0] = <<>> /\ g[0] = f[0]
        BY <2>1, <4>1
      <4>3. QED
        BY <3>3, <4>2
    <3>4. QED
      BY <3>1, <3>2, <3>3
  <2>4. g = h
    BY <2>3
  <2>5. Goes(g, n + 1)
    BY <2>4
  <2> HIDE DEF g, h
  <2>6. QED
    BY <2>2, <2>5
<1>3. U = Nat
  <2> HIDE DEF U
  <2>1. QED
    BY <1>1, <1>2, Inductive DEF U
<1>4. PICK f : Goes(f, Len(seq))
  BY <1>3
<1>6. Goes(Picking(seq, T), Len(seq))
  BY <1>4 DEF Picking
<1>7. Only(seq, T) = Picking(seq, T)[Len(seq)]
  BY DEF Only, Picking
<1>8. QED
  BY <1>6, <1>7

(* Only keeps the order: what comes before an element it picks and is in T *)
(* was picked before it.                                                   *)
PickedInOrder(picked, seq, T) ==
    \A m \in 1 .. Len(picked) : \E p \in 1 .. Len(seq) :
        /\ seq[p] = picked[m]
        /\ \A q \in 1 .. p - 1 : seq[q] \in T => \E l \in 1 .. m - 1 : picked[l] = seq[q]

LEMMA OnlyInOrder ==
  ASSUME NEW S, NEW seq \in Seq(S), NEW T
  PROVE  /\ Only(seq, T) \in Seq(S \intersect T)
         /\ PickedInOrder(Only(seq, T), seq, T)
         /\ \A q \in 1 .. Len(seq) : seq[q] \in T => \E l \in 1 .. Len(Only(seq, T)) : Only(seq, T)[l] = seq[q]
<1> DEFINE P(n) == Picking(seq, T)[n]
           All(r, n) == \A q \in 1 .. n : seq[q] \in T => \E l \in 1 .. Len(r) : r[l] = seq[q]
           Each(r, n) == \A m \in 1 .. Len(r) : \E p \in 1 .. n :
                           /\ seq[p] = r[m]
                           /\ \A q \in 1 .. p - 1 : seq[q] \in T => \E l \in 1 .. m - 1 : r[l] = seq[q]
           Good(n) == P(n) \in Seq(S \intersect T) /\ All(P(n), n) /\ Each(P(n), n)
           U == {n \in Nat : n <= Len(seq) => Good(n)}
<1>1. /\ Len(seq) \in Nat /\ Only(seq, T) = P(Len(seq))
      /\ P(0) = <<>>
      /\ \A n \in 1 .. Len(seq) :
           P(n) = IF seq[n] \in T THEN Append(P(n - 1), seq[n]) ELSE P(n - 1)
  <2>1. Len(seq) \in Nat
    OBVIOUS
  <2>2. /\ Only(seq, T) = Picking(seq, T)[Len(seq)]
        /\ Picking(seq, T) = [n \in 0 .. Len(seq) |->
              IF n = 0 THEN <<>>
              ELSE IF seq[n] \in T THEN Append(Picking(seq, T)[n - 1], seq[n])
                                   ELSE Picking(seq, T)[n - 1]]
    BY <2>1, PickingIs
  <2>3. ASSUME NEW n \in 0 .. Len(seq)
        PROVE  Picking(seq, T)[n] = IF n = 0 THEN <<>>
              ELSE IF seq[n] \in T THEN Append(Picking(seq, T)[n - 1], seq[n])
                                   ELSE Picking(seq, T)[n - 1]
    BY <2>2, Zenon
  <2>4. 0 \in 0 .. Len(seq) /\ \A n \in 1 .. Len(seq) : n \in 0 .. Len(seq) /\ n # 0
    BY <2>1
  <2>5. P(0) = <<>>
    BY <2>3, <2>4
  <2>6. ASSUME NEW n \in 1 .. Len(seq)
        PROVE  P(n) = IF seq[n] \in T THEN Append(P(n - 1), seq[n]) ELSE P(n - 1)
    BY <2>3, <2>4
  <2>7. QED
    BY <2>1, <2>2, <2>5, <2>6
<1> HIDE DEF P
<1>2. 0 \in U
  <2>1. <<>> \in Seq(S \intersect T) /\ All(<<>>, 0) /\ Each(<<>>, 0)
    OBVIOUS
  <2>2. Good(0)
    <3> HIDE DEF All, Each
    <3>1. QED
      BY <1>1, <2>1
  <2> HIDE DEF Good
  <2>3. QED
    BY <2>2
<1>3. ASSUME NEW n \in U, n + 1 <= Len(seq)
      PROVE  Good(n + 1)
  <2>1. n \in Nat /\ Good(n) /\ n + 1 \in 1 .. Len(seq)
    BY <1>1, <1>3
  <2> DEFINE r == P(n)
             x == seq[n + 1]
  <2>2. r \in Seq(S \intersect T) /\ Len(r) \in Nat /\ x \in S
    BY <2>1
  <2>3. CASE x \in T
    <3> DEFINE s == Append(r, x)
    <3>1. P(n + 1) = s
      BY <1>1, <2>1, <2>3
    <3>2. /\ s \in Seq(S \intersect T) /\ Len(s) = Len(r) + 1 /\ s[Len(r) + 1] = x
          /\ \A l \in 1 .. Len(r) : s[l] = r[l]
      <4> HIDE DEF r, x
      <4>1. QED
        BY <2>2, <2>3, AppendProperties
    <3> HIDE DEF s
    <3>3. All(s, n + 1)
      <4> SUFFICES ASSUME NEW q \in 1 .. n + 1, seq[q] \in T
                   PROVE  \E l \in 1 .. Len(s) : s[l] = seq[q]
        OBVIOUS
      <4>1. CASE q = n + 1
        <5>1. Len(r) + 1 \in 1 .. Len(s) /\ s[Len(r) + 1] = seq[q]
          BY <2>2, <3>2, <4>1
        <5>2. QED
          BY <5>1
      <4>2. CASE q # n + 1
        <5>1. q \in 1 .. n
          BY <2>1, <4>2
        <5>2. PICK l \in 1 .. Len(r) : r[l] = seq[q]
          BY <2>1, <5>1
        <5>3. l \in 1 .. Len(s) /\ s[l] = seq[q]
          BY <2>2, <3>2, <5>2
        <5>4. QED
          BY <5>3
      <4>3. QED
        BY <4>1, <4>2
    <3>4. Each(s, n + 1)
      <4> SUFFICES ASSUME NEW m \in 1 .. Len(s)
                   PROVE  \E p \in 1 .. n + 1 :
                             /\ seq[p] = s[m]
                             /\ \A q \in 1 .. p - 1 : seq[q] \in T => \E l \in 1 .. m - 1 : s[l] = seq[q]
        OBVIOUS
      <4>1. CASE m = Len(r) + 1
        <5>1. seq[n + 1] = s[m]
          BY <3>2, <4>1
        <5>2. ASSUME NEW q \in 1 .. (n + 1) - 1, seq[q] \in T
              PROVE  \E l \in 1 .. m - 1 : s[l] = seq[q]
          <6>1. q \in 1 .. n
            BY <2>1
          <6>2. PICK l \in 1 .. Len(r) : r[l] = seq[q]
            BY <2>1, <5>2, <6>1
          <6>3. l \in 1 .. m - 1 /\ s[l] = seq[q]
            BY <2>2, <3>2, <4>1, <6>2
          <6>4. QED
            BY <6>3
        <5>3. n + 1 \in 1 .. n + 1
          BY <2>1
        <5>4. QED
          BY <5>1, <5>2, <5>3
      <4>2. CASE m # Len(r) + 1
        <5>1. m \in 1 .. Len(r)
          BY <2>2, <3>2, <4>2
        <5>2. PICK p \in 1 .. n :
                /\ seq[p] = r[m]
                /\ \A q \in 1 .. p - 1 : seq[q] \in T => \E l \in 1 .. m - 1 : r[l] = seq[q]
          BY <2>1, <5>1
        <5>3. p \in 1 .. n + 1 /\ seq[p] = s[m]
          BY <2>1, <3>2, <5>1, <5>2
        <5>4. ASSUME NEW q \in 1 .. p - 1, seq[q] \in T
              PROVE  \E l \in 1 .. m - 1 : s[l] = seq[q]
          <6>1. PICK l \in 1 .. m - 1 : r[l] = seq[q]
            BY <5>2, <5>4
          <6>2. l \in 1 .. Len(r)
            BY <2>2, <5>1
          <6>3. s[l] = seq[q]
            BY <3>2, <6>1, <6>2
          <6>4. QED
            BY <6>3
        <5>5. QED
          BY <5>3, <5>4
      <4>3. QED
        BY <4>1, <4>2
    <3>5. QED
      BY <3>1, <3>2, <3>3, <3>4
  <2>4. CASE x \notin T
    <3>1. P(n + 1) = r
      BY <1>1, <2>1, <2>4
    <3>2. All(r, n + 1)
      <4> SUFFICES ASSUME NEW q \in 1 .. n + 1, seq[q] \in T
                   PROVE  \E l \in 1 .. Len(r) : r[l] = seq[q]
        OBVIOUS
      <4>1. q \in 1 .. n
        BY <2>1, <2>4
      <4>2. QED
        BY <2>1, <4>1
    <3>3. Each(r, n + 1)
      <4> SUFFICES ASSUME NEW m \in 1 .. Len(r)
                   PROVE  \E p \in 1 .. n + 1 :
                             /\ seq[p] = r[m]
                             /\ \A q \in 1 .. p - 1 : seq[q] \in T => \E l \in 1 .. m - 1 : r[l] = seq[q]
        OBVIOUS
      <4>1. PICK p \in 1 .. n :
              /\ seq[p] = r[m]
              /\ \A q \in 1 .. p - 1 : seq[q] \in T => \E l \in 1 .. m - 1 : r[l] = seq[q]
        BY <2>1
      <4>2. p \in 1 .. n + 1
        BY <2>1
      <4>3. QED
        BY <4>1, <4>2
    <3>4. QED
      BY <2>2, <3>1, <3>2, <3>3
  <2>5. QED
    BY <2>3, <2>4
<1>4. U = Nat
  <2>1. \A n \in U : n + 1 \in U
    BY <1>3
  <2> HIDE DEF U
  <2>2. QED
    BY <1>2, <2>1, Inductive DEF U
<1>5. Good(Len(seq))
  <2> HIDE DEF Good
  <2>1. QED
    BY <1>1, <1>4
<1>6. QED
  BY <1>1, <1>5 DEF PickedInOrder

(* A sequence without repeats, with one more element at its end, or its    *)
(* last one taken.                                                         *)
Longer(q, x) == Append(q, x)

LEMMA AppendedApart ==
  ASSUME NEW S, NEW q \in Seq(S), IsInjective(q), NEW x \in S, x \notin ToSet(q),
         NEW more, more = Longer(q, x)
  PROVE  more \in Seq(S) /\ IsInjective(more) /\ ToSet(more) = ToSet(q) \union {x}
<1>1. /\ Len(q) \in Nat /\ DOMAIN q = 1 .. Len(q)
      /\ more \in Seq(S) /\ Len(more) = Len(q) + 1 /\ DOMAIN more = 1 .. Len(q) + 1
      /\ more[Len(q) + 1] = x /\ \A i \in 1 .. Len(q) : more[i] = q[i]
  <2>1. Len(q) \in Nat /\ DOMAIN q = 1 .. Len(q)
    OBVIOUS
  <2>2. /\ more \in Seq(S) /\ Len(more) = Len(q) + 1
        /\ more[Len(q) + 1] = x /\ \A i \in 1 .. Len(q) : more[i] = q[i]
    BY AppendProperties DEF Longer
  <2>3. DOMAIN more = 1 .. Len(more)
    BY <2>2
  <2>4. QED
    BY <2>1, <2>2, <2>3
<1>2. \A i \in 1 .. Len(q) : q[i] # x
  BY <1>1 DEF ToSet
<1>3. 1 .. Len(q) + 1 = (1 .. Len(q)) \union {Len(q) + 1} /\ Len(q) + 1 \notin 1 .. Len(q)
  BY <1>1
<1>4. IsInjective(more)
  <2> SUFFICES ASSUME NEW i \in 1 .. Len(q) + 1, NEW j \in 1 .. Len(q) + 1, more[i] = more[j]
               PROVE  i = j
    BY <1>1 DEF IsInjective
  <2>1. \A a, b \in 1 .. Len(q) : q[a] = q[b] => a = b
    BY <1>1 DEF IsInjective
  <2>2. QED
    BY <1>1, <1>2, <1>3, <2>1
<1>5. ToSet(more) = ToSet(q) \union {x}
  BY <1>1, <1>3 DEF ToSet
<1>6. QED
  BY <1>1, <1>4, <1>5

LEMMA FrontApart ==
  ASSUME NEW S, NEW q \in Seq(S), IsInjective(q), q # <<>>, NEW less, less = Front(q), NEW x, x = Last(q)
  PROVE  /\ less \in Seq(S) /\ IsInjective(less) /\ x \in S /\ x \notin ToSet(less)
         /\ ToSet(q) = ToSet(less) \union {x}
<1>1. Len(q) \in Nat /\ Len(q) \in 1 .. Len(q) /\ DOMAIN q = 1 .. Len(q) /\ x = q[Len(q)] /\ x \in S
  BY DEF Last
<1>2. PICK n \in Nat : n + 1 = Len(q) /\ n = Len(q) - 1
  <2>1. Len(q) - 1 \in Nat /\ (Len(q) - 1) + 1 = Len(q)
    BY <1>1
  <2>2. QED
    BY <2>1
<1>3. /\ less \in Seq(S) /\ DOMAIN less = 1 .. n
      /\ \A i \in 1 .. n : less[i] = q[i]
  <2>1. less = SubSeq(q, 1, n)
    BY <1>2 DEF Front
  <2>2. \A i \in 1 .. n : q[i] \in S
    BY <1>1, <1>2
  <2>3. less \in Seq(S) /\ Len(less) = (IF 1 <= n THEN n - 1 + 1 ELSE 0)
        /\ \A i \in 1 .. n - 1 + 1 : less[i] = q[1 + i - 1]
    <3>1. 1 \in Int /\ n \in Int
      BY <1>2
    <3>2. QED
      BY <2>1, <2>2, <3>1, SubSeqProperties
  <2>4. Len(less) = n /\ DOMAIN less = 1 .. Len(less)
    <3>1. (IF 1 <= n THEN n - 1 + 1 ELSE 0) = n
      BY <1>2
    <3>2. Len(less) = n
      BY <2>3, <3>1
    <3>3. QED
      BY <2>3, <3>2
  <2>5. \A i \in 1 .. n : less[i] = q[i]
    <3>1. \A i \in 1 .. n : i \in 1 .. n - 1 + 1 /\ 1 + i - 1 = i
      BY <1>2
    <3>2. QED
      BY <2>3, <3>1
  <2>6. QED
    BY <2>3, <2>4, <2>5
<1>4. \A a, b \in 1 .. n + 1 : q[a] = q[b] => a = b
  BY <1>1, <1>2 DEF IsInjective
<1>5. IsInjective(less)
  BY <1>3, <1>4 DEF IsInjective
<1>6. x \notin ToSet(less)
  <2>1. \A i \in 1 .. n : less[i] # x
    BY <1>1, <1>2, <1>3, <1>4
  <2>2. QED
    BY <1>3, <2>1 DEF ToSet
<1>7. ToSet(q) = ToSet(less) \union {x}
  <2>1. 1 .. n + 1 = (1 .. n) \union {n + 1}
    BY <1>2
  <2>2. QED
    BY <1>1, <1>2, <1>3, <2>1 DEF ToSet
<1>8. QED
  BY <1>1, <1>3, <1>5, <1>6, <1>7

LEMMA OnlyApart ==
  ASSUME NEW S, NEW seq \in Seq(S), IsInjective(seq), NEW T
  PROVE  IsInjective(Only(seq, T)) /\ ToSet(Only(seq, T)) = ToSet(seq) \intersect T
<1> DEFINE P(n) == Picking(seq, T)[n]
           To(n) == {seq[i] : i \in 1 .. n}
           Good(n) == P(n) \in Seq(S) /\ IsInjective(P(n)) /\ ToSet(P(n)) = To(n) \intersect T
           U == {n \in Nat : n <= Len(seq) => Good(n)}
<1>1. /\ Len(seq) \in Nat /\ DOMAIN seq = 1 .. Len(seq) /\ Only(seq, T) = P(Len(seq))
      /\ P(0) = <<>>
      /\ \A n \in 1 .. Len(seq) :
           P(n) = IF seq[n] \in T THEN Append(P(n - 1), seq[n]) ELSE P(n - 1)
  <2>1. Len(seq) \in Nat /\ DOMAIN seq = 1 .. Len(seq)
    OBVIOUS
  <2>2. /\ Only(seq, T) = Picking(seq, T)[Len(seq)]
        /\ Picking(seq, T) = [n \in 0 .. Len(seq) |->
              IF n = 0 THEN <<>>
              ELSE IF seq[n] \in T THEN Append(Picking(seq, T)[n - 1], seq[n])
                                   ELSE Picking(seq, T)[n - 1]]
    BY <2>1, PickingIs
  <2>3. ASSUME NEW n \in 0 .. Len(seq)
        PROVE  Picking(seq, T)[n] = IF n = 0 THEN <<>>
              ELSE IF seq[n] \in T THEN Append(Picking(seq, T)[n - 1], seq[n])
                                   ELSE Picking(seq, T)[n - 1]
    BY <2>2, Zenon
  <2>4. 0 \in 0 .. Len(seq) /\ \A n \in 1 .. Len(seq) : n \in 0 .. Len(seq) /\ n # 0
    BY <2>1
  <2>5. P(0) = <<>>
    BY <2>3, <2>4
  <2>6. ASSUME NEW n \in 1 .. Len(seq)
        PROVE  P(n) = IF seq[n] \in T THEN Append(P(n - 1), seq[n]) ELSE P(n - 1)
    BY <2>3, <2>4
  <2>7. QED
    BY <2>1, <2>2, <2>5, <2>6
<1> HIDE DEF P
<1>2. 0 \in U
  <2>1. <<>> \in Seq(S) /\ IsInjective(<<>>) /\ ToSet(<<>>) = {}
    BY DEF IsInjective, ToSet
  <2>2. To(0) = {}
    OBVIOUS
  <2> HIDE DEF To
  <2>3. Good(0)
    BY <1>1, <2>1, <2>2
  <2> HIDE DEF Good
  <2>4. QED
    BY <2>3
<1>3. ASSUME NEW n \in U, n + 1 <= Len(seq)
      PROVE  Good(n + 1)
  <2>1. n \in Nat /\ n + 1 \in 1 .. Len(seq) /\ (n + 1) - 1 = n /\ n <= Len(seq)
    BY <1>1, <1>3
  <2>2. Good(n)
    <3> HIDE DEF Good
    <3>1. QED
      BY <1>3, <2>1
  <2> DEFINE r == P(n)
             x == seq[n + 1]
  <2>3. r \in Seq(S) /\ IsInjective(r) /\ ToSet(r) = To(n) \intersect T
    BY <2>2
  <2>4. x \in S /\ To(n + 1) = To(n) \union {x} /\ x \notin To(n)
    <3>1. 1 .. n + 1 = (1 .. n) \union {n + 1}
      BY <2>1
    <3>2. x \in S
      BY <2>1
    <3>3. \A i \in 1 .. n : seq[i] # x
      <4>1. \A i \in 1 .. n : i \in DOMAIN seq /\ n + 1 \in DOMAIN seq /\ i # n + 1
        BY <1>1, <2>1
      <4>2. QED
        BY <4>1 DEF IsInjective
    <3>4. QED
      BY <3>1, <3>2, <3>3
  <2>5. P(n + 1) = IF x \in T THEN Append(r, x) ELSE r
    BY <1>1, <2>1
  <2> HIDE DEF r, x, To
  <2>6. CASE x \in T
    <3> DEFINE s == Append(r, x)
    <3>1. s \in Seq(S) /\ IsInjective(s) /\ ToSet(s) = ToSet(r) \union {x}
      <4>1. PICK a \in Seq(S) : a = r
        BY <2>3
      <4>2. PICK b \in S : b = x
        BY <2>4
      <4>3. IsInjective(a) /\ b \notin ToSet(a)
        BY <2>3, <2>4, <4>1, <4>2
      <4>4. PICK c : c = Longer(a, b)
        OBVIOUS
      <4>5. c \in Seq(S) /\ IsInjective(c) /\ ToSet(c) = ToSet(a) \union {b}
        BY <4>3, <4>4, AppendedApart
      <4>6. c = s
        BY <4>1, <4>2, <4>4 DEF Longer
      <4>7. QED
        BY <4>1, <4>2, <4>5, <4>6
    <3>2. s = Append(r, x)
      OBVIOUS
    <3> HIDE DEF s
    <3>3. ToSet(s) = To(n + 1) \intersect T
      BY <2>3, <2>4, <2>6, <3>1
    <3>4. P(n + 1) = s
      BY <2>5, <2>6, <3>2
    <3>5. QED
      BY <3>1, <3>3, <3>4
  <2>7. CASE x \notin T
    <3>1. P(n + 1) = r
      BY <2>5, <2>7
    <3>2. To(n) \intersect T = To(n + 1) \intersect T
      BY <2>4, <2>7
    <3>3. QED
      BY <2>3, <3>1, <3>2
  <2>8. QED
    BY <2>6, <2>7
<1>4. U = Nat
  <2>1. \A n \in U : n + 1 \in U
    <3> HIDE DEF Good
    <3>1. QED
      BY <1>3
  <2> HIDE DEF U
  <2>2. QED
    BY <1>2, <2>1, Inductive DEF U
<1>5. Good(Len(seq))
  <2> HIDE DEF Good
  <2>1. QED
    BY <1>1, <1>4
<1>6. To(Len(seq)) = ToSet(seq)
  BY <1>1 DEF ToSet
<1> HIDE DEF To
<1>7. QED
  BY <1>1, <1>5, <1>6

-----------------------------------------------------------------------------
(* A call of a proxy, as a function of its code.                           *)

SlotAt(code, s, i) == <<i, IF code[i].keyed THEN s ELSE Common>>

(* The frames after each step.                                             *)
Run(code, s, storage) ==
    LET ran[i \in 0 .. Len(code)] ==
            IF i = 0 THEN Start
            ELSE LET frame == ran[i - 1]
                 IN  IF frame.end # "running" THEN frame
                     ELSE StepOn(frame, code[i], SlotAt(code, s, i), storage[SlotAt(code, s, i)])
    IN  ran

Further(code, s, storage, i, frame) ==
    IF frame.end # "running" THEN frame
    ELSE StepOn(frame, code[i], SlotAt(code, s, i), storage[SlotAt(code, s, i)])

Completed(frame) == IF frame.end = "running" THEN Delegate(frame) ELSE frame

Outcome(code, s, storage) == Completed(Run(code, s, storage)[Len(code)])

LEMMA CallIs ==
  ASSUME NEW s, NEW storage
  PROVE  Call(s, storage) = Outcome(dispatcher, s, storage)
BY DEF Call, Outcome, Run, SlotOf, SlotAt, Completed

LEMMA CallIsStill ==
  ASSUME NEW s, NEW storage, dispatcher' = dispatcher
  PROVE  Call(s, storage)' = Outcome(dispatcher, s, storage')
BY DEF Call, Outcome, Run, SlotOf, SlotAt, Completed

Words  == {"zero", "live", "stub"}
Events == [depth : Nat, slot : Slots \union {NoSlot}]
Frames == [target : Words, depth : Nat, events : Seq(Events),
           end : {"running", "reached", "returned", "reverted", "exhausted"}]

LEMMA SlotFacts ==
  /\ NoSlot \notin Slots /\ FacetSlot \in Slots /\ ListSlot \in Slots
  /\ FacetSlot # ListSlot /\ FacetSlot # NoSlot /\ ListSlot # NoSlot
<1>1. FacetSlot \in Slots /\ ListSlot \in Slots /\ FacetSlot # ListSlot
  BY StepsAssumption DEF Slots, FacetSlot, ListSlot
<1>2. NoSlot \notin Slots
  BY DEF NoSlot, Slots
<1>3. QED
  BY <1>1, <1>2

LEMMA SlotAtFacts ==
  ASSUME NEW code \in Seq(Steps), Len(code) <= MaxSteps, NEW s \in Selectors, NEW i \in 1 .. Len(code)
  PROVE  /\ code[i] \in Steps
         /\ SlotAt(code, s, i) \in Slots
         /\ SlotAt(code, s, i)[1] = i
         /\ SlotAt(code, s, i) # ListSlot /\ SlotAt(code, s, i) # FacetSlot
<1>1. code[i] \in Steps /\ i \in 0 .. MaxSteps + 1 /\ i # MaxSteps + 1 /\ i # 0
  BY StepsAssumption
<1>2. QED
  BY <1>1 DEF SlotAt, Slots, ListSlot, FacetSlot

(* The trace after one more read, or one more call.                        *)
LEMMA ReadFacts ==
  ASSUME NEW frame \in Frames, NEW slot \in Slots \union {NoSlot},
         NEW read, read = Read(frame, slot)
  PROVE  /\ read \in Frames /\ Len(frame.events) \in Nat
         /\ Len(read.events) = Len(frame.events) + 1
         /\ \A p \in 1 .. Len(frame.events) : read.events[p] = frame.events[p]
         /\ read.events[Len(frame.events) + 1].slot = slot
         /\ read.target = frame.target /\ read.end = frame.end
<1> DEFINE x == [depth |-> frame.depth, slot |-> slot]
           e == Append(frame.events, x)
<1>1. frame.events \in Seq(Events) /\ frame.depth \in Nat /\ frame.target \in Words
  BY DEF Frames
<1>2. x \in Events
  BY <1>1 DEF Events
<1>3. /\ e \in Seq(Events) /\ Len(frame.events) \in Nat /\ Len(e) = Len(frame.events) + 1
      /\ \A p \in 1 .. Len(frame.events) : e[p] = frame.events[p]
      /\ e[Len(frame.events) + 1] = x
  <2> HIDE DEF x
  <2>1. QED
    BY <1>1, <1>2, AppendProperties
<1>4. read = [frame EXCEPT !.events = e]
  BY DEF Read
<1>5. x.slot = slot
  OBVIOUS
<1> HIDE DEF e, x
<1>6. read \in Frames /\ read.events = e
      /\ read.target = frame.target /\ read.end = frame.end
  BY <1>3, <1>4 DEF Frames
<1>7. QED
  BY <1>3, <1>5, <1>6

(* A call out of a frame, to the stub, to nothing or into a live word.     *)
LEMMA IntoFacts ==
  ASSUME NEW frame \in Frames, NEW word \in Words, NEW into, into = Into(frame, word)
  PROVE  /\ into \in Frames /\ Len(frame.events) \in Nat
         /\ Len(into.events) = Len(frame.events) + 1
         /\ \A p \in 1 .. Len(frame.events) : into.events[p] = frame.events[p]
         /\ into.events[Len(frame.events) + 1].slot = NoSlot
         /\ word = "stub" => into.end = "reached" /\ into.target = frame.target
         /\ word = "zero" => into.end = "returned" /\ into.target = frame.target
         /\ word = "live" => into.end = frame.end /\ into.target = "zero"
<1> DEFINE call == CallIn(frame)
<1>1. /\ call \in Frames /\ Len(frame.events) \in Nat
      /\ Len(call.events) = Len(frame.events) + 1
      /\ \A p \in 1 .. Len(frame.events) : call.events[p] = frame.events[p]
      /\ call.events[Len(frame.events) + 1].slot = NoSlot
      /\ call.target = frame.target /\ call.end = frame.end
  <2>1. call = Read(frame, NoSlot) /\ NoSlot \in Slots \union {NoSlot}
    BY DEF CallIn
  <2> HIDE DEF call
  <2>2. QED
    BY <2>1, ReadFacts
<1>2. /\ word = "stub" => into = [call EXCEPT !.end = "reached"]
      /\ word = "zero" => into = [call EXCEPT !.end = "returned"]
      /\ word = "live" => into = [call EXCEPT !.depth = @ + 1, !.target = "zero"]
  BY DEF Into, End, Words
<1> HIDE DEF call
<1>3. /\ into \in Frames /\ into.events = call.events
      /\ word = "stub" => into.end = "reached" /\ into.target = call.target
      /\ word = "zero" => into.end = "returned" /\ into.target = call.target
      /\ word = "live" => into.end = call.end /\ into.target = "zero"
  <2>1. CASE word = "stub"
    BY <1>1, <1>2, <2>1 DEF Frames
  <2>2. CASE word = "zero"
    BY <1>1, <1>2, <2>2 DEF Frames
  <2>3. CASE word = "live"
    <3>1. "zero" \in Words /\ "live" # "stub" /\ "live" # "zero"
      BY DEF Words
    <3>2. into = [call EXCEPT !.depth = @ + 1, !.target = "zero"]
      BY <1>2, <2>3, Zenon
    <3>3. into = [target |-> "zero", depth |-> call.depth + 1, events |-> call.events, end |-> call.end]
      BY <1>1, <3>2 DEF Frames
    <3>4. call.depth + 1 \in Nat /\ call.events \in Seq(Events)
      BY <1>1 DEF Frames
    <3>5. QED
      BY <1>1, <2>3, <3>1, <3>3, <3>4 DEF Frames
  <2>4. QED
    BY <2>1, <2>2, <2>3 DEF Words
<1>4. QED
  BY <1>1, <1>3

(* Whether a step reads its slot at all.                                   *)
Skips(frame, step) == step.kind = "default" /\ frame.target # "zero"

(* What a step that reads its slot adds to the trace, and how it may end.  *)
Took(frame, next, slot, word) ==
    /\ Len(frame.events) \in Nat
    /\ Len(next.events) \in {Len(frame.events) + 1, Len(frame.events) + 2}
    /\ \A p \in 1 .. Len(frame.events) : next.events[p] = frame.events[p]
    /\ next.events[Len(frame.events) + 1].slot = slot
    /\ Len(next.events) = Len(frame.events) + 2 =>
         /\ \/ next.events[Len(frame.events) + 2].slot = NoSlot
            \/ next.events[Len(frame.events) + 2].slot = ListSlot /\ next.end = "exhausted"
         /\ next.end = "running" => next.target = "zero" /\ word = "live"
    /\ next.end = "exhausted" => word = "stub"
    /\ next.end = "reached" => word = "stub"
    /\ next.target = "stub" => word = "stub" \/ frame.target = "stub"

LEMMA StepFacts ==
  ASSUME NEW frame \in Frames, frame.end = "running", NEW step \in Steps,
         NEW slot \in Slots, NEW word \in Words, NEW next, next = StepOn(frame, step, slot, word)
  PROVE  /\ next \in Frames /\ Len(frame.events) \in Nat /\ Len(next.events) \in Nat
         /\ Skips(frame, step) => next = frame
         /\ ~Skips(frame, step) => Took(frame, next, slot, word)
<1> DEFINE read == Read(frame, slot)
           n == Len(frame.events)
           m == Len(next.events)
<1>1. /\ read \in Frames /\ n \in Nat
      /\ Len(read.events) = n + 1
      /\ \A p \in 1 .. n : read.events[p] = frame.events[p]
      /\ read.events[n + 1].slot = slot
      /\ read.target = frame.target /\ read.end = "running"
  <2> HIDE DEF read
  <2>1. QED
    BY ReadFacts DEF read
<1>2. step.kind \in Kinds
  BY DEF Steps
<1>3. CASE Skips(frame, step)
  <2>1. next = frame
    BY <1>3 DEF Skips, StepOn
  <2>2. QED
    BY <1>1, <1>3, <2>1
<1>4. CASE ~Skips(frame, step) /\ step.kind = "default"
  <2>1. next = [read EXCEPT !.target = word]
    BY <1>4 DEF StepOn, Skips
  <2> HIDE DEF read
  <2>2. next \in Frames /\ next.events = read.events /\ next.target = word /\ next.end = "running"
    BY <1>1, <2>1 DEF Frames
  <2>3. QED
    BY <1>1, <1>4, <2>2 DEF Took
<1>5. CASE step.kind = "load"
  <2>1. next = [read EXCEPT !.target = word]
    BY <1>5 DEF StepOn
  <2> HIDE DEF read
  <2>2. next \in Frames /\ next.events = read.events /\ next.target = word /\ next.end = "running"
    BY <1>1, <2>1 DEF Frames
  <2>3. QED
    BY <1>1, <1>5, <2>2 DEF Skips, Took
<1>6. CASE step.kind \in {"guard", "unless"}
  <2>0. ~Skips(frame, step)
    BY <1>6 DEF Skips
  <2>1. next = read \/ next = [read EXCEPT !.end = "reverted"]
    BY <1>6 DEF StepOn, End
  <2> HIDE DEF read
  <2>2. next \in Frames /\ next.events = read.events /\ next.target = read.target
        /\ next.end \in {"running", "reverted"}
    BY <1>1, <2>1 DEF Frames
  <2>3. QED
    BY <1>1, <2>0, <2>2 DEF Took
<1>7. CASE step.kind = "count" /\ word = "stub"
  <2>0. ~Skips(frame, step)
    BY <1>7 DEF Skips
  <2> DEFINE list == Read(read, ListSlot)
  <2>1. next = [list EXCEPT !.end = "exhausted"]
    BY <1>7 DEF StepOn, End
  <2>2. /\ list \in Frames
        /\ Len(list.events) = n + 2
        /\ \A p \in 1 .. n + 1 : list.events[p] = read.events[p]
        /\ list.events[n + 2].slot = ListSlot
        /\ list.target = read.target
    <3> HIDE DEF read, list
    <3>1. ListSlot \in Slots \union {NoSlot}
      BY SlotFacts
    <3>2. list = Read(read, ListSlot)
      BY DEF list
    <3>3. /\ list \in Frames
          /\ Len(list.events) = Len(read.events) + 1
          /\ \A p \in 1 .. Len(read.events) : list.events[p] = read.events[p]
          /\ list.events[Len(read.events) + 1].slot = ListSlot
          /\ list.target = read.target
      BY <1>1, <3>1, <3>2, ReadFacts
    <3>4. Len(read.events) + 1 = n + 2
      BY <1>1
    <3>5. QED
      BY <1>1, <3>3, <3>4
  <2> HIDE DEF read, list
  <2>3. next \in Frames /\ next.events = list.events /\ next.target = list.target
        /\ next.end = "exhausted"
    BY <2>1, <2>2 DEF Frames
  <2>4. /\ \A p \in 1 .. n : next.events[p] = frame.events[p]
        /\ next.events[n + 1].slot = slot
    BY <1>1, <2>2, <2>3
  <2>5. QED
    BY <1>1, <1>7, <2>0, <2>2, <2>3, <2>4 DEF Took
<1>8. CASE step.kind = "count" /\ word # "stub"
  <2>0. ~Skips(frame, step)
    BY <1>8 DEF Skips
  <2>1. next = read
    BY <1>8 DEF StepOn
  <2> HIDE DEF read
  <2>2. QED
    BY <1>1, <2>0, <2>1 DEF Took
<1>9. CASE step.kind = "via"
  <2>0. ~Skips(frame, step)
    BY <1>9 DEF Skips
  <2>1. next = Into(read, word)
    BY <1>9 DEF StepOn
  <2>2. /\ next \in Frames
        /\ Len(next.events) = n + 2
        /\ \A p \in 1 .. n + 1 : next.events[p] = read.events[p]
        /\ next.events[n + 2].slot = NoSlot
        /\ word = "stub" => next.end = "reached" /\ next.target = read.target
        /\ word = "zero" => next.end = "returned" /\ next.target = read.target
        /\ word = "live" => next.end = "running" /\ next.target = "zero"
    <3> HIDE DEF read
    <3>1. read \in Frames
      BY <1>1
    <3>2. /\ next \in Frames
          /\ Len(next.events) = Len(read.events) + 1
          /\ \A p \in 1 .. Len(read.events) : next.events[p] = read.events[p]
          /\ next.events[Len(read.events) + 1].slot = NoSlot
          /\ word = "stub" => next.end = "reached" /\ next.target = read.target
          /\ word = "zero" => next.end = "returned" /\ next.target = read.target
          /\ word = "live" => next.end = read.end /\ next.target = "zero"
      BY <2>1, <3>1, IntoFacts
    <3>3. Len(read.events) = n + 1 /\ (n + 1) + 1 = n + 2
      BY <1>1
    <3>4. QED
      BY <1>1, <3>2, <3>3
  <2> HIDE DEF read
  <2>3. \A p \in 1 .. n : next.events[p] = frame.events[p]
    BY <1>1, <2>2
  <2>4. next.events[n + 1].slot = slot
    BY <1>1, <2>2
  <2>5. /\ next.end # "exhausted" /\ (next.end = "reached" => word = "stub")
        /\ next.end = "running" => next.target = "zero" /\ word = "live"
        /\ next.target = "stub" => word = "stub" \/ frame.target = "stub"
    BY <1>1, <2>2 DEF Words
  <2>6. Took(frame, next, slot, word)
    BY <1>1, <2>2, <2>3, <2>4, <2>5 DEF Took
  <2>7. QED
    BY <1>1, <2>0, <2>2, <2>6
<1>10. QED
  BY <1>2, <1>3, <1>4, <1>5, <1>6, <1>7, <1>8, <1>9 DEF Kinds

-----------------------------------------------------------------------------
(* The frames of a run.                                                    *)

LEMMA RunIs ==
  ASSUME NEW code, Len(code) \in Nat, NEW s, NEW storage
  PROVE  /\ Run(code, s, storage)[0] = Start
         /\ \A i \in 1 .. Len(code) :
              Run(code, s, storage)[i] = Further(code, s, storage, i, Run(code, s, storage)[i - 1])
<1> DEFINE Goes(f, n) == f = [i \in 0 .. n |->
                           IF i = 0 THEN Start ELSE Further(code, s, storage, i, f[i - 1])]
           U == {n \in Nat : \E f : Goes(f, n)}
<1>1. 0 \in U
  <2>1. Goes([i \in 0 .. 0 |-> Start], 0)
    OBVIOUS
  <2>2. QED
    BY <2>1
<1>2. ASSUME NEW n \in U
      PROVE  n + 1 \in U
  <2>1. PICK f : Goes(f, n)
    OBVIOUS
  <2>2. n \in Nat
    OBVIOUS
  <2> DEFINE next == Further(code, s, storage, n + 1, f[n])
             g == [i \in 0 .. n + 1 |-> IF i = n + 1 THEN next ELSE f[i]]
             h == [i \in 0 .. n + 1 |->
                     IF i = 0 THEN Start ELSE Further(code, s, storage, i, g[i - 1])]
  <2>3. ASSUME NEW i \in 0 .. n + 1
        PROVE  g[i] = h[i]
    <3>1. CASE i = n + 1
      BY <2>2, <3>1
    <3>2. CASE i # n + 1 /\ i # 0
      <4>1. i \in 0 .. n /\ i - 1 \in 0 .. n + 1 /\ i - 1 # n + 1
        BY <2>2, <3>2
      <4>2. g[i] = f[i] /\ g[i - 1] = f[i - 1]
        BY <3>2, <4>1
      <4>3. f[i] = Further(code, s, storage, i, f[i - 1])
        BY <2>1, <3>2, <4>1
      <4>4. QED
        BY <3>2, <4>2, <4>3
    <3>3. CASE i = 0
      <4>1. 0 \in 0 .. n /\ 0 # n + 1
        BY <2>2
      <4>2. f[0] = Start /\ g[0] = f[0]
        BY <2>1, <4>1
      <4>3. QED
        BY <3>3, <4>2
    <3>4. QED
      BY <3>1, <3>2, <3>3
  <2>4. g = h
    BY <2>3
  <2>5. Goes(g, n + 1)
    BY <2>4
  <2>6. \E f1 : Goes(f1, n + 1)
    <3> HIDE DEF g, Goes
    <3>1. QED
      BY <2>5
  <2>7. n + 1 \in Nat
    BY <2>2
  <2> HIDE DEF Goes
  <2>8. QED
    BY <2>6, <2>7
<1>3. U = Nat
  <2> HIDE DEF U
  <2>1. QED
    BY <1>1, <1>2, Inductive DEF U
<1>4. PICK f : Goes(f, Len(code))
  BY <1>3
<1>5. Goes(Run(code, s, storage), Len(code))
  BY <1>4 DEF Run, Further
<1> DEFINE ran == Run(code, s, storage)
<1> HIDE DEF ran
<1>6. ran = [i \in 0 .. Len(code) |-> IF i = 0 THEN Start ELSE Further(code, s, storage, i, ran[i - 1])]
  BY <1>5 DEF ran
<1>7. ASSUME NEW i \in 0 .. Len(code)
      PROVE  ran[i] = IF i = 0 THEN Start ELSE Further(code, s, storage, i, ran[i - 1])
  BY <1>6, Zenon
<1>8. QED
  BY <1>7 DEF ran

(* A selector's call of a proxy with that code and storage.                *)
Callable(code, s, storage) ==
    /\ code \in Seq(Steps) /\ Len(code) <= MaxSteps
    /\ s \in Selectors
    /\ storage \in [Slots -> Words]

(* Step i of a run: what it makes of the frame before.                     *)
LEMMA RunStep ==
  ASSUME NEW code, NEW s, NEW storage, Callable(code, s, storage), NEW i \in 1 .. Len(code),
         NEW frame \in Frames, frame = Run(code, s, storage)[i - 1],
         NEW next, next = Run(code, s, storage)[i]
  PROVE  /\ next \in Frames
         /\ frame.end # "running" => next = frame
         /\ frame.end = "running" =>
              next = StepOn(frame, code[i], SlotAt(code, s, i), storage[SlotAt(code, s, i)])
         /\ code[i] \in Steps
         /\ SlotAt(code, s, i) \in Slots /\ storage[SlotAt(code, s, i)] \in Words
<1>1. next = Further(code, s, storage, i, frame)
  <2>1. Len(code) \in Nat
    BY DEF Callable
  <2>2. QED
    BY <2>1, RunIs
<1>2. code[i] \in Steps /\ SlotAt(code, s, i) \in Slots
  BY SlotAtFacts DEF Callable
<1>3. storage[SlotAt(code, s, i)] \in Words
  BY <1>2 DEF Callable
<1>4. CASE frame.end # "running"
  BY <1>1, <1>2, <1>3, <1>4 DEF Further
<1>5. CASE frame.end = "running"
  <2>1. next = StepOn(frame, code[i], SlotAt(code, s, i), storage[SlotAt(code, s, i)])
    BY <1>1, <1>5 DEF Further
  <2>2. next \in Frames
    BY <1>2, <1>3, <1>5, <2>1, StepFacts
  <2>3. QED
    BY <1>2, <1>3, <1>5, <2>1, <2>2
<1>6. QED
  BY <1>4, <1>5

LEMMA RunFrames ==
  ASSUME NEW code, NEW s, NEW storage, Callable(code, s, storage)
  PROVE  \A i \in 0 .. Len(code) : Run(code, s, storage)[i] \in Frames
<1> DEFINE U == {i \in Nat : i <= Len(code) => Run(code, s, storage)[i] \in Frames}
<1>1. Len(code) \in Nat
  BY DEF Callable
<1>2. 0 \in U
  <2>1. Start \in Frames
    BY DEF Start, Frames, Words
  <2>2. QED
    BY <1>1, <2>1, RunIs
<1>3. ASSUME NEW i \in U
      PROVE  i + 1 \in U
  <2>1. CASE i + 1 <= Len(code)
    <3>1. i + 1 \in 1 .. Len(code) /\ (i + 1) - 1 = i /\ Run(code, s, storage)[i] \in Frames
      BY <1>1, <2>1
    <3>2. Run(code, s, storage)[i + 1] \in Frames
      BY <3>1, RunStep
    <3>3. QED
      BY <3>2
  <2>2. QED
    BY <2>1
<1>4. U = Nat
  <2> HIDE DEF U
  <2>1. QED
    BY <1>2, <1>3, Inductive DEF U
<1>5. QED
  BY <1>1, <1>4

(* Events are only ever added to a trace.                                  *)
Extends(events, more) ==
    /\ Len(events) \in Nat /\ Len(more) \in Nat /\ Len(events) <= Len(more)
    /\ \A p \in 1 .. Len(events) : more[p] = events[p]

LEMMA ExtendsOn ==
  ASSUME NEW events, NEW more, NEW most, Extends(events, more), Extends(more, most)
  PROVE  Extends(events, most)
BY DEF Extends

LEMMA StepExtends ==
  ASSUME NEW code, NEW s, NEW storage, Callable(code, s, storage), NEW i \in 1 .. Len(code)
  PROVE  Extends(Run(code, s, storage)[i - 1].events, Run(code, s, storage)[i].events)
<1> DEFINE frame == Run(code, s, storage)[i - 1]
           next == Run(code, s, storage)[i]
           step == code[i]
           slot == SlotAt(code, s, i)
           word == storage[slot]
<1>1. frame \in Frames /\ next \in Frames
  <2>1. Len(code) \in Nat
    BY DEF Callable
  <2>2. i - 1 \in 0 .. Len(code) /\ i \in 0 .. Len(code)
    BY <2>1
  <2>3. QED
    BY <2>2, RunFrames
<1>2. /\ frame.end # "running" => next = frame
      /\ frame.end = "running" => next = StepOn(frame, step, slot, word)
      /\ step \in Steps /\ slot \in Slots /\ word \in Words
  BY <1>1, RunStep
<1> HIDE DEF frame, next, step, slot, word
<1>3. Len(frame.events) \in Nat /\ Len(next.events) \in Nat
  BY <1>1 DEF Frames
<1>4. ASSUME next = frame
      PROVE  Extends(frame.events, next.events)
  BY <1>3, <1>4 DEF Extends
<1>5. ASSUME frame.end = "running" /\ ~Skips(frame, step)
      PROVE  Extends(frame.events, next.events)
  <2>1. /\ Len(next.events) \in {Len(frame.events) + 1, Len(frame.events) + 2}
        /\ \A p \in 1 .. Len(frame.events) : next.events[p] = frame.events[p]
    BY <1>1, <1>2, <1>5, StepFacts DEF Took
  <2>2. QED
    BY <1>3, <2>1 DEF Extends
<1>6. ASSUME frame.end = "running" /\ Skips(frame, step)
      PROVE  Extends(frame.events, next.events)
  <2>1. next = frame
    BY <1>1, <1>2, <1>6, StepFacts
  <2>2. QED
    BY <1>4, <2>1
<1>7. Extends(frame.events, next.events)
  BY <1>2, <1>4, <1>5, <1>6
<1>8. QED
  BY <1>7 DEF frame, next

LEMMA RunExtends ==
  ASSUME NEW code, NEW s, NEW storage, Callable(code, s, storage), NEW i \in 0 .. Len(code)
  PROVE  \A j \in i .. Len(code) :
            Extends(Run(code, s, storage)[i].events, Run(code, s, storage)[j].events)
<1> DEFINE E(j) == Run(code, s, storage)[j].events
           U == {n \in Nat : i + n <= Len(code) => Extends(E(i), E(i + n))}
<1>1. Len(code) \in Nat
  BY DEF Callable
<1>2. 0 \in U
  <2>1. Run(code, s, storage)[i] \in Frames
    BY RunFrames
  <2>2. Len(E(i)) \in Nat
    BY <2>1 DEF Frames
  <2> HIDE DEF E
  <2>3. Extends(E(i), E(i))
    BY <2>2 DEF Extends
  <2>4. i + 0 = i
    OBVIOUS
  <2>5. QED
    BY <2>3, <2>4
<1>3. ASSUME NEW n \in U
      PROVE  n + 1 \in U
  <2>1. CASE i + (n + 1) <= Len(code)
    <3>1. i + (n + 1) \in 1 .. Len(code) /\ (i + (n + 1)) - 1 = i + n /\ i + n <= Len(code)
      BY <1>1, <2>1
    <3>2. Extends(E(i + n), E(i + (n + 1)))
      BY <3>1, StepExtends
    <3> HIDE DEF E
    <3>3. Extends(E(i), E(i + n))
      BY <3>1
    <3>4. Extends(E(i), E(i + (n + 1)))
      BY <3>2, <3>3 DEF Extends
    <3>5. QED
      BY <3>4
  <2>2. QED
    BY <2>1
<1>4. U = Nat
  <2> HIDE DEF U
  <2>1. QED
    BY <1>2, <1>3, Inductive DEF U
<1>5. ASSUME NEW j \in i .. Len(code)
      PROVE  Extends(E(i), E(j))
  <2>1. j - i \in Nat /\ i + (j - i) = j /\ j <= Len(code)
    BY <1>1
  <2>2. j - i \in U
    <3> HIDE DEF U
    <3>1. QED
      BY <1>4, <2>1
  <2> HIDE DEF E
  <2>3. QED
    BY <2>1, <2>2
<1>6. QED
  BY <1>5

(* The end of a call.                                                      *)
LEMMA CompletedFacts ==
  ASSUME NEW frame \in Frames, NEW last, last = Completed(frame)
  PROVE  /\ last \in Frames
         /\ frame.end # "running" => last = frame
         /\ Extends(frame.events, last.events)
         /\ \A p \in Len(frame.events) + 1 .. Len(last.events) :
              last.events[p].slot = NoSlot \/ last.events[p].slot = FacetSlot
         /\ frame.end = "running" => /\ last.end # "exhausted"
                                     /\ last.end = "reached" => frame.target = "stub"
<1> DEFINE n == Len(frame.events)
<1>1. n \in Nat /\ frame.target \in Words
  BY DEF Frames
<1>2. CASE frame.end # "running"
  <2>1. last = frame
    BY <1>2 DEF Completed
  <2>2. QED
    BY <1>1, <1>2, <2>1 DEF Extends
<1>3. CASE frame.end = "running" /\ frame.target = "live"
  <2> DEFINE into == Into(frame, "live")
             read == Read(into, FacetSlot)
  <2>1. last = [read EXCEPT !.end = "returned"]
    BY <1>3 DEF Completed, Delegate, End
  <2>2. /\ into \in Frames /\ Len(into.events) = n + 1
        /\ \A p \in 1 .. n : into.events[p] = frame.events[p]
        /\ into.events[n + 1].slot = NoSlot
    <3> HIDE DEF into
    <3>1. "live" \in Words
      BY DEF Words
    <3>2. QED
      BY <3>1, IntoFacts DEF into
  <2>3. /\ read \in Frames /\ Len(read.events) = n + 2
        /\ \A p \in 1 .. n + 1 : read.events[p] = into.events[p]
        /\ read.events[n + 2].slot = FacetSlot
    <3> HIDE DEF into, read
    <3>1. FacetSlot \in Slots \union {NoSlot} /\ read = Read(into, FacetSlot)
      BY SlotFacts DEF read
    <3>2. /\ read \in Frames
          /\ Len(read.events) = Len(into.events) + 1
          /\ \A p \in 1 .. Len(into.events) : read.events[p] = into.events[p]
          /\ read.events[Len(into.events) + 1].slot = FacetSlot
      BY <2>2, <3>1, ReadFacts
    <3>3. Len(into.events) + 1 = n + 2
      BY <1>1, <2>2
    <3>4. QED
      BY <2>2, <3>2, <3>3
  <2> HIDE DEF into, read
  <2>4. last \in Frames /\ last.events = read.events /\ last.end = "returned"
    BY <2>1, <2>3 DEF Frames
  <2>5. Extends(frame.events, last.events)
    BY <1>1, <2>2, <2>3, <2>4 DEF Extends
  <2>6. \A p \in n + 1 .. Len(last.events) : last.events[p].slot = NoSlot \/ last.events[p].slot = FacetSlot
    <3> SUFFICES ASSUME NEW p \in n + 1 .. Len(last.events)
                 PROVE  last.events[p].slot = NoSlot \/ last.events[p].slot = FacetSlot
      OBVIOUS
    <3>1. p = n + 1 \/ p = n + 2
      BY <1>1, <2>3, <2>4
    <3>2. QED
      BY <1>1, <2>2, <2>3, <2>4, <3>1
  <2>7. QED
    BY <1>3, <2>4, <2>5, <2>6
<1>4. CASE frame.end = "running" /\ frame.target # "live"
  <2>1. last = Into(frame, frame.target)
    BY <1>4 DEF Completed, Delegate
  <2>2. /\ last \in Frames /\ Len(last.events) = n + 1
        /\ \A p \in 1 .. n : last.events[p] = frame.events[p]
        /\ last.events[n + 1].slot = NoSlot
        /\ frame.target = "stub" => last.end = "reached"
        /\ frame.target = "zero" => last.end = "returned"
    BY <1>1, <2>1, IntoFacts
  <2>3. Extends(frame.events, last.events)
    BY <1>1, <2>2 DEF Extends
  <2>4. \A p \in n + 1 .. Len(last.events) : last.events[p].slot = NoSlot
    BY <1>1, <2>2
  <2>5. QED
    BY <1>1, <1>4, <2>2, <2>3, <2>4 DEF Words
<1>5. QED
  BY <1>2, <1>3, <1>4

LEMMA RunStepFacts ==
  ASSUME NEW code, NEW s, NEW storage, Callable(code, s, storage), NEW i \in 1 .. Len(code),
         NEW frame, frame = Run(code, s, storage)[i - 1],
         NEW next, next = Run(code, s, storage)[i]
  PROVE  /\ frame \in Frames /\ next \in Frames
         /\ code[i] \in Steps
         /\ SlotAt(code, s, i) \in Slots /\ storage[SlotAt(code, s, i)] \in Words
         /\ frame.end # "running" \/ Skips(frame, code[i]) => next = frame
         /\ frame.end = "running" /\ ~Skips(frame, code[i]) =>
              /\ next = StepOn(frame, code[i], SlotAt(code, s, i), storage[SlotAt(code, s, i)])
              /\ Took(frame, next, SlotAt(code, s, i), storage[SlotAt(code, s, i)])
<1> DEFINE step == code[i]
           slot == SlotAt(code, s, i)
           word == storage[slot]
<1>1. frame \in Frames
  <2>1. Len(code) \in Nat
    BY DEF Callable
  <2>2. i - 1 \in 0 .. Len(code)
    BY <2>1
  <2>3. QED
    BY <2>2, RunFrames
<1>2. /\ next \in Frames
      /\ frame.end # "running" => next = frame
      /\ frame.end = "running" => next = StepOn(frame, step, slot, word)
      /\ step \in Steps /\ slot \in Slots /\ word \in Words
  BY <1>1, RunStep
<1>3. CASE frame.end # "running"
  BY <1>1, <1>2, <1>3
<1>4. CASE frame.end = "running" /\ Skips(frame, step)
  <2> HIDE DEF step, slot, word
  <2>1. next = frame
    BY <1>1, <1>2, <1>4, StepFacts
  <2>2. QED
    BY <1>1, <1>2, <1>4, <2>1 DEF step, slot, word
<1>5. CASE frame.end = "running" /\ ~Skips(frame, step)
  <2> HIDE DEF step, slot, word
  <2>1. Took(frame, next, slot, word)
    BY <1>1, <1>2, <1>5, StepFacts
  <2>2. QED
    BY <1>1, <1>2, <1>5, <2>1 DEF step, slot, word
<1>6. QED
  BY <1>3, <1>4, <1>5

LEMMA OutcomeFacts ==
  ASSUME NEW code, NEW s, NEW storage, Callable(code, s, storage),
         NEW last, last = Run(code, s, storage)[Len(code)],
         NEW call, call = Outcome(code, s, storage)
  PROVE  /\ last \in Frames /\ call \in Frames
         /\ Len(last.events) \in Nat /\ Len(call.events) \in Nat
         /\ last.end # "running" => call = last
         /\ Extends(last.events, call.events)
         /\ \A p \in Len(last.events) + 1 .. Len(call.events) :
              call.events[p].slot = NoSlot \/ call.events[p].slot = FacetSlot
         /\ last.end = "running" => /\ call.end # "exhausted"
                                    /\ call.end = "reached" => last.target = "stub"
<1>1. last \in Frames
  <2>1. Len(code) \in Nat
    BY DEF Callable
  <2>2. Len(code) \in 0 .. Len(code)
    BY <2>1
  <2>3. QED
    BY <2>2, RunFrames
<1>2. call = Completed(last)
  BY DEF Outcome
<1>3. call \in Frames
  BY <1>1, <1>2, CompletedFacts
<1>4. Len(last.events) \in Nat /\ Len(call.events) \in Nat
  BY <1>1, <1>3 DEF Frames
<1>5. QED
  BY <1>1, <1>2, <1>4, CompletedFacts

(* Only a count of the stub's address reads the list, which takes a stub    *)
(* in the storage and ends out of gas.                                      *)
LEMMA ListTakesTheGas ==
  ASSUME NEW code, NEW s, NEW storage, Callable(code, s, storage),
         NEW call, call = Outcome(code, s, storage)
  PROVE  /\ \A p \in 1 .. Len(call.events) : call.events[p].slot = ListSlot => call.end = "exhausted"
         /\ call.end = "exhausted" => \E k \in Slots : storage[k] = "stub"
<1> DEFINE F(i) == Run(code, s, storage)[i]
           ListFree(f) == \A p \in 1 .. Len(f.events) : f.events[p].slot = ListSlot => f.end = "exhausted"
           ByStub(f) == f.end = "exhausted" => \E k \in Slots : storage[k] = "stub"
           Good(f) == ListFree(f) /\ ByStub(f)
           U == {i \in Nat : i <= Len(code) => Good(F(i))}
<1>1. Len(code) \in Nat
  BY DEF Callable
<1>2. 0 \in U
  <2>1. F(0) = Start
    BY <1>1, RunIs
  <2>2. Good(Start)
    BY DEF Start
  <2> HIDE DEF F, Good
  <2>3. QED
    BY <2>1, <2>2
<1>3. ASSUME NEW i \in U, i + 1 <= Len(code)
      PROVE  Good(F(i + 1))
  <2> DEFINE frame == F(i)
             next == F(i + 1)
             slot == SlotAt(code, s, i + 1)
             word == storage[slot]
  <2>1. i \in Nat /\ i + 1 \in 1 .. Len(code) /\ (i + 1) - 1 = i /\ Good(frame)
    BY <1>1, <1>3
  <2>2. /\ frame \in Frames /\ next \in Frames
        /\ slot \in Slots /\ word \in Words
        /\ frame.end # "running" \/ Skips(frame, code[i + 1]) => next = frame
        /\ frame.end = "running" /\ ~Skips(frame, code[i + 1]) => Took(frame, next, slot, word)
    BY <2>1, RunStepFacts
  <2>3. slot # ListSlot
    BY <2>1, SlotAtFacts DEF Callable
  <2>4. SUFFICES Good(next)
    OBVIOUS
  <2> HIDE DEF frame, next, F
  <2>5. CASE next = frame
    BY <2>1, <2>5
  <2>6. CASE Took(frame, next, slot, word) /\ frame.end = "running"
    <3>1. ByStub(next)
      <4>1. slot \in Slots
        BY <2>2
      <4> HIDE DEF slot
      <4>2. QED
        BY <2>6, <4>1 DEF Took
    <3>2. ListFree(next)
      <4> SUFFICES ASSUME NEW p \in 1 .. Len(next.events), next.events[p].slot = ListSlot
                   PROVE  next.end = "exhausted"
        OBVIOUS
      <4> HIDE DEF slot, word
      <4>0. Len(frame.events) \in Nat
        BY <2>6 DEF Took
      <4>1. CASE p \in 1 .. Len(frame.events)
        <5>1. frame.events[p].slot = ListSlot
          BY <2>6, <4>1 DEF Took
        <5>2. frame.end = "exhausted"
          BY <2>1, <4>1, <5>1
        <5>3. QED
          BY <2>6, <5>2
      <4>2. CASE p = Len(frame.events) + 1
        BY <2>3, <2>6, <4>2 DEF Took
      <4>3. CASE p = Len(frame.events) + 2
        BY <2>6, <4>0, <4>3, SlotFacts DEF Took
      <4>4. QED
        BY <2>6, <4>0, <4>1, <4>2, <4>3 DEF Took
    <3>3. QED
      BY <3>1, <3>2
  <2>7. QED
    BY <2>2, <2>5, <2>6
<1>4. U = Nat
  <2>1. \A i \in U : i + 1 \in U
    BY <1>3
  <2> HIDE DEF U
  <2>2. QED
    BY <1>2, <2>1, Inductive DEF U
<1> DEFINE last == F(Len(code))
<1>5. Good(last)
  <2> HIDE DEF Good, F
  <2>1. QED
    BY <1>1, <1>4
<1>6. /\ last \in Frames /\ call \in Frames
      /\ Len(last.events) \in Nat /\ Len(call.events) \in Nat
      /\ last.end # "running" => call = last
      /\ Extends(last.events, call.events)
      /\ \A p \in Len(last.events) + 1 .. Len(call.events) :
           call.events[p].slot = NoSlot \/ call.events[p].slot = FacetSlot
      /\ last.end = "running" => call.end # "exhausted"
  BY OutcomeFacts
<1> HIDE DEF last
<1>7. CASE last.end # "running"
  BY <1>5, <1>6, <1>7
<1>8. CASE last.end = "running"
  <2>1. ASSUME NEW p \in 1 .. Len(call.events), call.events[p].slot = ListSlot
        PROVE  FALSE
    <3>1. CASE p \in 1 .. Len(last.events)
      BY <1>5, <1>6, <1>8, <2>1, <3>1 DEF Extends
    <3>2. CASE p \in Len(last.events) + 1 .. Len(call.events)
      BY <1>6, <2>1, <3>2, SlotFacts
    <3>3. QED
      BY <1>6, <3>1, <3>2
  <2>2. QED
    BY <1>6, <1>8, <2>1
<1>9. QED
  BY <1>7, <1>8

-----------------------------------------------------------------------------
(* What a test says of the proxy as it is.                                 *)

(* What an out of gas or otherwise ended frame leaves to the steps after.  *)
LEMMA RunEnds ==
  ASSUME NEW code, NEW s, NEW storage, Callable(code, s, storage), NEW i \in 0 .. Len(code),
         Run(code, s, storage)[i].end # "running"
  PROVE  Outcome(code, s, storage) = Run(code, s, storage)[i]
<1> DEFINE F(j) == Run(code, s, storage)[j]
           U == {n \in Nat : i + n <= Len(code) => F(i + n) = F(i)}
<1>1. Len(code) \in Nat
  BY DEF Callable
<1>2. 0 \in U
  <2>1. i + 0 = i
    OBVIOUS
  <2> HIDE DEF F
  <2>2. QED
    BY <2>1
<1>3. ASSUME NEW n \in U, i + (n + 1) <= Len(code)
      PROVE  F(i + (n + 1)) = F(i)
  <2>1. n \in Nat /\ i + (n + 1) \in 1 .. Len(code) /\ (i + (n + 1)) - 1 = i + n /\ i + n <= Len(code)
    BY <1>1, <1>3
  <2>2. F(i + n) = F(i)
    <3> HIDE DEF F
    <3>1. QED
      BY <2>1
  <2>3. F(i + n).end # "running" => F(i + (n + 1)) = F(i + n)
    BY <2>1, RunStepFacts
  <2>4. F(i).end # "running"
    OBVIOUS
  <2> HIDE DEF F
  <2>5. QED
    BY <2>2, <2>3, <2>4
<1>4. U = Nat
  <2>1. \A n \in U : n + 1 \in U
    BY <1>3
  <2> HIDE DEF U
  <2>2. QED
    BY <1>2, <2>1, Inductive DEF U
<1>5. Len(code) - i \in Nat /\ i + (Len(code) - i) = Len(code)
  BY <1>1
<1>6. Len(code) - i \in U
  <2> HIDE DEF U
  <2>1. QED
    BY <1>4, <1>5
<1>7. F(Len(code)) = F(i)
  <2> HIDE DEF F
  <2>1. QED
    BY <1>1, <1>5, <1>6
<1>8. QED
  BY <1>7 DEF Outcome, Completed

(* Every slot read after the one pointed at the stub steers the dispatch,   *)
(* until a call is made.                                                    *)
LEMMA SteersUntilACall ==
  ASSUME NEW events, Len(events) \in Nat, DOMAIN events = 1 .. Len(events),
         NEW key, NEW p \in 1 .. Len(events),
         \A r \in 1 .. Len(events) : events[r].slot = key <=> r = p,
         NEW q \in p + 1 .. Len(events), \A r \in p + 1 .. q : events[r].slot # NoSlot
  PROVE  events[q].slot \in SteeredBy(events, key)
<1> DEFINE at == CHOOSE r \in DOMAIN events : events[r].slot = key
           HandsOff(r) == events[r].slot = NoSlot /\ events[r].depth <= events[at].depth
           steering == {r \in at + 1 .. Len(events) :
                          events[r].slot # NoSlot /\ \A t \in at + 1 .. r : ~HandsOff(t)}
<1>1. at = p
  OBVIOUS
<1>2. q \in steering
  <2>1. \A r \in p + 1 .. q : ~HandsOff(r)
    OBVIOUS
  <2>2. q \in p + 1 .. q
    OBVIOUS
  <2> HIDE DEF at, HandsOff
  <2>3. QED
    BY <1>1, <2>1, <2>2
<1>3. SteeredBy(events, key) = {events[r].slot : r \in steering}
  BY DEF SteeredBy
<1>4. QED
  BY <1>2, <1>3

(* Two storages tell a run apart no sooner than it reads a slot they        *)
(* differ in.                                                               *)
AgreeBefore(events, p, A, B) ==
    \A q \in 1 .. Len(events) :
       q < p /\ events[q].slot \in Slots => A[events[q].slot] = B[events[q].slot]

SameUntil(code, s, A, B, p) ==
    \A i \in 0 .. Len(code) :
       Len(Run(code, s, A)[i].events) < p => Run(code, s, A)[i] = Run(code, s, B)[i]

LEMMA AgreeingRuns ==
  ASSUME NEW code, NEW s, NEW A, NEW B, Callable(code, s, A), Callable(code, s, B),
         NEW p, p \in Nat, AgreeBefore(Outcome(code, s, A).events, p, A, B)
  PROVE  SameUntil(code, s, A, B, p)
<1> DEFINE call == Outcome(code, s, A)
<1> HIDE DEF call
<1>0. call = Outcome(code, s, A) /\ AgreeBefore(call.events, p, A, B)
  BY DEF call
<1> DEFINE F(i) == Run(code, s, A)[i]
           G(i) == Run(code, s, B)[i]
           Same(i) == Len(F(i).events) < p => F(i) = G(i)
           U == {i \in Nat : i <= Len(code) => Same(i)}
<1>1. Len(code) \in Nat
  BY DEF Callable
<1>2. 0 \in U
  <2>1. F(0) = Start /\ G(0) = Start
    BY <1>1, RunIs
  <2> HIDE DEF F, G
  <2>2. QED
    BY <2>1
<1>3. ASSUME NEW i \in U, i + 1 <= Len(code), Len(F(i + 1).events) < p
      PROVE  F(i + 1) = G(i + 1)
  <2> DEFINE frame == F(i)
             next == F(i + 1)
             slot == SlotAt(code, s, i + 1)
  <2>1. i \in Nat /\ i + 1 \in 1 .. Len(code) /\ (i + 1) - 1 = i /\ Same(i)
    BY <1>1, <1>3
  <2>2. Extends(frame.events, next.events)
    BY <2>1, StepExtends
  <2>3. Len(frame.events) < p
    <3> HIDE DEF frame, next
    <3>1. Len(next.events) < p
      BY <1>3 DEF next
    <3>2. QED
      BY <2>2, <3>1 DEF Extends
  <2>4. frame = G(i)
    <3> HIDE DEF F, G
    <3>1. QED
      BY <2>1, <2>3
  <2>5. Extends(next.events, call.events)
    <3>1. i + 1 \in 0 .. Len(code) /\ Len(code) \in i + 1 .. Len(code)
      BY <1>1, <2>1
    <3> DEFINE last == F(Len(code))
    <3>2. Extends(next.events, last.events)
      BY <3>1, RunExtends
    <3>3. Extends(last.events, call.events)
      BY <1>0, OutcomeFacts
    <3> HIDE DEF next, last
    <3>4. QED
      BY <3>2, <3>3 DEF Extends
  <2>6. frame.end = "running" /\ ~Skips(frame, code[i + 1]) => A[slot] = B[slot]
    <3> SUFFICES ASSUME frame.end = "running", ~Skips(frame, code[i + 1])
                 PROVE  A[slot] = B[slot]
      OBVIOUS
    <3>1. Took(frame, next, slot, A[slot]) /\ slot \in Slots
      BY <2>1, RunStepFacts
    <3> DEFINE q == Len(frame.events) + 1
    <3>2. q \in 1 .. Len(next.events) /\ next.events[q].slot = slot
      <4> HIDE DEF frame, next, slot
      <4>1. QED
        BY <3>1 DEF Took
    <3>3. Len(next.events) < p
      BY <1>3
    <3> HIDE DEF frame, next, slot, F, q
    <3>4. q \in 1 .. Len(call.events) /\ q < p /\ call.events[q].slot = slot
      BY <2>5, <3>2, <3>3 DEF Extends
    <3>5. QED
      BY <1>0, <3>1, <3>4 DEF AgreeBefore
  <2>7. QED
    <3> DEFINE other == G(i + 1)
               reads == frame.end = "running" /\ ~Skips(frame, code[i + 1])
    <3>1. /\ frame.end # "running" \/ Skips(frame, code[i + 1]) => next = frame
          /\ reads => next = StepOn(frame, code[i + 1], slot, A[slot])
      BY <2>1, RunStepFacts
    <3>2. frame = Run(code, s, B)[(i + 1) - 1]
      BY <2>1, <2>4
    <3>3. /\ frame.end # "running" \/ Skips(frame, code[i + 1]) => other = frame
          /\ reads => other = StepOn(frame, code[i + 1], slot, B[slot])
      <4> HIDE DEF frame
      <4>1. QED
        BY <2>1, <3>2, RunStepFacts
    <3> HIDE DEF frame, next, other, slot
    <3>4. next = other
      BY <2>6, <3>1, <3>3
    <3>5. QED
      BY <3>4 DEF next, other
<1>4. U = Nat
  <2>1. \A i \in U : i + 1 \in U
    BY <1>3
  <2> HIDE DEF U
  <2>2. QED
    BY <1>2, <2>1, Inductive DEF U
<1>5. QED
  BY <1>1, <1>4 DEF SameUntil

(* A slot of the trace is read by a step, unless the call is over by then.  *)
NoStub(storage) == \A k \in Slots : storage[k] # "stub"

LEMMA StepReads ==
  ASSUME NEW code, NEW s, NEW A, Callable(code, s, A), NoStub(A),
         NEW call, call = Outcome(code, s, A),
         NEW p \in 1 .. Len(call.events), call.events[p].slot \in Slots,
         p <= Len(Run(code, s, A)[Len(code)].events)
  PROVE  \E j \in 1 .. Len(code) :
            /\ Run(code, s, A)[j - 1].end = "running"
            /\ ~Skips(Run(code, s, A)[j - 1], code[j])
            /\ Len(Run(code, s, A)[j - 1].events) + 1 = p
            /\ SlotAt(code, s, j) = call.events[p].slot
<1> DEFINE F(i) == Run(code, s, A)[i]
           U == {i \in 0 .. Len(code) : p <= Len(F(i).events)}
<1>1. Len(code) \in Nat /\ p \in Nat
  BY DEF Callable
<1>2. PICK j \in U : \A i \in U : j <= i
  <2>1. Len(code) \in U /\ U \in SUBSET Nat
    BY <1>1
  <2> HIDE DEF U
  <2>2. QED
    BY <2>1, Least
<1>3. j # 0
  <2>1. F(0) = Start
    BY <1>1, RunIs
  <2>2. Len(Start.events) = 0
    BY DEF Start
  <2> HIDE DEF F
  <2>3. QED
    BY <1>1, <1>2, <2>1, <2>2
<1>4. j \in 1 .. Len(code) /\ j - 1 \in 0 .. Len(code) /\ p <= Len(F(j).events)
  BY <1>1, <1>2, <1>3
<1> DEFINE frame == F(j - 1)
           next == F(j)
           slot == SlotAt(code, s, j)
<1>5. /\ frame \in Frames /\ next \in Frames
      /\ slot \in Slots
      /\ frame.end # "running" \/ Skips(frame, code[j]) => next = frame
      /\ frame.end = "running" /\ ~Skips(frame, code[j]) => Took(frame, next, slot, A[slot])
  BY <1>4, RunStepFacts
<1>6. Len(frame.events) \in Nat /\ Len(frame.events) < p
  <2>1. j - 1 \notin U
    <3> HIDE DEF U
    <3>1. QED
      BY <1>2, <1>4
  <2>2. Len(frame.events) \in Nat
    <3> HIDE DEF frame
    <3>1. QED
      BY <1>5 DEF Frames
  <2>3. ~(p <= Len(frame.events))
    <3> HIDE DEF F
    <3>1. QED
      BY <1>4, <2>1
  <2> HIDE DEF frame
  <2>4. QED
    BY <1>1, <2>2, <2>3
<1>7. next # frame
  <2> HIDE DEF F
  <2>1. QED
    BY <1>1, <1>4, <1>6
<1>8. Took(frame, next, slot, A[slot]) /\ frame.end = "running" /\ ~Skips(frame, code[j])
  BY <1>5, <1>7
<1>9. call.events[p] = next.events[p]
  <2>1. j \in 0 .. Len(code) /\ Len(code) \in j .. Len(code)
    BY <1>1, <1>4
  <2> DEFINE last == F(Len(code))
  <2>2. Extends(next.events, last.events)
    BY <2>1, RunExtends
  <2>3. Extends(last.events, call.events)
    BY OutcomeFacts
  <2>4. p \in 1 .. Len(next.events)
    <3>1. Len(next.events) \in Nat
      BY <2>2 DEF Extends
    <3> HIDE DEF F
    <3>2. QED
      BY <1>1, <1>4, <3>1
  <2> HIDE DEF next, last
  <2>5. QED
    BY <2>2, <2>3, <2>4 DEF Extends
<1>10. \/ p = Len(frame.events) + 1
       \/ p = Len(frame.events) + 2 /\ Len(next.events) = p
  <2>1. p <= Len(next.events)
    BY <1>4
  <2> HIDE DEF frame, next, slot
  <2>2. QED
    BY <1>1, <1>6, <1>8, <2>1 DEF Took
<1>11. p # Len(frame.events) + 2 \/ Len(next.events) # p
  <2>1. A[slot] # "stub"
    BY <1>5 DEF NoStub
  <2>2. call.events[p].slot # NoSlot
    BY SlotFacts
  <2> HIDE DEF frame, next, slot
  <2>3. QED
    BY <1>8, <1>9, <2>1, <2>2 DEF Took
<1>12. p = Len(frame.events) + 1 /\ next.events[p].slot = slot
  <2> HIDE DEF frame, next, slot
  <2>1. QED
    BY <1>8, <1>10, <1>11 DEF Took
<1>13. slot = call.events[p].slot
  BY <1>9, <1>12
<1>14. QED
  BY <1>4, <1>8, <1>12, <1>13

(* A slot a step has read is not read by a later one.                      *)
LEMMA ReadOnce ==
  ASSUME NEW code, NEW s, NEW storage, Callable(code, s, storage), NEW j \in 1 .. Len(code),
         NEW call, call = Outcome(code, s, storage)
  PROVE  \A q \in Len(Run(code, s, storage)[j].events) + 1 .. Len(call.events) :
            call.events[q].slot # SlotAt(code, s, j)
<1> DEFINE F(i) == Run(code, s, storage)[i]
           key == SlotAt(code, s, j)
           From(events) == \A q \in Len(F(j).events) + 1 .. Len(events) : events[q].slot # key
           U == {n \in Nat : j + n <= Len(code) => From(F(j + n).events)}
<1>1. /\ Len(code) \in Nat /\ j \in 0 .. Len(code) /\ j \in Nat
      /\ key \in Slots /\ key[1] = j /\ key # ListSlot /\ key # FacetSlot
      /\ Len(F(j).events) \in Nat
  <2>1. Len(code) \in Nat /\ j \in 0 .. Len(code) /\ j \in Nat
    BY DEF Callable
  <2>2. F(j) \in Frames
    BY <2>1, RunFrames
  <2>3. Len(F(j).events) \in Nat
    <3> HIDE DEF F
    <3>1. QED
      BY <2>2 DEF Frames
  <2>4. QED
    BY <2>1, <2>3, SlotAtFacts DEF Callable
<1>2. 0 \in U
  <2>1. j + 0 = j
    BY <1>1
  <2> HIDE DEF F
  <2>2. QED
    BY <1>1, <2>1
<1>3. ASSUME NEW n \in U, j + (n + 1) <= Len(code)
      PROVE  From(F(j + (n + 1)).events)
  <2> DEFINE i == j + (n + 1)
             frame == F(j + n)
             next == F(i)
             slot == SlotAt(code, s, i)
             word == storage[slot]
  <2>1. i \in 1 .. Len(code) /\ i - 1 = j + n /\ i # j /\ i - 1 \in j .. Len(code)
    BY <1>1, <1>3
  <2>2. /\ frame \in Frames /\ next \in Frames
        /\ frame.end # "running" \/ Skips(frame, code[i]) => next = frame
        /\ frame.end = "running" /\ ~Skips(frame, code[i]) => Took(frame, next, slot, word)
    <3>1. frame = Run(code, s, storage)[i - 1]
      BY <2>1
    <3> HIDE DEF i, frame
    <3>2. QED
      BY <2>1, <3>1, RunStepFacts
  <2>3. slot # key
    <3>1. slot[1] = i
      BY <2>1, SlotAtFacts DEF Callable
    <3> HIDE DEF slot, i, key
    <3>2. QED
      BY <1>1, <2>1, <3>1
  <2>4. Extends(F(j).events, frame.events)
    <3>1. j + n \in j .. Len(code)
      BY <2>1
    <3>2. QED
      BY <1>1, <3>1, RunExtends
  <2>5. From(frame.events)
    <3> HIDE DEF From, F
    <3>1. QED
      BY <1>1, <2>1
  <2> HIDE DEF frame, next
  <2>6. CASE next = frame
    BY <2>5, <2>6 DEF next
  <2>7. CASE Took(frame, next, slot, word)
    <3> HIDE DEF F, slot, word, key
    <3>1. SUFFICES ASSUME NEW q \in Len(F(j).events) + 1 .. Len(next.events)
                   PROVE  next.events[q].slot # key
      BY DEF next
    <3>2. CASE q \in 1 .. Len(frame.events)
      <4>1. q \in Len(F(j).events) + 1 .. Len(frame.events)
        BY <1>1, <3>1, <3>2
      <4>2. frame.events[q].slot # key
        BY <2>5, <4>1
      <4>3. QED
        BY <2>7, <3>2, <4>2 DEF Took
    <3>3. CASE q = Len(frame.events) + 1
      BY <2>3, <2>7, <3>3 DEF Took
    <3>4. CASE q = Len(frame.events) + 2 /\ Len(next.events) = Len(frame.events) + 2
      <4>1. NoSlot # key
        BY <1>1, SlotFacts
      <4>2. QED
        BY <1>1, <2>7, <3>4, <4>1 DEF Took
    <3>5. QED
      BY <1>1, <2>7, <3>1, <3>2, <3>3, <3>4 DEF Took
  <2>8. QED
    BY <2>2, <2>6, <2>7
<1>4. U = Nat
  <2>1. \A n \in U : n + 1 \in U
    <3> HIDE DEF From
    <3>1. QED
      BY <1>3
  <2> HIDE DEF U
  <2>2. QED
    BY <1>2, <2>1, Inductive DEF U
<1> DEFINE last == F(Len(code))
<1>5. From(last.events)
  <2>1. Len(code) - j \in Nat /\ j + (Len(code) - j) = Len(code)
    BY <1>1
  <2>2. Len(code) - j \in U
    <3> HIDE DEF U
    <3>1. QED
      BY <1>4, <2>1
  <2> HIDE DEF From, F
  <2>3. QED
    BY <1>1, <2>1, <2>2
<1>6. /\ Extends(last.events, call.events)
      /\ \A p \in Len(last.events) + 1 .. Len(call.events) :
           call.events[p].slot = NoSlot \/ call.events[p].slot = FacetSlot
  BY OutcomeFacts
<1>7. ASSUME NEW q \in Len(F(j).events) + 1 .. Len(call.events)
      PROVE  call.events[q].slot # key
  <2> HIDE DEF last, key, F
  <2>1. CASE q \in 1 .. Len(last.events)
    <3>1. q \in Len(F(j).events) + 1 .. Len(last.events)
      BY <1>1, <1>6, <2>1 DEF Extends
    <3>2. last.events[q].slot # key
      BY <1>5, <3>1
    <3>3. QED
      BY <1>6, <2>1, <3>2 DEF Extends
  <2>2. CASE q \in Len(last.events) + 1 .. Len(call.events)
    <3>1. NoSlot # key
      BY <1>1, SlotFacts
    <3>2. QED
      BY <1>1, <1>6, <2>2, <3>1
  <2>3. QED
    BY <1>1, <1>6, <2>1, <2>2 DEF Extends
<1>8. QED
  BY <1>7

(* A dispatch that has lost the stub's address does not call the stub.      *)
Lost(frame) == frame.target # "stub" /\ frame.end # "reached"

LEMMA LostStays ==
  ASSUME NEW code, NEW s, NEW storage, Callable(code, s, storage), NEW i \in 1 .. Len(code),
         Lost(Run(code, s, storage)[i - 1]), storage[SlotAt(code, s, i)] # "stub"
  PROVE  Lost(Run(code, s, storage)[i])
<1> DEFINE frame == Run(code, s, storage)[i - 1]
           next == Run(code, s, storage)[i]
           slot == SlotAt(code, s, i)
           word == storage[slot]
<1>1. /\ frame.end # "running" \/ Skips(frame, code[i]) => next = frame
      /\ frame.end = "running" /\ ~Skips(frame, code[i]) => Took(frame, next, slot, word)
  BY RunStepFacts
<1>2. Lost(frame) /\ word # "stub"
  OBVIOUS
<1> HIDE DEF frame, next, slot, word
<1>3. CASE next = frame
  BY <1>2, <1>3 DEF next
<1>4. CASE Took(frame, next, slot, word)
  <2>1. Lost(next)
    BY <1>2, <1>4 DEF Took, Lost
  <2>2. QED
    BY <2>1 DEF next
<1>5. QED
  BY <1>1, <1>3, <1>4

(* From the step that read the key, a test and the proxy as it is go the    *)
(* same way while the slots read until a call are alike in both; past the   *)
(* call neither has the stub's address any more.                            *)
StubOnlyAt(storage, key) == \A k \in Slots \ {key} : storage[k] # "stub"

FirstRead(events, p, key) ==
    /\ events[p].slot = key
    /\ \A r \in 1 .. p - 1 : events[r].slot # key

SteeredIn(test, key, T, R) ==
    test.end = "exhausted" \/ \A k \in SteeredBy(test.events, key) \ {key} : T[k] = R[k]

LEMMA SteeredAlike ==
  ASSUME NEW code, NEW s, NEW T, NEW R, Callable(code, s, T), Callable(code, s, R),
         NEW j \in 1 .. Len(code), NEW key, key = SlotAt(code, s, j),
         StubOnlyAt(T, key), StubOnlyAt(R, key),
         NEW frame, frame = Run(code, s, T)[j], frame = Run(code, s, R)[j],
         NEW p, p = Len(frame.events), p \in Nat \ {0}, frame.end # "exhausted",
         FirstRead(Outcome(code, s, T).events, p, key), SteeredIn(Outcome(code, s, T), key, T, R)
  PROVE  (Outcome(code, s, T).end = "reached") <=> (Outcome(code, s, R).end = "reached")
<1> DEFINE F(i) == Run(code, s, T)[i]
           G(i) == Run(code, s, R)[i]
           test == Outcome(code, s, T)
           call == Outcome(code, s, R)
<1> HIDE DEF test, call
<1>0. /\ test = Outcome(code, s, T) /\ call = Outcome(code, s, R)
      /\ FirstRead(test.events, p, key) /\ SteeredIn(test, key, T, R)
  BY DEF test, call
<1>1. /\ Len(code) \in Nat /\ j \in 0 .. Len(code) /\ j \in Nat
      /\ \A i \in 0 .. Len(code) : F(i) \in Frames /\ G(i) \in Frames
      /\ key \in Slots /\ key[1] = j
  <2>1. Len(code) \in Nat /\ j \in 0 .. Len(code) /\ j \in Nat
    BY DEF Callable
  <2>2. key \in Slots /\ key[1] = j
    BY SlotAtFacts DEF Callable
  <2>3. QED
    BY <2>1, <2>2, RunFrames
<1>2. ASSUME NEW i \in j + 1 .. Len(code)
      PROVE  /\ i \in 1 .. Len(code) /\ i - 1 \in j .. Len(code)
             /\ SlotAt(code, s, i) \in Slots \ {key}
  <2>1. i \in 1 .. Len(code) /\ i - 1 \in j .. Len(code) /\ i # j
    BY <1>1
  <2>2. SlotAt(code, s, i) \in Slots /\ SlotAt(code, s, i)[1] = i
    BY <2>1, SlotAtFacts DEF Callable
  <2>3. QED
    BY <1>1, <2>1, <2>2
<1>3. ASSUME NEW i \in j .. Len(code)
      PROVE  F(i).end # "exhausted"
  <2> DEFINE U == {n \in Nat : j + n <= Len(code) => F(j + n).end # "exhausted"}
  <2>1. 0 \in U
    <3>1. j + 0 = j /\ F(j) = frame
      BY <1>1
    <3> HIDE DEF F
    <3>2. QED
      BY <3>1
  <2>2. ASSUME NEW n \in U, j + (n + 1) <= Len(code)
        PROVE  F(j + (n + 1)).end # "exhausted"
    <3> DEFINE m == j + (n + 1)
               before == F(m - 1)
               next == F(m)
               slot == SlotAt(code, s, m)
    <3>1. m \in j + 1 .. Len(code) /\ m - 1 = j + n
      BY <1>1, <2>2
    <3>2. m \in 1 .. Len(code) /\ slot \in Slots \ {key}
      BY <1>2, <3>1
    <3>3. /\ before.end # "running" \/ Skips(before, code[m]) => next = before
          /\ before.end = "running" /\ ~Skips(before, code[m]) => Took(before, next, slot, T[slot])
      BY <3>2, RunStepFacts
    <3>4. before.end # "exhausted"
      <4> HIDE DEF F
      <4>1. QED
        BY <1>1, <3>1
    <3>5. T[slot] # "stub"
      BY <3>2 DEF StubOnlyAt
    <3> HIDE DEF before, slot, next
    <3>6. next.end # "exhausted"
      BY <3>3, <3>4, <3>5 DEF Took
    <3>7. QED
      BY <3>6 DEF next
  <2>3. U = Nat
    <3>1. \A n \in U : n + 1 \in U
      BY <2>2
    <3> HIDE DEF U
    <3>2. QED
      BY <2>1, <3>1, Inductive DEF U
  <2>4. i - j \in Nat /\ j + (i - j) = i /\ i <= Len(code)
    BY <1>1
  <2>5. i - j \in U
    <3> HIDE DEF U
    <3>1. QED
      BY <2>3, <2>4
  <2> HIDE DEF F
  <2>6. QED
    BY <2>4, <2>5
<1> DEFINE last == F(Len(code))
           end == G(Len(code))
<1>4. Len(code) \in j .. Len(code) /\ Len(code) \in 0 .. Len(code)
  BY <1>1
<1>5. /\ last \in Frames /\ test \in Frames
      /\ last.end # "running" => test = last
      /\ Extends(last.events, test.events)
      /\ last.end = "running" => test.end # "exhausted" /\ (test.end = "reached" => last.target = "stub")
  BY <1>0, OutcomeFacts
<1>6. /\ end.end # "running" => call = end
      /\ end.end = "running" => (call.end = "reached" => end.target = "stub")
  BY <1>0, OutcomeFacts
<1>7. test.end # "exhausted"
  <2>1. last.end # "exhausted"
    BY <1>3, <1>4
  <2> HIDE DEF last
  <2>2. QED
    BY <1>5, <2>1
<1>8. \A r \in 1 .. Len(test.events) : test.events[r].slot = key <=> r = p
  <2>1. \A r \in p + 1 .. Len(test.events) : test.events[r].slot # key
    BY <1>0, ReadOnce
  <2>2. ASSUME NEW r \in 1 .. Len(test.events)
        PROVE  test.events[r].slot = key <=> r = p
    BY <1>0, <2>1 DEF FirstRead
  <2>3. QED
    BY <2>2
<1>9. ASSUME NEW q \in p + 1 .. Len(test.events), \A r \in p + 1 .. q : test.events[r].slot # NoSlot
      PROVE  T[test.events[q].slot] = R[test.events[q].slot]
  <2>1. Len(test.events) \in Nat /\ DOMAIN test.events = 1 .. Len(test.events)
    BY <1>5 DEF Frames
  <2>2. p \in 1 .. Len(test.events) /\ q # p /\ q \in 1 .. Len(test.events)
    BY <2>1
  <2>3. test.events[q].slot \in SteeredBy(test.events, key)
    BY <1>8, <1>9, <2>1, <2>2, SteersUntilACall
  <2>4. test.events[q].slot # key
    BY <1>8, <2>2
  <2>5. QED
    BY <1>0, <1>7, <2>3, <2>4 DEF SteeredIn
<1> DEFINE NoCall(f) == \A r \in p + 1 .. Len(f.events) : f.events[r].slot # NoSlot
           Alike(f, g) == \/ f = g /\ (f.end = "running" => NoCall(f) /\ p <= Len(f.events))
                          \/ Lost(f) /\ Lost(g)
           V == {n \in Nat : j + n <= Len(code) => Alike(F(j + n), G(j + n))}
<1>10. 0 \in V
  <2>1. j + 0 = j /\ F(j) = frame /\ G(j) = frame
    BY <1>1
  <2>2. NoCall(frame) /\ p <= Len(frame.events)
    OBVIOUS
  <2> HIDE DEF F, G, NoCall
  <2>3. QED
    BY <2>1, <2>2
<1>11. ASSUME NEW n \in V, j + (n + 1) <= Len(code)
       PROVE  Alike(F(j + (n + 1)), G(j + (n + 1)))
  <2> DEFINE m == j + (n + 1)
             f == F(m - 1)
             g == G(m - 1)
             ff == F(m)
             gg == G(m)
             slot == SlotAt(code, s, m)
  <2>1. m \in j + 1 .. Len(code) /\ m - 1 = j + n /\ m \in j .. Len(code)
    BY <1>1, <1>11
  <2>2. m \in 1 .. Len(code) /\ slot \in Slots \ {key} /\ m \in 0 .. Len(code)
    BY <1>1, <1>2, <2>1
  <2>3. Alike(f, g)
    <3> HIDE DEF F, G, Alike
    <3>1. QED
      BY <1>1, <2>1
  <2>4. T[slot] # "stub" /\ R[slot] # "stub"
    BY <2>2 DEF StubOnlyAt
  <2>5. /\ f \in Frames
        /\ f.end # "running" \/ Skips(f, code[m]) => ff = f
        /\ f.end = "running" /\ ~Skips(f, code[m]) => ff = StepOn(f, code[m], slot, T[slot]) /\ Took(f, ff, slot, T[slot])
    BY <2>2, RunStepFacts
  <2>6. /\ g.end # "running" \/ Skips(g, code[m]) => gg = g
        /\ g.end = "running" /\ ~Skips(g, code[m]) => gg = StepOn(g, code[m], slot, R[slot])
    <3>1. ASSUME NEW storage, Callable(code, s, storage),
                 NEW old, old = Run(code, s, storage)[m - 1], NEW new, new = Run(code, s, storage)[m]
          PROVE  /\ old.end # "running" \/ Skips(old, code[m]) => new = old
                 /\ old.end = "running" /\ ~Skips(old, code[m]) => new = StepOn(old, code[m], slot, storage[slot])
      <4> HIDE DEF m
      <4>1. QED
        BY <2>2, <3>1, RunStepFacts
    <3> HIDE DEF m, slot
    <3>2. QED
      BY <3>1
  <2>7. Extends(ff.events, test.events)
    <3>1. Extends(ff.events, last.events)
      BY <1>4, <2>1, <2>2, RunExtends
    <3> HIDE DEF ff, last
    <3>2. QED
      BY <1>5, <3>1 DEF Extends
  <2>8. CASE Lost(f) /\ Lost(g)
    <3>1. Lost(ff) /\ Lost(gg)
      BY <2>2, <2>4, <2>8, LostStays
    <3>2. QED
      BY <3>1
  <2>9. CASE f = g /\ (f.end # "running" \/ Skips(f, code[m]))
    <3>1. ff = f /\ gg = f
      <4> HIDE DEF f, g, ff, gg
      <4>1. QED
        BY <2>5, <2>6, <2>9
    <3> HIDE DEF f, g, ff, gg, NoCall
    <3>2. Alike(ff, gg)
      BY <2>3, <3>1, <2>9
    <3>3. QED
      BY <3>2 DEF ff, gg
  <2>10. CASE f = g /\ f.end = "running" /\ ~Skips(f, code[m]) /\ NoCall(f) /\ p <= Len(f.events)
    <3> DEFINE q == Len(f.events) + 1
    <3> HIDE DEF f, g, ff, gg, slot
    <3>1. Took(f, ff, slot, T[slot]) /\ ff = StepOn(f, code[m], slot, T[slot]) /\ gg = StepOn(f, code[m], slot, R[slot])
      BY <2>5, <2>6, <2>10
    <3>2. /\ Len(f.events) \in Nat /\ Len(ff.events) \in {q, q + 1} /\ ff.events[q].slot = slot
          /\ \A r \in 1 .. Len(f.events) : ff.events[r] = f.events[r]
      BY <3>1 DEF Took
    <3>3. p <= Len(f.events) /\ q \in p + 1 .. Len(ff.events)
      <4>1. p <= Len(f.events)
        BY <2>10
      <4>2. QED
        BY <3>2, <4>1
    <3>4. ASSUME NEW r \in p + 1 .. q
          PROVE  ff.events[r].slot # NoSlot
      <4>1. CASE r = q
        BY <2>2, <3>2, <4>1, SlotFacts
      <4>2. CASE r # q
        <5>1. r \in p + 1 .. Len(f.events) /\ r \in 1 .. Len(f.events)
          BY <3>2, <3>3, <4>2
        <5>2. f.events[r].slot # NoSlot
          BY <2>10, <5>1
        <5>3. QED
          BY <3>2, <5>1, <5>2
      <4>3. QED
        BY <4>1, <4>2
    <3>5. /\ q \in p + 1 .. Len(test.events) /\ test.events[q].slot = slot
          /\ \A r \in p + 1 .. q : test.events[r].slot # NoSlot
      <4>1. \A r \in p + 1 .. q : r \in 1 .. Len(ff.events)
        BY <3>2, <3>3
      <4>2. q \in p + 1 .. q
        BY <3>2, <3>3
      <4> HIDE DEF q
      <4>3. Len(ff.events) \in Nat /\ Len(test.events) \in Nat /\ Len(ff.events) <= Len(test.events)
        BY <2>7 DEF Extends
      <4>4. \A r \in p + 1 .. q : test.events[r] = ff.events[r]
        BY <2>7, <4>1 DEF Extends
      <4>5. q \in p + 1 .. Len(test.events)
        BY <3>3, <4>3
      <4>6. QED
        BY <3>2, <3>4, <4>2, <4>4, <4>5
    <3>6. T[slot] = R[slot]
      BY <1>9, <3>5
    <3>7. ff = gg
      BY <3>1, <3>6
    <3>8. CASE ff.end = "running" /\ Len(ff.events) = q
      <4>1. NoCall(ff) /\ p <= Len(ff.events)
        BY <3>2, <3>3, <3>4, <3>8
      <4> HIDE DEF NoCall
      <4>2. Alike(ff, gg)
        BY <3>7, <4>1
      <4>3. QED
        BY <4>2 DEF ff, gg
    <3>9. CASE ff.end = "running" /\ Len(ff.events) # q
      <4>1. ff.target = "zero"
        BY <3>1, <3>9 DEF Took
      <4>2. Lost(ff) /\ Lost(gg)
        BY <3>7, <3>9, <4>1 DEF Lost
      <4> HIDE DEF NoCall
      <4>3. Alike(ff, gg)
        BY <4>2
      <4>4. QED
        BY <4>3 DEF ff, gg
    <3>10. CASE ff.end # "running"
      <4> HIDE DEF NoCall
      <4>1. Alike(ff, gg)
        BY <3>7, <3>10
      <4>2. QED
        BY <4>1 DEF ff, gg
    <3>11. QED
      BY <3>8, <3>9, <3>10
  <2> HIDE DEF f, g, ff, gg, NoCall
  <2>11. QED
    BY <2>3, <2>8, <2>9, <2>10
<1>12. V = Nat
  <2>1. \A n \in V : n + 1 \in V
    <3> HIDE DEF Alike
    <3>1. QED
      BY <1>11
  <2> HIDE DEF V
  <2>2. QED
    BY <1>10, <2>1, Inductive DEF V
<1>13. Alike(last, end)
  <2>1. Len(code) - j \in Nat /\ j + (Len(code) - j) = Len(code)
    BY <1>1
  <2>2. Len(code) - j \in V
    <3> HIDE DEF V
    <3>1. QED
      BY <1>12, <2>1
  <2> HIDE DEF Alike, F, G
  <2>3. QED
    BY <1>1, <2>1, <2>2
<1>14. CASE last = end
  <2>1. test = call
    BY <1>0, <1>14 DEF Outcome
  <2>2. QED
    BY <1>0, <2>1
<1>15. CASE Lost(last) /\ Lost(end)
  <2> HIDE DEF last, end
  <2>1. test.end # "reached" /\ call.end # "reached"
    BY <1>5, <1>6, <1>15 DEF Lost
  <2>2. QED
    BY <1>0, <2>1
<1>16. QED
  <2> HIDE DEF last, end, NoCall
  <2>1. QED
    BY <1>13, <1>14, <1>15

(* A test and the proxy as it is go alike up to the step that reads the key *)
(* first, for all that was read before it is the same in both.              *)
LEMMA KeyAlike ==
  ASSUME NEW code, NEW s, NEW base, NEW T, NEW R,
         Callable(code, s, base), Callable(code, s, T), Callable(code, s, R),
         NEW key, NoStub(base), StubOnlyAt(T, key), StubOnlyAt(R, key),
         T[key] = "stub", R[key] = "stub", key \in Slots,
         NEW seen, seen = Outcome(code, s, base),
         NEW p \in 1 .. Len(seen.events), FirstRead(seen.events, p, key),
         AgreeBefore(seen.events, p, base, T), AgreeBefore(seen.events, p, base, R),
         NEW test, test = Outcome(code, s, T), NEW call, call = Outcome(code, s, R)
  PROVE  /\ \E r \in 1 .. Len(test.events) : test.events[r].slot = key
         /\ SteeredIn(test, key, T, R) => ((test.end = "reached") <=> (call.end = "reached"))
<1> DEFINE F(i) == Run(code, s, base)[i]
<1>1. /\ seen.events[p].slot = key
      /\ \A r \in 1 .. p - 1 : seen.events[r].slot # key
  BY DEF FirstRead
<1>2. Len(code) \in Nat
  BY DEF Callable
<1>6. p \in Nat
  <2>1. Len(seen.events) \in Nat
    BY OutcomeFacts
  <2>2. QED
    BY <2>1
<1>7. SameUntil(code, s, base, T, p) /\ SameUntil(code, s, base, R, p)
  BY <1>6, AgreeingRuns
<1>8. \A i \in 0 .. Len(code) :
         Len(F(i).events) < p => F(i) = Run(code, s, T)[i] /\ F(i) = Run(code, s, R)[i]
  BY <1>7 DEF SameUntil
<1>10. Len(F(Len(code)).events) \in Nat
  BY <1>1, OutcomeFacts
<1>11. CASE Len(F(Len(code)).events) < p
  <2>1. Len(code) \in 0 .. Len(code)
    BY <1>2
  <2>2. F(Len(code)) = Run(code, s, T)[Len(code)] /\ F(Len(code)) = Run(code, s, R)[Len(code)]
    <3> HIDE DEF F
    <3>1. QED
      BY <1>8, <1>11, <2>1
  <2>3. test = call /\ test = seen
    BY <1>2, <2>2 DEF Outcome
  <2>4. QED
    BY <1>1, <2>3
<1>12. CASE p <= Len(F(Len(code)).events)
  <2>1. PICK j \in 1 .. Len(code) :
          /\ F(j - 1).end = "running"
          /\ ~Skips(F(j - 1), code[j])
          /\ Len(F(j - 1).events) + 1 = p
          /\ SlotAt(code, s, j) = seen.events[p].slot
    BY <1>1, <1>12, StepReads
  <2> DEFINE frame == F(j - 1)
             next == Run(code, s, T)[j]
             other == Run(code, s, R)[j]
  <2>2. j - 1 \in 0 .. Len(code) /\ j \in 0 .. Len(code) /\ Len(code) \in j .. Len(code)
    BY <1>2
  <2>3. frame \in Frames
    BY <1>1, <2>2, RunFrames
  <2>4. Len(frame.events) \in Nat /\ Len(frame.events) + 1 = p /\ Len(frame.events) < p
    <3>1. Len(frame.events) \in Nat
      <4> HIDE DEF frame
      <4>1. QED
        BY <2>3 DEF Frames
    <3> HIDE DEF F
    <3>2. QED
      BY <2>1, <3>1
  <2>5. frame = Run(code, s, T)[j - 1] /\ frame = Run(code, s, R)[j - 1]
    BY <1>8, <2>2, <2>4
  <2>6. SlotAt(code, s, j) = key
    BY <1>1, <2>1
  <2>7. next = StepOn(frame, code[j], key, "stub") /\ Took(frame, next, key, "stub") /\ next \in Frames
    <3>1. frame.end = "running" /\ ~Skips(frame, code[j])
      BY <2>1
    <3> HIDE DEF frame
    <3>2. /\ next \in Frames
          /\ frame.end = "running" /\ ~Skips(frame, code[j]) =>
               /\ next = StepOn(frame, code[j], SlotAt(code, s, j), T[SlotAt(code, s, j)])
               /\ Took(frame, next, SlotAt(code, s, j), T[SlotAt(code, s, j)])
      BY <1>1, <2>5, RunStepFacts
    <3>3. QED
      BY <1>1, <2>6, <3>1, <3>2
  <2>8. other = StepOn(frame, code[j], key, "stub")
    <3>1. frame.end = "running" /\ ~Skips(frame, code[j])
      BY <2>1
    <3> HIDE DEF frame
    <3>2. frame.end = "running" /\ ~Skips(frame, code[j]) =>
               other = StepOn(frame, code[j], SlotAt(code, s, j), R[SlotAt(code, s, j)])
      BY <1>1, <2>5, RunStepFacts
    <3>3. QED
      BY <1>1, <2>6, <3>1, <3>2
  <2>9. next = other
    BY <2>7, <2>8
  <2>10. p \in Nat \ {0} /\ p \in 1 .. Len(next.events) /\ next.events[p].slot = key
    <3> HIDE DEF frame, next
    <3>1. QED
      BY <1>6, <2>4, <2>7 DEF Took
  <2>11. Extends(next.events, test.events)
    <3> DEFINE last == Run(code, s, T)[Len(code)]
    <3>1. Extends(next.events, last.events)
      BY <2>2, RunExtends
    <3>2. Extends(last.events, test.events)
      BY OutcomeFacts
    <3>3. QED
      BY <3>1, <3>2, ExtendsOn
  <2>12. p \in 1 .. Len(test.events) /\ test.events[p].slot = key
    <3> HIDE DEF next
    <3>1. QED
      BY <2>10, <2>11 DEF Extends
  <2>13. CASE next.end # "running"
    <3>1. test = next
      BY <2>2, <2>13, RunEnds
    <3>2. call = other
      BY <2>2, <2>9, <2>13, RunEnds
    <3>3. QED
      BY <2>9, <2>12, <3>1, <3>2
  <2>14. ASSUME next.end = "running", SteeredIn(test, key, T, R)
         PROVE  (test.end = "reached") <=> (call.end = "reached")
    <3>1. Len(next.events) = p
      <4> HIDE DEF frame, next
      <4>1. QED
        BY <1>6, <2>4, <2>7, <2>14 DEF Took
    <3>3. Extends(frame.events, seen.events)
      <4> DEFINE last == F(Len(code))
      <4>1. Len(code) \in j - 1 .. Len(code)
        BY <1>2
      <4>2. Extends(frame.events, last.events)
        BY <1>1, <2>2, <4>1, RunExtends
      <4>3. Extends(last.events, seen.events)
        BY <1>1, OutcomeFacts
      <4> HIDE DEF frame, last
      <4>4. QED
        BY <4>2, <4>3 DEF Extends
    <3> HIDE DEF frame, next, other
    <3>4. ASSUME NEW r \in 1 .. p - 1
          PROVE  test.events[r].slot # key
      <4>1. r \in 1 .. Len(frame.events) /\ r \in 1 .. Len(next.events)
        BY <1>6, <2>4, <3>1
      <4>2. test.events[r] = frame.events[r]
        BY <2>7, <2>11, <4>1 DEF Extends, Took
      <4>3. seen.events[r] = frame.events[r]
        BY <3>3, <4>1 DEF Extends
      <4>4. QED
        BY <1>1, <4>2, <4>3
    <3>8. next = Run(code, s, T)[j] /\ next = Run(code, s, R)[j]
      BY <2>9 DEF next, other
    <3>9. next.end # "exhausted" /\ p = Len(next.events) /\ key = SlotAt(code, s, j)
      BY <2>6, <2>14, <3>1
    <3>10. FirstRead(test.events, p, key)
      BY <2>12, <3>4 DEF FirstRead
    <3>11. QED
      BY <1>1, <1>2, <2>10, <2>14, <3>8, <3>9, <3>10, SteeredAlike
  <2>15. QED
    BY <2>12, <2>13, <2>14
<1>13. QED
  BY <1>6, <1>10, <1>11, <1>12

(* What was fetched of a storage, the rest zero.                           *)
AsFarAs(storage, have) == [k \in Slots |-> IF k \in have THEN storage[k] ELSE "zero"]

(* What a test says holds of the whole storage, once every slot read before *)
(* the key, and every slot that steers the dispatch after it, is known.     *)
CameTo(events, key, have) ==
    \E at \in 1 .. Len(events) :
       /\ events[at].slot = key
       /\ \A q \in 1 .. at - 1 : events[q].slot \in Slots => events[q].slot \in have

Tells(test, call, key, have) ==
    /\ \E r \in 1 .. Len(test.events) : test.events[r].slot = key
    /\ test.end = "exhausted" \/ SteeredBy(test.events, key) \ {key} \subseteq have =>
         ((test.end = "reached") <=> (call.end = "reached"))

LEMMA TestTells ==
  ASSUME NEW code \in Seq(Steps), Len(code) <= MaxSteps, NEW s \in Selectors,
         NEW storage \in [Slots -> {"zero", "live"}], NEW have \in SUBSET Slots, NEW key \in Slots,
         CameTo(Outcome(code, s, AsFarAs(storage, have)).events, key, have)
  PROVE  Tells(Outcome(code, s, Stubbed(AsFarAs(storage, have), key)),
               Outcome(code, s, Stubbed(storage, key)), key, have)
<1> DEFINE base == AsFarAs(storage, have)
           seen == Outcome(code, s, base)
           test == Outcome(code, s, Stubbed(base, key))
           call == Outcome(code, s, Stubbed(storage, key))
<1> HIDE DEF base, seen, test, call
<1>0. /\ base = AsFarAs(storage, have) /\ seen = Outcome(code, s, base)
      /\ test = Outcome(code, s, Stubbed(base, key)) /\ call = Outcome(code, s, Stubbed(storage, key))
  BY DEF base, seen, test, call
<1>20. PICK at \in 1 .. Len(seen.events) :
         /\ seen.events[at].slot = key
         /\ \A q \in 1 .. at - 1 : seen.events[q].slot \in Slots => seen.events[q].slot \in have
  BY DEF CameTo, base, seen
<1> DEFINE T == Stubbed(base, key)
           R == Stubbed(storage, key)
<1>1. /\ base \in [Slots -> {"zero", "live"}]
      /\ \A k \in have : base[k] = storage[k]
  BY <1>0 DEF AsFarAs
<1>2. /\ T \in [Slots -> Words] /\ T[key] = "stub"
      /\ R \in [Slots -> Words] /\ R[key] = "stub"
      /\ \A k \in Slots : k # key => T[k] = base[k] /\ R[k] = storage[k]
  BY <1>1 DEF Stubbed, Words
<1> HIDE DEF T, R
<1>3. Callable(code, s, base) /\ Callable(code, s, T) /\ Callable(code, s, R)
  <2>1. base \in [Slots -> Words]
    BY <1>1 DEF Words
  <2>2. QED
    BY <1>2, <2>1 DEF Callable
<1>4. NoStub(base) /\ StubOnlyAt(T, key) /\ StubOnlyAt(R, key)
  BY <1>1, <1>2 DEF NoStub, StubOnlyAt
<1>5. Len(seen.events) \in Nat
  BY <1>0, <1>3, OutcomeFacts
<1>6. PICK p \in 1 .. Len(seen.events) : FirstRead(seen.events, p, key) /\ p <= at
  <2> DEFINE U == {q \in 1 .. Len(seen.events) : seen.events[q].slot = key}
  <2>1. PICK p \in U : \A q \in U : p <= q
    <3>1. at \in U /\ U \in SUBSET Nat
      BY <1>20
    <3> HIDE DEF U
    <3>2. QED
      BY <3>1, Least
  <2>2. ASSUME NEW q \in 1 .. p - 1
        PROVE  seen.events[q].slot # key
    <3>1. q \in 1 .. Len(seen.events) /\ q < p
      BY <1>5
    <3>2. q \notin U
      BY <2>1, <3>1
    <3>3. QED
      BY <3>1, <3>2
  <2>3. p <= at
    <3>1. at \in U
      BY <1>20
    <3>2. QED
      BY <2>1, <3>1
  <2>4. QED
    BY <2>2, <2>3 DEF FirstRead
<1>7. AgreeBefore(seen.events, p, base, T) /\ AgreeBefore(seen.events, p, base, R)
  <2> SUFFICES ASSUME NEW q \in 1 .. Len(seen.events), q < p, seen.events[q].slot \in Slots
               PROVE  /\ base[seen.events[q].slot] = T[seen.events[q].slot]
                      /\ base[seen.events[q].slot] = R[seen.events[q].slot]
    BY DEF AgreeBefore
  <2>1. q \in 1 .. p - 1 /\ q \in 1 .. at - 1
    BY <1>5, <1>6, <1>20
  <2>2. seen.events[q].slot # key /\ seen.events[q].slot \in have
    BY <1>6, <1>20, <2>1 DEF FirstRead
  <2>3. QED
    BY <1>1, <1>2, <2>2
<1>8. test = Outcome(code, s, T) /\ call = Outcome(code, s, R)
  BY <1>0 DEF T, R
<1>9. /\ \E r \in 1 .. Len(test.events) : test.events[r].slot = key
      /\ SteeredIn(test, key, T, R) => ((test.end = "reached") <=> (call.end = "reached"))
  BY <1>0, <1>2, <1>3, <1>4, <1>6, <1>7, <1>8, KeyAlike
<1>10. ASSUME test.end = "exhausted" \/ SteeredBy(test.events, key) \ {key} \subseteq have
       PROVE  SteeredIn(test, key, T, R)
  <2> SUFFICES ASSUME NEW k \in SteeredBy(test.events, key) \ {key}, test.end # "exhausted"
               PROVE  T[k] = R[k]
    BY DEF SteeredIn
  <2>1. k \in have /\ k # key
    BY <1>10
  <2>2. QED
    BY <1>1, <1>2, <2>1
<1>11. QED
  BY <1>0, <1>9, <1>10 DEF Tells, base

-----------------------------------------------------------------------------
(* The slots a dispatch reads, and where it is when a walk tries one.      *)

SlotsOf(events) == [p \in DOMAIN events |-> events[p].slot]

ReadsOf(code, s, storage) == Only(SlotsOf(Outcome(code, s, storage).events), Slots)

(* Before a trace comes to one of the reads, it only reads those before it. *)
InOrder(reads, events) ==
    \A m \in 1 .. Len(reads) : \E at \in 1 .. Len(events) :
        /\ events[at].slot = reads[m]
        /\ \A q \in 1 .. at - 1 :
             events[q].slot \in Slots => \E l \in 1 .. m - 1 : reads[l] = events[q].slot

LEMMA ReadsIs ==
  ASSUME NEW s, NEW storage
  PROVE  Reads(s, storage) = ReadsOf(dispatcher, s, storage)
<1>1. Call(s, storage) = Outcome(dispatcher, s, storage)
  BY CallIs
<1>2. QED
  BY <1>1 DEF Reads, ReadsOf, SlotsOf

LEMMA ReadsAre ==
  ASSUME NEW code, NEW s, NEW storage, Callable(code, s, storage),
         NEW events, events = Outcome(code, s, storage).events,
         NEW reads, reads = ReadsOf(code, s, storage)
  PROVE  /\ reads \in Seq(Slots) /\ Len(reads) \in Nat /\ InOrder(reads, events)
         /\ \A p \in 1 .. Len(events) :
              events[p].slot \in Slots => \E l \in 1 .. Len(reads) : reads[l] = events[p].slot
<1> DEFINE call == Outcome(code, s, storage)
           slots == SlotsOf(events)
           S == Slots \union {NoSlot}
<1>0. call = Outcome(code, s, storage) /\ events = call.events
  OBVIOUS
<1> HIDE DEF call
<1>1. events \in Seq(Events) /\ Len(events) \in Nat /\ DOMAIN events = 1 .. Len(events)
  <2>1. call \in Frames
    BY <1>0, OutcomeFacts
  <2>2. events \in Seq(Events)
    BY <1>0, <2>1 DEF Frames
  <2>3. QED
    BY <2>2
<1>2. slots \in Seq(S) /\ Len(slots) = Len(events) /\ \A p \in 1 .. Len(events) : slots[p] = events[p].slot
  <2>1. \A p \in 1 .. Len(events) : events[p].slot \in S
    <3> SUFFICES ASSUME NEW p \in 1 .. Len(events)
                 PROVE  events[p].slot \in S
      OBVIOUS
    <3> DEFINE event == events[p]
    <3>1. event \in Events
      BY <1>1
    <3> HIDE DEF event
    <3>2. event.slot \in S
      BY <3>1 DEF Events
    <3>3. QED
      BY <3>2 DEF event
  <2>2. slots = [p \in 1 .. Len(events) |-> events[p].slot]
    BY <1>1 DEF SlotsOf
  <2> HIDE DEF S
  <2>3. QED
    BY <1>1, <2>1, <2>2
<1>3. reads = Only(slots, Slots)
  BY DEF ReadsOf
<1> HIDE DEF slots, S
<1>4. /\ reads \in Seq(S \intersect Slots) /\ PickedInOrder(reads, slots, Slots)
      /\ \A q \in 1 .. Len(slots) : slots[q] \in Slots => \E l \in 1 .. Len(reads) : reads[l] = slots[q]
  BY <1>2, <1>3, OnlyInOrder
<1>5. S \intersect Slots = Slots
  BY DEF S
<1>6. reads \in Seq(Slots) /\ Len(reads) \in Nat
  <2>1. reads \in Seq(Slots)
    BY <1>4, <1>5
  <2>2. QED
    BY <2>1
<1>7. ASSUME NEW m \in 1 .. Len(reads)
      PROVE  \E at \in 1 .. Len(events) :
               /\ events[at].slot = reads[m]
               /\ \A q \in 1 .. at - 1 :
                    events[q].slot \in Slots => \E l \in 1 .. m - 1 : reads[l] = events[q].slot
  <2>1. PICK p \in 1 .. Len(slots) :
          /\ slots[p] = reads[m]
          /\ \A q \in 1 .. p - 1 : slots[q] \in Slots => \E l \in 1 .. m - 1 : reads[l] = slots[q]
    BY <1>4 DEF PickedInOrder
  <2>2. p \in 1 .. Len(events) /\ events[p].slot = reads[m]
    BY <1>2, <2>1
  <2>3. \A q \in 1 .. p - 1 : slots[q] = events[q].slot
    BY <1>1, <1>2, <2>2
  <2>4. QED
    BY <2>1, <2>2, <2>3
<1>8. \A p \in 1 .. Len(events) :
        events[p].slot \in Slots => \E l \in 1 .. Len(reads) : reads[l] = events[p].slot
  BY <1>2, <1>4
<1>9. QED
  BY <1>6, <1>7, <1>8 DEF InOrder

(* A dispatch of what is known reads no stub, so nothing past a list.      *)
LEMMA OfTheKnown ==
  ASSUME TypeOK, NEW s \in Selectors
  PROVE  /\ Known = AsFarAs(store, known) /\ NoStub(Known)
         /\ dispatcher \in Seq(Steps) /\ Len(dispatcher) <= MaxSteps
         /\ Callable(dispatcher, s, Known)
         /\ Reads(s, Known) = ReadsOf(dispatcher, s, Known)
         /\ Reads(s, Known) \in Seq(Slots) /\ Len(Reads(s, Known)) \in Nat
         /\ InOrder(Reads(s, Known), Outcome(dispatcher, s, Known).events)
         /\ \A m \in 1 .. Len(Reads(s, Known)) : Reads(s, Known)[m] # ListSlot
<1>1. Known = AsFarAs(store, known)
  BY DEF Known, AsFarAs
<1>2. dispatcher \in Seq(Steps) /\ Len(dispatcher) <= MaxSteps
  BY DispatchersAssumption DEF TypeOK
<1>3. Known \in [Slots -> {"zero", "live"}]
  BY DEF Known, TypeOK
<1>4. Callable(dispatcher, s, Known)
  BY <1>2, <1>3 DEF Callable, Words
<1>5. NoStub(Known)
  BY <1>3 DEF NoStub
<1> DEFINE seen == Outcome(dispatcher, s, Known)
           reads == Reads(s, Known)
<1>6. reads = ReadsOf(dispatcher, s, Known)
  BY ReadsIs
<1>7. reads \in Seq(Slots) /\ Len(reads) \in Nat /\ InOrder(reads, seen.events)
  <2> HIDE DEF reads
  <2>1. QED
    BY <1>4, <1>6, ReadsAre
<1>8. /\ \A p \in 1 .. Len(seen.events) : seen.events[p].slot = ListSlot => seen.end = "exhausted"
      /\ seen.end = "exhausted" => \E k \in Slots : Known[k] = "stub"
  BY <1>4, ListTakesTheGas
<1> HIDE DEF seen, reads
<1>9. ASSUME NEW m \in 1 .. Len(reads)
      PROVE  reads[m] # ListSlot
  BY <1>5, <1>7, <1>8 DEF NoStub, InOrder
<1>10. QED
  BY <1>1, <1>2, <1>4, <1>5, <1>6, <1>7, <1>9 DEF reads, seen

LEMMA AtTheKey ==
  ASSUME TypeOK, PassedAreKnown, Walking,
         NEW reads, reads = Reads(walk.selector, Known)
  PROVE  /\ walk \in [selector : Selectors, keys : Seq(Slots) \ {<<>>}]
         /\ walk # NoWalk /\ walk.selector \in Selectors
         /\ Key \in Slots /\ Key # ListSlot /\ reads \in Seq(Slots) /\ Len(reads) \in Nat
         /\ \E n \in 0 .. Len(reads) - 1 :
              /\ Key = reads[n + 1] /\ Tail(walk.keys) = SubSeq(reads, (n + 1) + 1, Len(reads))
              /\ \A i \in 1 .. n : reads[i] \in known
<1>1. walk # NoWalk
  BY DEF Walking, NoWalk
<1>2. walk \in [selector : Selectors, keys : Seq(Slots) \ {<<>>}]
  BY <1>1 DEF TypeOK
<1>3. walk.selector \in Selectors /\ walk.keys \in Seq(Slots) /\ walk.keys # <<>>
  BY <1>2
<1>4. /\ reads \in Seq(Slots) /\ Len(reads) \in Nat
      /\ \A m \in 1 .. Len(reads) : reads[m] # ListSlot
  BY <1>3, OfTheKnown
<1>5. PICK n \in 0 .. Len(reads) - 1 :
        /\ walk.keys = SubSeq(reads, n + 1, Len(reads))
        /\ \A i \in 1 .. n : reads[i] \in known
  BY <1>1 DEF PassedAreKnown
<1>6. n + 1 \in 1 .. Len(reads) /\ Len(reads) \in n + 1 .. Len(reads)
  BY <1>4
<1>7. /\ Head(SubSeq(reads, n + 1, Len(reads))) = reads[n + 1]
      /\ Tail(SubSeq(reads, n + 1, Len(reads))) = SubSeq(reads, (n + 1) + 1, Len(reads))
  BY <1>4, <1>6, HeadTailOfSubSeq
<1>8. Key = reads[n + 1] /\ Tail(walk.keys) = SubSeq(reads, (n + 1) + 1, Len(reads))
  BY <1>5, <1>7 DEF Key
<1>9. Key \in Slots /\ Key # ListSlot
  BY <1>4, <1>6, <1>8
<1>10. QED
  BY <1>1, <1>2, <1>3, <1>4, <1>5, <1>8, <1>9

(* A test with no slot unknown says what the proxy as it is would do, and   *)
(* what it has unknown is no list a count ran along.                        *)
LEMMA Verdict ==
  ASSUME TypeOK, PassedAreKnown, Walking,
         NEW test, test = Call(walk.selector, Stubbed(Known, Key))
  PROVE  /\ Unknown(test, Key) \subseteq Slots \ known
         /\ ListSlot \notin Unknown(test, Key)
         /\ Unknown(test, Key) = {} => (Reached(test) <=> Routes(walk.selector, Key))
<1> DEFINE s == walk.selector
           seen == Outcome(dispatcher, s, Known)
           reads == Reads(s, Known)
           call == Call(s, Stubbed(store, Key))
<1>1. /\ s \in Selectors /\ Key \in Slots /\ reads \in Seq(Slots) /\ Len(reads) \in Nat
      /\ \E n \in 0 .. Len(reads) - 1 : Key = reads[n + 1] /\ \A i \in 1 .. n : reads[i] \in known
  BY AtTheKey
<1>2. /\ Known = AsFarAs(store, known)
      /\ dispatcher \in Seq(Steps) /\ Len(dispatcher) <= MaxSteps
      /\ Callable(dispatcher, s, Known)
      /\ InOrder(reads, seen.events)
  BY <1>1, OfTheKnown
<1>3. test = Outcome(dispatcher, s, Stubbed(Known, Key)) /\ call = Outcome(dispatcher, s, Stubbed(store, Key))
  BY CallIs
<1>4. Callable(dispatcher, s, Stubbed(Known, Key))
  <2>1. Known \in [Slots -> Words]
    BY <1>2 DEF Callable
  <2>2. Stubbed(Known, Key) \in [Slots -> Words]
    BY <2>1 DEF Stubbed, Words
  <2>3. QED
    BY <1>2, <2>2 DEF Callable
<1> HIDE DEF s, seen, reads, call
<1>5. test \in Frames
  BY <1>3, <1>4, OutcomeFacts
<1>6. /\ \A p \in 1 .. Len(test.events) : test.events[p].slot = ListSlot => test.end = "exhausted"
  BY <1>3, <1>4, ListTakesTheGas
<1>7. Len(test.events) \in Nat /\ DOMAIN test.events = 1 .. Len(test.events) /\ test.events \in Seq(Events)
  BY <1>5 DEF Frames
<1>8. PICK n \in 0 .. Len(reads) - 1 : Key = reads[n + 1] /\ \A i \in 1 .. n : reads[i] \in known
  BY <1>1
<1>9. n + 1 \in 1 .. Len(reads) /\ (n + 1) - 1 = n
  BY <1>1
<1>10. PICK at \in 1 .. Len(seen.events) :
         /\ seen.events[at].slot = Key
         /\ \A q \in 1 .. at - 1 :
              seen.events[q].slot \in Slots => \E l \in 1 .. n : reads[l] = seen.events[q].slot
  BY <1>2, <1>8, <1>9 DEF InOrder
<1>11. CameTo(seen.events, Key, known)
  BY <1>8, <1>10 DEF CameTo
<1>12. Tells(test, call, Key, known)
  <2>1. store \in [Slots -> {"zero", "live"}] /\ known \in SUBSET Slots
    BY DEF TypeOK
  <2> DEFINE base == AsFarAs(store, known)
  <2>2. /\ seen = Outcome(dispatcher, s, base)
        /\ test = Outcome(dispatcher, s, Stubbed(base, Key))
        /\ call = Outcome(dispatcher, s, Stubbed(store, Key))
    BY <1>2, <1>3 DEF seen
  <2>3. CameTo(Outcome(dispatcher, s, base).events, Key, known)
    BY <1>11, <2>2
  <2>4. Tells(Outcome(dispatcher, s, Stubbed(base, Key)), Outcome(dispatcher, s, Stubbed(store, Key)), Key, known)
    BY <1>1, <1>2, <2>1, <2>3, TestTells
  <2>5. QED
    BY <2>2, <2>4
<1>13. SteeredBy(test.events, Key) \subseteq Slots
       /\ (test.end # "exhausted" => ListSlot \notin SteeredBy(test.events, Key))
  <2> SUFFICES ASSUME NEW k \in SteeredBy(test.events, Key)
               PROVE  k \in Slots /\ (test.end # "exhausted" => k # ListSlot)
    OBVIOUS
  <2> DEFINE first == CHOOSE p \in DOMAIN test.events : test.events[p].slot = Key
  <2>1. first \in Nat
    <3>1. \E p \in DOMAIN test.events : test.events[p].slot = Key
      BY <1>7, <1>12 DEF Tells
    <3>2. first \in DOMAIN test.events
      BY <3>1
    <3>3. QED
      BY <1>7, <3>2
  <2>2. PICK p \in first + 1 .. Len(test.events) : k = test.events[p].slot /\ test.events[p].slot # NoSlot
    BY DEF SteeredBy
  <2>3. p \in 1 .. Len(test.events)
    BY <1>7, <2>1, <2>2
  <2> DEFINE event == test.events[p]
  <2>4. event \in Events
    BY <1>7, <2>3
  <2> HIDE DEF event
  <2>5. event.slot \in Slots \union {NoSlot}
    BY <2>4 DEF Events
  <2>6. k \in Slots
    BY <2>2, <2>5 DEF event
  <2>7. QED
    BY <1>6, <2>2, <2>3, <2>6
<1>14. Unknown(test, Key) \subseteq Slots \ known /\ ListSlot \notin Unknown(test, Key)
  BY <1>13 DEF Unknown, Exhausted
<1>15. ASSUME Unknown(test, Key) = {}
       PROVE  Reached(test) <=> Routes(s, Key)
  <2>1. test.end = "exhausted" \/ SteeredBy(test.events, Key) \ {Key} \subseteq known
    BY <1>15 DEF Unknown, Exhausted
  <2>2. (test.end = "reached") <=> (call.end = "reached")
    BY <1>12, <2>1 DEF Tells
  <2>3. QED
    BY <2>2 DEF Reached, Routes, call
<1>16. QED
  BY <1>14, <1>15 DEF s

-----------------------------------------------------------------------------
(* The invariant.                                                          *)

(* What a walk has passed and has still to try, of a proxy with that code   *)
(* and storage.                                                             *)
Passed(code, storage, have, w) ==
    w # NoWalk =>
        \E n \in 0 .. Len(ReadsOf(code, w.selector, AsFarAs(storage, have))) - 1 :
            /\ w.keys = SubSeq(ReadsOf(code, w.selector, AsFarAs(storage, have)), n + 1,
                               Len(ReadsOf(code, w.selector, AsFarAs(storage, have))))
            /\ \A i \in 1 .. n : ReadsOf(code, w.selector, AsFarAs(storage, have))[i] \in have

LEMMA PassedIs == PassedAreKnown <=> Passed(dispatcher, store, known, walk)
<1>1. Known = AsFarAs(store, known)
  BY DEF Known, AsFarAs
<1>2. Reads(walk.selector, Known) = ReadsOf(dispatcher, walk.selector, AsFarAs(store, known))
  BY <1>1, ReadsIs
<1>3. QED
  BY <1>2 DEF PassedAreKnown, Passed

LEMMA PassedIsStill == (PassedAreKnown <=> Passed(dispatcher, store, known, walk))'
BY PassedIs, PTL

(* Whether a slot of a proxy with that code and storage routes a selector.  *)
Leads(code, storage, s, k) == Reached(Outcome(code, s, Stubbed(storage, k)))

Verified(code, storage, routes, bad) ==
    /\ \A s \in DOMAIN routes : Leads(code, storage, s, routes[s])
    /\ \A p \in bad : ~Leads(code, storage, p[1], p[2])

LEMMA RoutesIs ==
  ASSUME NEW s, NEW k
  PROVE  Routes(s, k) = Leads(dispatcher, store, s, k)
<1>1. Call(s, Stubbed(store, k)) = Outcome(dispatcher, s, Stubbed(store, k))
  BY CallIs
<1>2. QED
  BY <1>1 DEF Routes, Leads

LEMMA VerifiedIs == VerdictsHold <=> Verified(dispatcher, store, found, failed)
BY RoutesIs DEF VerdictsHold, Verified

LEMMA VerifiedIsStill == (VerdictsHold <=> Verified(dispatcher, store, found, failed))'
BY VerifiedIs, PTL

(* What a step says of the walk, and of the fetches it and others wait for. *)
WalkPart ==
    /\ walk = NoWalk \/ walk \in [selector : Selectors, keys : Seq(Slots) \ {<<>>}]
    /\ waiting \in Seq(Selectors) /\ needs \subseteq Slots
    /\ NeedsAreNew /\ PassedAreKnown /\ ListSlot \notin needs

LEMMA WalkStops ==
  ASSUME TypeOK, NeedsAreNew, ListSlot \notin needs, walk.selector \in Selectors, known' = known,
         NEW slots \in SUBSET (Slots \ known), slots # {}, ListSlot \notin slots, WaitFor(slots)
  PROVE  WalkPart'
<1>1. walk' = NoWalk /\ needs' = needs \union slots /\ waiting' = Append(waiting, walk.selector)
  BY DEF WaitFor
<1>2. waiting \in Seq(Selectors) /\ needs \subseteq Slots
  BY DEF TypeOK
<1>3. waiting' \in Seq(Selectors) /\ waiting' # <<>>
  BY <1>1, <1>2
<1>4. needs' \subseteq Slots /\ needs' # {} /\ needs' \intersect known' = {} /\ ListSlot \notin needs'
  BY <1>1, <1>2 DEF NeedsAreNew
<1>5. PassedAreKnown'
  BY <1>1 DEF PassedAreKnown
<1>6. NeedsAreNew'
  BY <1>3, <1>4 DEF NeedsAreNew
<1>7. (walk = NoWalk)'
  BY <1>1 DEF NoWalk
<1>8. QED
  BY <1>3, <1>4, <1>5, <1>6, <1>7 DEF WalkPart

LEMMA WalkGoesOn ==
  ASSUME TypeOK, NeedsAreNew, PassedAreKnown, ListSlot \notin needs, Walking,
         dispatcher' = dispatcher, store' = store, known' = known, GoOn
  PROVE  WalkPart'
<1> DEFINE reads == Reads(walk.selector, Known)
<1>1. /\ walk \in [selector : Selectors, keys : Seq(Slots) \ {<<>>}]
      /\ walk.selector \in Selectors
      /\ Key \in Slots /\ Key # ListSlot /\ reads \in Seq(Slots) /\ Len(reads) \in Nat
      /\ \E n \in 0 .. Len(reads) - 1 :
           /\ Key = reads[n + 1] /\ Tail(walk.keys) = SubSeq(reads, (n + 1) + 1, Len(reads))
           /\ \A i \in 1 .. n : reads[i] \in known
  BY AtTheKey
<1>2. reads = ReadsOf(dispatcher, walk.selector, AsFarAs(store, known))
  <2>1. Known = AsFarAs(store, known)
    BY DEF Known, AsFarAs
  <2>2. QED
    BY <2>1, ReadsIs
<1> HIDE DEF reads
<1>3. CASE Key \notin known
  <2>1. WaitFor({Key}) /\ {Key} \in SUBSET (Slots \ known) /\ {Key} # {} /\ ListSlot \notin {Key}
    BY <1>1, <1>3 DEF GoOn
  <2>2. QED
    BY <1>1, <2>1, WalkStops
<1>4. CASE Key \in known
  <2>1. walk' = Walk(walk.selector, Tail(walk.keys)) /\ needs' = needs /\ waiting' = waiting
    BY <1>4 DEF GoOn
  <2>2. PICK n \in 0 .. Len(reads) - 1 :
          /\ Key = reads[n + 1] /\ Tail(walk.keys) = SubSeq(reads, (n + 1) + 1, Len(reads))
          /\ \A i \in 1 .. n : reads[i] \in known
    BY <1>1
  <2>3. waiting' \in Seq(Selectors) /\ needs' \subseteq Slots /\ NeedsAreNew' /\ ListSlot \notin needs'
    BY <2>1 DEF TypeOK, NeedsAreNew
  <2>4. CASE Tail(walk.keys) = <<>>
    <3>1. walk' = NoWalk
      BY <2>1, <2>4 DEF Walk
    <3>2. PassedAreKnown' /\ (walk = NoWalk)'
      BY <3>1 DEF PassedAreKnown, NoWalk
    <3>3. QED
      BY <2>3, <3>2 DEF WalkPart
  <2>5. CASE Tail(walk.keys) # <<>>
    <3>1. walk' = [selector |-> walk.selector, keys |-> Tail(walk.keys)]
      BY <2>1, <2>5 DEF Walk
    <3>2. Tail(walk.keys) \in Seq(Slots)
      <4>1. walk.keys \in Seq(Slots) /\ walk.keys # <<>>
        BY <1>1
      <4>2. QED
        BY <4>1, HeadTailProperties
    <3>3. walk' \in [selector : Selectors, keys : Seq(Slots) \ {<<>>}]
      BY <1>1, <2>5, <3>1, <3>2
    <3>4. n + 1 \in 0 .. Len(reads) - 1
      <4>1. CASE n + 1 = Len(reads)
        <5>1. SubSeq(reads, (n + 1) + 1, Len(reads)) = <<>>
          BY <1>1, <4>1, SubSeqEmpty
        <5>2. QED
          BY <2>2, <2>5, <5>1
      <4>2. QED
        BY <1>1, <4>1
    <3>5. \A i \in 1 .. n + 1 : reads[i] \in known
      BY <1>1, <1>4, <2>2
    <3>6. walk'.selector = walk.selector /\ walk'.keys = SubSeq(reads, (n + 1) + 1, Len(reads))
      BY <2>2, <3>1
    <3>7. Passed(dispatcher', store', known', walk')
      <4>1. reads = ReadsOf(dispatcher', walk'.selector, AsFarAs(store', known'))
        BY <1>2, <3>6
      <4>2. \E m \in 0 .. Len(reads) - 1 :
              /\ walk'.keys = SubSeq(reads, m + 1, Len(reads))
              /\ \A i \in 1 .. m : reads[i] \in known'
        BY <3>4, <3>5, <3>6
      <4>3. QED
        BY <4>1, <4>2 DEF Passed
    <3>8. PassedAreKnown'
      BY <3>7, PassedIsStill
    <3>9. QED
      BY <2>3, <3>3, <3>8 DEF WalkPart
  <2>6. QED
    BY <2>4, <2>5
<1>5. QED
  BY <1>3, <1>4

(* What a step says of the rest: what was asked, and what was found out.    *)
RestPart ==
    /\ dispatcher \in Dispatchers /\ wanted \in Requests
    /\ store \in [Slots -> {"zero", "live"}]
    /\ phase \in {"walking", "found", "raised"}
    /\ queue \in Seq(Selectors)
    /\ known \subseteq Slots /\ shared \subseteq Slots
    /\ DOMAIN claims \subseteq Slots /\ \A k \in DOMAIN claims : claims[k] \in Selectors
    /\ DOMAIN found \subseteq Selectors /\ \A s \in DOMAIN found : found[s] \in Slots
    /\ failed \subseteq Selectors \X Slots
    /\ NoRouteOnTheList /\ ListSlot \notin known /\ VerdictsHold

LEMMA Parts == WalkInv <=> WalkPart /\ RestPart
BY DEF WalkInv, WalkPart, RestPart, TypeOK, ListNotFetched

LEMMA PartsStill == (WalkInv <=> WalkPart /\ RestPart)'
BY Parts, PTL

LEMMA RestStays ==
  ASSUME RestPart, UNCHANGED <<proxy, phase, queue, known, shared, claims, found, failed>>
  PROVE  RestPart'
<1>1. /\ dispatcher' = dispatcher /\ store' = store /\ wanted' = wanted /\ phase' = phase
      /\ queue' = queue /\ known' = known /\ shared' = shared /\ claims' = claims
      /\ found' = found /\ failed' = failed
  BY DEF proxy
<1>2. VerdictsHold'
  BY <1>1, VerifiedIs, VerifiedIsStill DEF RestPart
<1>3. QED
  BY <1>1, <1>2 DEF RestPart, NoRouteOnTheList

(* What was asked for is walked, each selector once.                       *)
LEMMA SoughtIs ==
  ASSUME NEW asked \in Seq(Selectors), IsInjective(asked)
  PROVE  /\ Probed(asked) \in Seq(Selectors) /\ IsInjective(Probed(asked))
         /\ ToSet(asked) \subseteq ToSet(Probed(asked))
<1> DEFINE others == Only(Dummies, Selectors \ ToSet(asked))
           more == Min({Len(others), 2 - Len(asked)})
           b == SubSeq(others, 1, more)
           all == asked \o b
<1>1. others \in Seq(Selectors \intersect (Selectors \ ToSet(asked)))
  BY DummiesAssumption, OnlyInOrder
<1>2. IsInjective(others) /\ ToSet(others) = ToSet(Dummies) \intersect (Selectors \ ToSet(asked))
  BY DummiesAssumption, OnlyApart
<1>3. others \in Seq(Selectors) /\ Len(others) \in Nat /\ Len(asked) \in Nat /\ DOMAIN others = 1 .. Len(others)
  <2> HIDE DEF others
  <2>1. QED
    BY <1>1
<1> HIDE DEF others
<1>4. more \in Int /\ more <= Len(others)
  <2> DEFINE x == Len(others)
             y == 2 - Len(asked)
  <2>1. x \in Int /\ y \in Int
    BY <1>3
  <2> HIDE DEF x, y
  <2>2. \E z \in {x, y} : \A v \in {x, y} : z <= v
    BY <2>1
  <2>3. Min({x, y}) \in {x, y} /\ \A v \in {x, y} : Min({x, y}) <= v
    BY <2>2 DEF Min
  <2>4. Min({x, y}) \in Int /\ Min({x, y}) <= x
    BY <2>1, <2>3
  <2>5. QED
    BY <2>4 DEF x, y
<1> HIDE DEF more
<1>5. /\ b \in Seq(Selectors) /\ Len(b) \in Nat /\ Len(b) <= Len(others)
      /\ \A i \in 1 .. Len(b) : b[i] = others[i] /\ i \in 1 .. Len(others)
  <2>1. \A i \in 1 .. more : others[i] \in Selectors
    BY <1>3, <1>4
  <2>2. /\ b \in Seq(Selectors)
        /\ Len(b) = IF 1 <= more THEN more - 1 + 1 ELSE 0
        /\ \A i \in 1 .. more - 1 + 1 : b[i] = others[1 + i - 1]
    BY <1>4, <2>1, SubSeqProperties
  <2>3. Len(b) = IF 1 <= more THEN more ELSE 0
    BY <1>4, <2>2
  <2>4. \A i \in 1 .. more : b[i] = others[i]
    BY <1>4, <2>2
  <2> HIDE DEF b
  <2>5. QED
    BY <1>3, <1>4, <2>2, <2>3, <2>4
<1>6. \A i \in 1 .. Len(b) : b[i] \notin ToSet(asked)
  BY <1>1, <1>3, <1>5
<1> HIDE DEF b
<1>7. /\ all \in Seq(Selectors) /\ DOMAIN all = 1 .. Len(asked) + Len(b)
      /\ \A i \in 1 .. Len(asked) + Len(b) :
           all[i] = IF i <= Len(asked) THEN asked[i] ELSE b[i - Len(asked)]
  <2>1. all \in Seq(Selectors) /\ Len(all) = Len(asked) + Len(b)
    BY <1>3, <1>5
  <2>2. DOMAIN all = 1 .. Len(all)
    BY <2>1
  <2>3. \A i \in 1 .. Len(all) : all[i] = IF i <= Len(asked) THEN asked[i] ELSE b[i - Len(asked)]
    BY <1>3, <1>5, <2>1
  <2>4. QED
    BY <2>1, <2>2, <2>3
<1> HIDE DEF all
<1>8. DOMAIN asked = 1 .. Len(asked) /\ \A i \in 1 .. Len(asked) : asked[i] \in ToSet(asked)
  BY DEF ToSet
<1>9. IsInjective(all)
  <2> SUFFICES ASSUME NEW i \in 1 .. Len(asked) + Len(b), NEW j \in 1 .. Len(asked) + Len(b), all[i] = all[j]
               PROVE  i = j
    BY <1>7 DEF IsInjective
  <2>1. CASE i <= Len(asked) /\ j <= Len(asked)
    <3>1. i \in DOMAIN asked /\ j \in DOMAIN asked /\ asked[i] = asked[j]
      BY <1>3, <1>7, <1>8, <2>1
    <3>2. QED
      BY <3>1 DEF IsInjective
  <2>2. CASE i > Len(asked) /\ j > Len(asked)
    <3>0. PICK a \in Nat, c \in Nat : a = Len(asked) /\ c = Len(b)
      BY <1>3, <1>5
    <3>1. PICK x \in 1 .. Len(b) : x = i - Len(asked)
      <4>1. i \in 1 .. a + c /\ i > a
        BY <2>2, <3>0
      <4>2. i - a \in 1 .. c
        BY <4>1
      <4>3. QED
        BY <3>0, <4>2
    <3>2. PICK y \in 1 .. Len(b) : y = j - Len(asked)
      <4>1. j \in 1 .. a + c /\ j > a
        BY <2>2, <3>0
      <4>2. j - a \in 1 .. c
        BY <4>1
      <4>3. QED
        BY <3>0, <4>2
    <3>3. all[i] = b[x] /\ all[j] = b[y]
      BY <1>3, <1>5, <1>7, <2>2, <3>1, <3>2
    <3>4. others[x] = others[y] /\ x \in DOMAIN others /\ y \in DOMAIN others
      BY <1>3, <1>5, <3>3
    <3>5. x = y
      BY <1>2, <3>4 DEF IsInjective
    <3>6. QED
      BY <1>3, <1>5, <3>1, <3>2, <3>5
  <2>3. CASE i <= Len(asked) /\ j > Len(asked)
    <3>1. i \in 1 .. Len(asked) /\ j - Len(asked) \in 1 .. Len(b) /\ asked[i] = b[j - Len(asked)]
      BY <1>3, <1>5, <1>7, <2>3
    <3>2. QED
      BY <1>6, <1>8, <3>1
  <2>4. CASE j <= Len(asked) /\ i > Len(asked)
    <3>1. j \in 1 .. Len(asked) /\ i - Len(asked) \in 1 .. Len(b) /\ asked[j] = b[i - Len(asked)]
      BY <1>3, <1>5, <1>7, <2>4
    <3>2. QED
      BY <1>6, <1>8, <3>1
  <2>5. QED
    BY <1>3, <1>5, <2>1, <2>2, <2>3, <2>4
<1>10. ToSet(asked) \subseteq ToSet(all)
  <2>1. \A i \in 1 .. Len(asked) : i \in DOMAIN all /\ all[i] = asked[i]
    BY <1>3, <1>5, <1>7
  <2>2. QED
    BY <1>8, <2>1 DEF ToSet
<1>11. Probed(asked) = all
  BY DEF Probed, all, b, more, others
<1>12. QED
  BY <1>7, <1>9, <1>10, <1>11

LEMMA StartsRight == Init => WalkInv
<1> SUFFICES ASSUME Init PROVE WalkInv
  OBVIOUS
<1>1. wanted \in Requests /\ wanted \in Seq(Selectors) /\ IsInjective(wanted)
  BY RequestsAssumption DEF Init
<1>2. queue \in Seq(Selectors)
  BY <1>1, SoughtIs DEF Init
<1>3. store \in [Slots -> {"zero", "live"}]
  BY DEF Init
<1>4. DOMAIN claims = {} /\ DOMAIN found = {} /\ failed = {}
  BY DEF Init
<1>5. VerdictsHold /\ NoRouteOnTheList
  BY <1>4 DEF VerdictsHold, NoRouteOnTheList
<1>6. RestPart
  BY <1>1, <1>2, <1>3, <1>4, <1>5 DEF Init, RestPart
<1>7. WalkPart
  BY DEF Init, WalkPart, NeedsAreNew, PassedAreKnown
<1>8. QED
  BY <1>6, <1>7, Parts

LEMMA TakeHolds ==
  ASSUME WalkInv, Take
  PROVE  WalkInv'
<1>1. TypeOK /\ NeedsAreNew /\ WalkPart /\ RestPart
  BY Parts DEF WalkInv
<1> DEFINE s == Last(queue)
           reads == Reads(s, Known)
<1>2. /\ queue \in Seq(Selectors) /\ queue # <<>>
      /\ walk' = Walk(s, reads) /\ queue' = Front(queue)
      /\ UNCHANGED <<proxy, phase, known, needs, waiting, shared, claims, found, failed>>
  BY <1>1 DEF Take, TypeOK
<1>3. s \in Selectors /\ queue' \in Seq(Selectors)
  <2>1. Len(queue) \in 1 .. Len(queue) /\ Len(queue) - 1 \in Int /\ Len(queue) \in Nat
    BY <1>2
  <2>2. \A i \in 1 .. Len(queue) - 1 : queue[i] \in Selectors
    BY <1>2
  <2>3. SubSeq(queue, 1, Len(queue) - 1) \in Seq(Selectors)
    BY <2>1, <2>2, SubSeqProperties
  <2>4. QED
    BY <1>2, <2>1, <2>3 DEF Last, Front
<1> HIDE DEF s
<1>4. /\ reads \in Seq(Slots) /\ Len(reads) \in Nat
      /\ reads = ReadsOf(dispatcher, s, AsFarAs(store, known))
  BY <1>1, <1>3, OfTheKnown
<1> HIDE DEF reads
<1>5. WalkPart'
  <2>1. waiting' \in Seq(Selectors) /\ needs' \subseteq Slots /\ NeedsAreNew' /\ ListSlot \notin needs'
    BY <1>1, <1>2 DEF WalkPart, NeedsAreNew
  <2>2. CASE reads = <<>>
    <3>1. walk' = NoWalk
      BY <1>2, <2>2 DEF Walk
    <3>2. PassedAreKnown' /\ (walk = NoWalk)'
      BY <3>1 DEF PassedAreKnown, NoWalk
    <3>3. QED
      BY <2>1, <3>2 DEF WalkPart
  <2>3. CASE reads # <<>>
    <3>1. walk' = [selector |-> s, keys |-> reads]
      BY <1>2, <2>3 DEF Walk
    <3>2. walk' \in [selector : Selectors, keys : Seq(Slots) \ {<<>>}] /\ walk'.selector = s /\ walk'.keys = reads
      BY <1>3, <1>4, <2>3, <3>1
    <3>3. SubSeq(reads, 0 + 1, Len(reads)) = reads /\ 0 \in 0 .. Len(reads) - 1
      <4>1. SubSeq(reads, 1, Len(reads)) = reads
        BY <1>4, SubSeqFull
      <4>2. QED
        BY <1>4, <2>3, <4>1
    <3>4. Passed(dispatcher', store', known', walk')
      <4>0. dispatcher' = dispatcher /\ store' = store /\ known' = known
        BY <1>2 DEF proxy
      <4>1. reads = ReadsOf(dispatcher', walk'.selector, AsFarAs(store', known'))
        BY <1>4, <3>2, <4>0
      <4>2. \E n \in 0 .. Len(reads) - 1 :
              /\ walk'.keys = SubSeq(reads, n + 1, Len(reads))
              /\ \A i \in 1 .. n : reads[i] \in known'
        <5>1. walk'.keys = SubSeq(reads, 0 + 1, Len(reads)) /\ 0 \in 0 .. Len(reads) - 1
          BY <3>2, <3>3
        <5>2. \A i \in 1 .. 0 : reads[i] \in known'
          OBVIOUS
        <5>3. QED
          BY <5>1, <5>2
      <4>3. QED
        BY <4>1, <4>2 DEF Passed
    <3>5. PassedAreKnown'
      BY <3>4, PassedIsStill
    <3>6. QED
      BY <2>1, <3>2, <3>5 DEF WalkPart
  <2>4. QED
    BY <2>2, <2>3
<1>6. RestPart'
  <2>1. VerdictsHold'
    BY <1>1, <1>2, VerifiedIs, VerifiedIsStill DEF proxy, RestPart
  <2>2. QED
    BY <1>1, <1>2, <1>3, <2>1 DEF RestPart, proxy, NoRouteOnTheList
<1>7. QED
  BY <1>5, <1>6, PartsStill

(* A selector's test of a slot, and what is still to be shown of it.       *)
LEMMA Trying ==
  ASSUME WalkInv, Walking
  PROVE  /\ TypeOK /\ NeedsAreNew /\ PassedAreKnown /\ RestPart /\ ListSlot \notin needs
         /\ walk.selector \in Selectors /\ Key \in Slots /\ Key # ListSlot
<1>1. TypeOK /\ NeedsAreNew /\ PassedAreKnown /\ RestPart /\ ListSlot \notin needs
  BY Parts DEF WalkInv, WalkPart
<1>2. walk.selector \in Selectors /\ Key \in Slots /\ Key # ListSlot
  BY <1>1, AtTheKey
<1>3. QED
  BY <1>1, <1>2

LEMMA PassHolds ==
  ASSUME WalkInv, Pass
  PROVE  WalkInv'
<1>1. Walking /\ GoOn /\ UNCHANGED <<proxy, phase, queue, known, shared, claims, found, failed>>
  BY DEF Pass
<1>2. /\ TypeOK /\ NeedsAreNew /\ PassedAreKnown /\ RestPart /\ ListSlot \notin needs
  BY <1>1, Trying
<1>3. dispatcher' = dispatcher /\ store' = store /\ known' = known
  BY <1>1 DEF proxy
<1>4. WalkPart'
  BY <1>1, <1>2, <1>3, WalkGoesOn
<1>5. RestPart'
  BY <1>1, <1>2, RestStays
<1>6. QED
  BY <1>4, <1>5, PartsStill

LEMMA DeferHolds ==
  ASSUME WalkInv, Walking,
         NEW test, test = Call(walk.selector, Stubbed(Known, Key)), Defer(test)
  PROVE  WalkInv'
<1> DEFINE slots == Unknown(test, Key)
<1>1. slots # {} /\ WaitFor(slots)
      /\ UNCHANGED <<proxy, phase, queue, known, shared, claims, found, failed>>
  BY DEF Defer, Counts
<1>2. /\ TypeOK /\ NeedsAreNew /\ PassedAreKnown /\ RestPart /\ ListSlot \notin needs
      /\ walk.selector \in Selectors
  BY Trying
<1>3. slots \in SUBSET (Slots \ known) /\ ListSlot \notin slots
  BY <1>2, Verdict
<1> HIDE DEF slots
<1>4. known' = known
  BY <1>1
<1>5. WalkPart'
  BY <1>1, <1>2, <1>3, <1>4, WalkStops
<1>6. RestPart'
  BY <1>1, <1>2, RestStays
<1>7. QED
  BY <1>5, <1>6, PartsStill

(* The walk ends with nothing new to fetch.                                *)
LEMMA ClaimHolds ==
  ASSUME WalkInv, Walking,
         NEW test, test = Call(walk.selector, Stubbed(Known, Key)), Claim(test)
  PROVE  WalkInv'
<1> DEFINE s == walk.selector
           k == Key
<1>1. /\ Unknown(test, k) = {} /\ Reached(test)
      /\ claims' = With(claims, k, s) /\ found' = With(found, s, k) /\ walk' = NoWalk
      /\ UNCHANGED <<proxy, phase, queue, known, needs, waiting, shared, failed>>
  BY DEF Claim, Counts
<1>2. /\ TypeOK /\ NeedsAreNew /\ PassedAreKnown /\ RestPart /\ ListSlot \notin needs
      /\ s \in Selectors /\ k \in Slots /\ k # ListSlot
  BY Trying
<1>3. Routes(s, k)
  BY <1>1, <1>2, Verdict
<1> HIDE DEF s, k
<1>4. /\ DOMAIN claims' = DOMAIN claims \union {k}
      /\ \A x \in DOMAIN claims' : claims'[x] = IF x = k THEN s ELSE claims[x]
  BY <1>1 DEF With
<1>5. /\ DOMAIN found' = DOMAIN found \union {s}
      /\ \A x \in DOMAIN found' : found'[x] = IF x = s THEN k ELSE found[x]
  BY <1>1 DEF With
<1>6. /\ dispatcher' = dispatcher /\ store' = store /\ wanted' = wanted /\ phase' = phase
      /\ queue' = queue /\ known' = known /\ needs' = needs /\ waiting' = waiting
      /\ shared' = shared /\ failed' = failed
  BY <1>1 DEF proxy
<1>7. WalkPart'
  <2>1. PassedAreKnown' /\ (walk = NoWalk)'
    BY <1>1 DEF PassedAreKnown, NoWalk
  <2>2. QED
    BY <1>2, <1>6, <2>1 DEF WalkPart, TypeOK, NeedsAreNew
<1>8. VerdictsHold'
  <2>1. Verified(dispatcher, store, found, failed)
    BY <1>2, VerifiedIs DEF RestPart
  <2>2. Leads(dispatcher, store, s, k)
    BY <1>3, RoutesIs
  <2>3. \A x \in DOMAIN found' : Leads(dispatcher, store, x, found'[x])
    <3> SUFFICES ASSUME NEW x \in DOMAIN found' PROVE Leads(dispatcher, store, x, found'[x])
      OBVIOUS
    <3>1. CASE x = s
      BY <1>5, <2>2, <3>1
    <3>2. CASE x # s
      BY <1>5, <2>1, <3>2 DEF Verified
    <3>3. QED
      BY <3>1, <3>2
  <2>4. Verified(dispatcher, store, found', failed)
    BY <2>1, <2>3 DEF Verified
  <2>5. QED
    BY <1>6, <2>4, VerifiedIsStill
<1>9. DOMAIN claims' \subseteq Slots /\ \A x \in DOMAIN claims' : claims'[x] \in Selectors
  BY <1>2, <1>4 DEF TypeOK
<1>10. /\ DOMAIN found' \subseteq Selectors
       /\ \A x \in DOMAIN found' : found'[x] \in Slots /\ found'[x] # ListSlot
  BY <1>2, <1>5 DEF TypeOK, RestPart, NoRouteOnTheList
<1>11. RestPart'
  BY <1>2, <1>6, <1>8, <1>9, <1>10 DEF RestPart, NoRouteOnTheList
<1>12. QED
  BY <1>7, <1>11, PartsStill

(* The slot is nobody's any more, and the one that had it is walked again. *)
LEMMA ContestHolds ==
  ASSUME WalkInv, Walking,
         NEW test, test = Call(walk.selector, Stubbed(Known, Key)), Contest(test)
  PROVE  WalkInv'
<1> DEFINE k == Key
           other == claims[Key]
<1>1. /\ k \in DOMAIN claims /\ claims' = Without(claims, k) /\ shared' = shared \union {k}
      /\ found' = Without(found, other) /\ queue' = Append(queue, other) /\ GoOn
      /\ UNCHANGED <<proxy, phase, known, failed>>
  BY DEF Contest
<1>2. /\ TypeOK /\ NeedsAreNew /\ PassedAreKnown /\ RestPart /\ ListSlot \notin needs
      /\ k \in Slots
  BY Trying
<1>3. other \in Selectors
  BY <1>1, <1>2 DEF TypeOK
<1> HIDE DEF k, other
<1>4. /\ dispatcher' = dispatcher /\ store' = store /\ wanted' = wanted /\ phase' = phase
      /\ known' = known /\ failed' = failed
  BY <1>1 DEF proxy
<1>5. WalkPart'
  BY <1>1, <1>2, <1>4, WalkGoesOn
<1>6. /\ DOMAIN claims' \subseteq DOMAIN claims
      /\ \A x \in DOMAIN claims' : claims'[x] = claims[x]
  BY <1>1 DEF Without
<1>7. /\ DOMAIN found' \subseteq DOMAIN found
      /\ \A x \in DOMAIN found' : found'[x] = found[x]
  BY <1>1 DEF Without
<1>8. VerdictsHold'
  <2>1. Verified(dispatcher, store, found, failed)
    BY <1>2, VerifiedIs DEF RestPart
  <2>2. Verified(dispatcher, store, found', failed)
    BY <1>7, <2>1 DEF Verified
  <2>3. QED
    BY <1>4, <2>2, VerifiedIsStill
<1>9. DOMAIN claims' \subseteq Slots /\ \A x \in DOMAIN claims' : claims'[x] \in Selectors
  BY <1>2, <1>6 DEF TypeOK
<1>10. /\ DOMAIN found' \subseteq Selectors
       /\ \A x \in DOMAIN found' : found'[x] \in Slots /\ found'[x] # ListSlot
  BY <1>2, <1>7 DEF TypeOK, RestPart, NoRouteOnTheList
<1>11. queue' \in Seq(Selectors) /\ shared' \subseteq Slots
  BY <1>1, <1>2, <1>3 DEF TypeOK
<1>12. RestPart'
  BY <1>2, <1>4, <1>8, <1>9, <1>10, <1>11 DEF RestPart, NoRouteOnTheList
<1>13. QED
  BY <1>5, <1>12, PartsStill

LEMMA FailHolds ==
  ASSUME WalkInv, Walking,
         NEW test, test = Call(walk.selector, Stubbed(Known, Key)), Fail(test)
  PROVE  WalkInv'
<1> DEFINE s == walk.selector
           k == Key
<1>1. /\ Unknown(test, k) = {} /\ ~Reached(test) /\ failed' = failed \union {<<s, k>>} /\ GoOn
      /\ UNCHANGED <<proxy, phase, queue, known, shared, claims, found>>
  BY DEF Fail, Counts
<1>2. /\ TypeOK /\ NeedsAreNew /\ PassedAreKnown /\ RestPart /\ ListSlot \notin needs
      /\ s \in Selectors /\ k \in Slots
  BY Trying
<1>3. ~Routes(s, k)
  BY <1>1, <1>2, Verdict
<1> HIDE DEF s, k
<1>4. /\ dispatcher' = dispatcher /\ store' = store /\ wanted' = wanted /\ phase' = phase
      /\ queue' = queue /\ known' = known /\ shared' = shared /\ claims' = claims
      /\ found' = found
  BY <1>1 DEF proxy
<1>5. WalkPart'
  BY <1>1, <1>2, <1>4, WalkGoesOn
<1>6. VerdictsHold'
  <2>1. Verified(dispatcher, store, found, failed)
    BY <1>2, VerifiedIs DEF RestPart
  <2>2. ~Leads(dispatcher, store, s, k)
    BY <1>3, RoutesIs
  <2>3. \A p \in failed' : ~Leads(dispatcher, store, p[1], p[2])
    BY <1>1, <2>1, <2>2 DEF Verified
  <2>4. Verified(dispatcher, store, found, failed')
    BY <2>1, <2>3 DEF Verified
  <2>5. QED
    BY <1>4, <2>4, VerifiedIsStill
<1>7. failed' \subseteq Selectors \X Slots
  BY <1>1, <1>2 DEF TypeOK
<1>8. RestPart'
  BY <1>2, <1>4, <1>6, <1>7 DEF RestPart, NoRouteOnTheList
<1>9. QED
  BY <1>5, <1>8, PartsStill

LEMMA TryHolds ==
  ASSUME WalkInv, Try
  PROVE  WalkInv'
<1> DEFINE test == Call(walk.selector, Stubbed(Known, Key))
<1>1. Walking /\ (Defer(test) \/ Claim(test) \/ Contest(test) \/ Fail(test))
  BY DEF Try
<1>2. test = Call(walk.selector, Stubbed(Known, Key))
  OBVIOUS
<1> HIDE DEF test
<1>3. CASE Defer(test)
  BY <1>1, <1>2, <1>3, DeferHolds
<1>4. CASE Claim(test)
  BY <1>1, <1>2, <1>4, ClaimHolds
<1>5. CASE Contest(test)
  BY <1>1, <1>2, <1>5, ContestHolds
<1>6. CASE Fail(test)
  BY <1>1, <1>2, <1>6, FailHolds
<1>7. QED
  BY <1>1, <1>3, <1>4, <1>5, <1>6

LEMMA FetchHolds ==
  ASSUME WalkInv, Fetch
  PROVE  WalkInv'
<1>1. /\ walk = NoWalk /\ known' = known \union needs
      /\ queue' = Only(waiting, Selectors \ DOMAIN found) /\ needs' = {} /\ waiting' = <<>>
      /\ UNCHANGED <<proxy, phase, walk, shared, claims, found, failed>>
  BY DEF Fetch
<1>2. TypeOK /\ NeedsAreNew /\ RestPart /\ ListSlot \notin needs /\ ListSlot \notin known
  BY Parts DEF WalkInv, WalkPart, RestPart
<1>3. /\ dispatcher' = dispatcher /\ store' = store /\ wanted' = wanted /\ phase' = phase
      /\ walk' = walk /\ shared' = shared /\ claims' = claims /\ found' = found
      /\ failed' = failed
  BY <1>1 DEF proxy
<1>4. known' \subseteq Slots /\ ListSlot \notin known'
  BY <1>1, <1>2 DEF TypeOK
<1>5. queue' \in Seq(Selectors)
  <2> DEFINE left == Only(waiting, Selectors \ DOMAIN found)
  <2>1. left \in Seq(Selectors \intersect (Selectors \ DOMAIN found))
    BY <1>2, OnlyInOrder DEF TypeOK
  <2> HIDE DEF left
  <2>2. left \in Seq(Selectors)
    BY <2>1
  <2>3. QED
    BY <1>1, <2>2 DEF left
<1>6. VerdictsHold'
  BY <1>2, <1>3, VerifiedIs, VerifiedIsStill DEF RestPart
<1>7. WalkPart'
  <2>1. PassedAreKnown' /\ (walk = NoWalk)'
    BY <1>1, <1>3 DEF PassedAreKnown, NoWalk
  <2>2. waiting' = <<>> /\ waiting' \in Seq(Selectors)
    BY <1>1
  <2>3. NeedsAreNew' /\ needs' \subseteq Slots /\ ListSlot \notin needs'
    BY <1>1 DEF NeedsAreNew
  <2>4. QED
    BY <2>1, <2>2, <2>3 DEF WalkPart
<1>8. RestPart'
  BY <1>2, <1>3, <1>4, <1>5, <1>6 DEF RestPart, NoRouteOnTheList
<1>9. QED
  BY <1>7, <1>8, PartsStill

LEMMA FinishHolds ==
  ASSUME WalkInv, Finish
  PROVE  WalkInv'
<1>1. /\ walk = NoWalk /\ waiting = <<>>
      /\ known' = known \union {found[s] : s \in ToSet(wanted) \intersect DOMAIN found}
      /\ phase' \in {"walking", "found", "raised"}
      /\ UNCHANGED <<proxy, queue, walk, needs, waiting, shared, claims, found, failed>>
  BY DEF Finish
<1>2. TypeOK /\ NeedsAreNew /\ RestPart /\ NoRouteOnTheList /\ ListSlot \notin known
  BY Parts DEF WalkInv, WalkPart, RestPart
<1>3. /\ dispatcher' = dispatcher /\ store' = store /\ wanted' = wanted /\ queue' = queue
      /\ walk' = walk /\ needs' = needs /\ waiting' = waiting
      /\ shared' = shared /\ claims' = claims /\ found' = found /\ failed' = failed
  BY <1>1 DEF proxy
<1>4. known' \subseteq Slots /\ ListSlot \notin known'
  BY <1>1, <1>2 DEF TypeOK, NoRouteOnTheList
<1>5. needs = {}
  BY <1>1, <1>2 DEF NeedsAreNew
<1>6. VerdictsHold'
  BY <1>2, <1>3, VerifiedIs, VerifiedIsStill DEF RestPart
<1>7. WalkPart'
  <2>1. PassedAreKnown' /\ (walk = NoWalk)'
    BY <1>1, <1>3 DEF PassedAreKnown, NoWalk
  <2>2. waiting' = <<>> /\ waiting' \in Seq(Selectors)
    BY <1>1, <1>3
  <2>3. NeedsAreNew' /\ needs' \subseteq Slots /\ ListSlot \notin needs'
    BY <1>1, <1>3, <1>5 DEF NeedsAreNew
  <2>4. QED
    BY <2>1, <2>2, <2>3 DEF WalkPart
<1>8. RestPart'
  BY <1>1, <1>2, <1>3, <1>4, <1>6 DEF RestPart, NoRouteOnTheList
<1>9. QED
  BY <1>7, <1>8, PartsStill

LEMMA StutterHolds ==
  ASSUME WalkInv, UNCHANGED vars
  PROVE  WalkInv'
<1>1. /\ UNCHANGED <<proxy, phase, queue, known, shared, claims, found, failed>>
      /\ walk' = walk /\ needs' = needs /\ waiting' = waiting
      /\ dispatcher' = dispatcher /\ store' = store /\ known' = known
  BY DEF vars, proxy
<1>2. WalkPart /\ RestPart
  BY Parts
<1>3. PassedAreKnown'
  BY <1>1, <1>2, PassedIs, PassedIsStill DEF WalkPart
<1>4. NeedsAreNew'
  BY <1>1, <1>2 DEF WalkPart, NeedsAreNew
<1>5. (walk = NoWalk \/ walk \in [selector : Selectors, keys : Seq(Slots) \ {<<>>}])'
  BY <1>1, <1>2 DEF WalkPart, NoWalk, Slots
<1>6. WalkPart'
  BY <1>1, <1>2, <1>3, <1>4, <1>5 DEF WalkPart
<1>7. RestPart'
  BY <1>1, <1>2, RestStays
<1>8. QED
  BY <1>6, <1>7, PartsStill

(* The walk's invariant, for every proxy whatever its code, its storage and *)
(* the selectors asked for.                                                 *)
THEOREM WalkHolds == Spec => []WalkInv
<1>1. Init => WalkInv
  BY StartsRight
<1>2. WalkInv /\ [Next]_vars => WalkInv'
  <2> SUFFICES ASSUME WalkInv, [Next]_vars PROVE WalkInv'
    OBVIOUS
  <2>1. CASE Take
    BY <2>1, TakeHolds
  <2>2. CASE Pass
    BY <2>2, PassHolds
  <2>3. CASE Try
    BY <2>3, TryHolds
  <2>4. CASE Fetch
    BY <2>4, FetchHolds
  <2>5. CASE Finish
    BY <2>5, FinishHolds
  <2>6. CASE Ended
    BY <2>6, StutterHolds DEF Ended
  <2>7. CASE UNCHANGED vars
    BY <2>7, StutterHolds
  <2>8. QED
    BY <2>1, <2>2, <2>3, <2>4, <2>5, <2>6, <2>7 DEF Next
<1>3. QED
  BY <1>1, <1>2, PTL DEF Spec

(* A slot that a test says routes a selector does route it on the proxy as  *)
(* it is, and one it says does not, does not: however many of the slots     *)
(* were unfetched and read as zero when ProxyStorage.fetch ran the test.    *)
THEOREM VerdictsAreTheProxys == Spec => []VerdictsHold
<1>1. WalkInv => VerdictsHold
  BY DEF WalkInv
<1>2. QED
  BY <1>1, WalkHolds, PTL

(* fetch never asks the node for what a count read past its list only       *)
(* because the stub's address was its length.                               *)
THEOREM ListIsNotFetched == Spec => []ListNotFetched
<1>1. WalkInv => ListNotFetched
  BY DEF WalkInv
<1>2. QED
  BY <1>1, WalkHolds, PTL

(* Every batch fetch makes brings a slot it did not have: a walk has no     *)
(* more rounds than there are slots.                                        *)
THEOREM EveryRoundFetches == Spec => RoundsGetOn
<1>1. WalkInv /\ [Next]_vars => (waiting # <<>> /\ waiting' = <<>> => known' # known)
  <2> SUFFICES ASSUME WalkInv, [Next]_vars, waiting # <<>>, waiting' = <<>>
               PROVE  known' # known
    OBVIOUS
  <2>1. needs # {} /\ needs \intersect known = {}
    BY DEF WalkInv, NeedsAreNew
  <2>2. ~\E slots : WaitFor(slots)
    <3> SUFFICES ASSUME NEW slots, WaitFor(slots) PROVE FALSE
      OBVIOUS
    <3>1. waiting' = Append(waiting, walk.selector) /\ waiting \in Seq(Selectors)
      BY DEF WaitFor, WalkInv, TypeOK
    <3>2. Len(Append(waiting, walk.selector)) = Len(waiting) + 1 /\ Len(waiting) \in Nat
      BY <3>1
    <3>3. QED
      BY <3>1, <3>2
  <2>3. ~GoOn
    BY <2>2 DEF GoOn
  <2>4. Fetch
    <3>1. waiting' # waiting
      OBVIOUS
    <3>2. ~Take /\ ~Finish /\ ~Ended /\ ~UNCHANGED vars
      BY <3>1 DEF Take, Finish, Ended, vars
    <3>3. ~Pass
      BY <2>3 DEF Pass
    <3>4. ~Try
      <4> DEFINE test == Call(walk.selector, Stubbed(Known, Key))
      <4>1. ~Defer(test)
        BY <2>2 DEF Defer
      <4>2. ~Claim(test)
        BY <3>1 DEF Claim
      <4>3. ~Contest(test) /\ ~Fail(test)
        BY <2>3 DEF Contest, Fail
      <4> HIDE DEF test
      <4>4. Try => Defer(test) \/ Claim(test) \/ Contest(test) \/ Fail(test)
        BY DEF Try, test
      <4>5. QED
        BY <4>1, <4>2, <4>3, <4>4
    <3>5. QED
      BY <3>2, <3>3, <3>4 DEF Next
  <2>5. known' = known \union needs
    BY <2>4 DEF Fetch
  <2>6. QED
    BY <2>1, <2>5
<1>2. QED
  BY <1>1, WalkHolds, PTL DEF Spec, RoundsGetOn

-----------------------------------------------------------------------------
(* How a selector is routed, and where its route lies in its dispatch.     *)

(* How a step that reads its slot ends, and whom it takes for the delegate. *)
LEMMA StepEnds ==
  ASSUME NEW frame \in Frames, frame.end = "running", NEW step \in Steps, ~Skips(frame, step),
         NEW slot \in Slots, NEW word \in Words, NEW next, next = StepOn(frame, step, slot, word)
  PROVE  /\ step.kind \in {"load", "default"} => next.end = "running" /\ next.target = word
         /\ step.kind = "guard" =>
              next.target = frame.target /\ next.end = IF word = "zero" THEN "reverted" ELSE "running"
         /\ step.kind = "unless" =>
              next.target = frame.target /\ next.end = IF word = "zero" THEN "running" ELSE "reverted"
         /\ step.kind = "count" =>
              next.target = frame.target /\ next.end = IF word = "stub" THEN "exhausted" ELSE "running"
         /\ step.kind = "via" => /\ word = "stub" => next.end = "reached"
                                 /\ word = "zero" => next.end = "returned"
                                 /\ word = "live" => next.end = "running" /\ next.target = "zero"
<1> DEFINE read == Read(frame, slot)
<1>1. read \in Frames /\ read.target = frame.target /\ read.end = "running"
  <2> HIDE DEF read
  <2>1. QED
    BY ReadFacts DEF read
<1>2. CASE step.kind \in {"load", "default"}
  <2>1. next = [read EXCEPT !.target = word]
    BY <1>2 DEF StepOn, Skips
  <2> HIDE DEF read
  <2>2. next.end = "running" /\ next.target = word
    BY <1>1, <2>1 DEF Frames
  <2>3. QED
    BY <1>2, <2>2
<1>3. CASE step.kind = "guard"
  <2>1. next = IF word = "zero" THEN [read EXCEPT !.end = "reverted"] ELSE read
    BY <1>3 DEF StepOn, End
  <2> HIDE DEF read
  <2>2. next.target = frame.target /\ next.end = IF word = "zero" THEN "reverted" ELSE "running"
    BY <1>1, <2>1 DEF Frames
  <2>3. QED
    BY <1>3, <2>2
<1>4. CASE step.kind = "unless"
  <2>1. next = IF word = "zero" THEN read ELSE [read EXCEPT !.end = "reverted"]
    BY <1>4 DEF StepOn, End
  <2> HIDE DEF read
  <2>2. next.target = frame.target /\ next.end = IF word = "zero" THEN "running" ELSE "reverted"
    BY <1>1, <2>1 DEF Frames
  <2>3. QED
    BY <1>4, <2>2
<1>5. CASE step.kind = "count"
  <2> DEFINE list == Read(read, ListSlot)
  <2>1. next = IF word = "stub" THEN [list EXCEPT !.end = "exhausted"] ELSE read
    BY <1>5 DEF StepOn, End
  <2>2. list \in Frames /\ list.target = read.target
    <3> HIDE DEF read, list
    <3>1. ListSlot \in Slots \union {NoSlot} /\ list = Read(read, ListSlot)
      BY SlotFacts DEF list
    <3>2. QED
      BY <1>1, <3>1, ReadFacts
  <2> HIDE DEF read, list
  <2>3. next.target = frame.target /\ next.end = IF word = "stub" THEN "exhausted" ELSE "running"
    BY <1>1, <2>1, <2>2 DEF Frames
  <2>4. QED
    BY <1>5, <2>3
<1>6. CASE step.kind = "via"
  <2>1. next = Into(read, word)
    BY <1>6 DEF StepOn
  <2> HIDE DEF read
  <2>2. /\ word = "stub" => next.end = "reached"
        /\ word = "zero" => next.end = "returned"
        /\ word = "live" => next.end = read.end /\ next.target = "zero"
    BY <1>1, <2>1, IntoFacts
  <2>3. QED
    BY <1>1, <1>6, <2>2
<1>7. QED
  BY <1>2, <1>3, <1>4, <1>5, <1>6

(* A step leaves the delegate as it is and the dispatch running.           *)
Passes(step, word) ==
    /\ step.kind \notin {"load", "via"}
    /\ step.kind = "guard" => word # "zero"
    /\ step.kind = "unless" => word = "zero"

(* A call that no longer ends at the stub.                                 *)
Dropped(frame) == frame.end # "reached" /\ (frame.end = "running" => frame.target # "stub")

Holding(frame) == frame.end = "running" /\ frame.target = "stub"

(* A step with the stub for its delegate keeps it or drops it.             *)
LEMMA HeldOrDropped ==
  ASSUME NEW code, NEW s, NEW storage, Callable(code, s, storage), NEW i \in 1 .. Len(code),
         NEW word, word = storage[SlotAt(code, s, i)], word # "stub",
         NEW frame, frame = Run(code, s, storage)[i - 1],
         NEW next, next = Run(code, s, storage)[i]
  PROVE  /\ Holding(frame) /\ Passes(code[i], word) => Holding(next)
         /\ Holding(frame) /\ ~Passes(code[i], word) => Dropped(next)
         /\ Dropped(frame) => Dropped(next)
<1>1. /\ frame \in Frames /\ next \in Frames /\ code[i] \in Steps
      /\ SlotAt(code, s, i) \in Slots /\ word \in Words
      /\ frame.end # "running" \/ Skips(frame, code[i]) => next = frame
      /\ frame.end = "running" /\ ~Skips(frame, code[i]) =>
           /\ next = StepOn(frame, code[i], SlotAt(code, s, i), word)
           /\ Took(frame, next, SlotAt(code, s, i), word)
  BY RunStepFacts
<1>2. code[i].kind \in Kinds
  BY <1>1 DEF Steps
<1>3. CASE Dropped(frame)
  <2>1. CASE next = frame
    BY <1>3, <2>1 DEF Dropped, Holding
  <2>2. CASE frame.end = "running" /\ Took(frame, next, SlotAt(code, s, i), word)
    BY <1>3, <2>2 DEF Dropped, Took, Holding
  <2>3. QED
    BY <1>1, <2>1, <2>2
<1>4. CASE Holding(frame) /\ code[i].kind = "default"
  <2>1. next = frame
    BY <1>1, <1>4 DEF Holding, Skips
  <2>2. Passes(code[i], word)
    BY <1>4 DEF Passes
  <2>3. QED
    BY <1>4, <2>1, <2>2 DEF Holding, Dropped
<1>5. CASE Holding(frame) /\ code[i].kind # "default"
  <2>1. frame.end = "running" /\ ~Skips(frame, code[i]) /\ frame.target = "stub"
    BY <1>5 DEF Holding, Skips
  <2>2. next = StepOn(frame, code[i], SlotAt(code, s, i), word)
    BY <1>1, <2>1
  <2> DEFINE kind == code[i].kind
  <2>3. /\ kind \in {"load", "default"} => next.end = "running" /\ next.target = word
        /\ kind = "guard" =>
             next.target = frame.target /\ next.end = IF word = "zero" THEN "reverted" ELSE "running"
        /\ kind = "unless" =>
             next.target = frame.target /\ next.end = IF word = "zero" THEN "running" ELSE "reverted"
        /\ kind = "count" =>
             next.target = frame.target /\ next.end = IF word = "stub" THEN "exhausted" ELSE "running"
        /\ kind = "via" => /\ word = "stub" => next.end = "reached"
                           /\ word = "zero" => next.end = "returned"
                           /\ word = "live" => next.end = "running" /\ next.target = "zero"
    BY <1>1, <2>1, <2>2, StepEnds
  <2>4. Passes(code[i], word) <=> /\ kind \notin {"load", "via"}
                                  /\ kind = "guard" => word # "zero"
                                  /\ kind = "unless" => word = "zero"
    BY DEF Passes
  <2>5. kind \in {"load", "guard", "unless", "count", "via"} /\ word \in {"zero", "live"}
    BY <1>1, <1>2, <1>5 DEF Kinds, Words
  <2> HIDE DEF kind
  <2>6. QED
    BY <2>1, <2>3, <2>4, <2>5 DEF Holding, Dropped
<1>6. QED
  BY <1>3, <1>4, <1>5 DEF Holding, Dropped

(* So does the dispatch from there on.                                     *)
Keeps(code, s, storage, i, m) == \A l \in i + 1 .. m : Passes(code[l], storage[SlotAt(code, s, l)])

LEMMA HoldsOn ==
  ASSUME NEW code, NEW s, NEW storage, Callable(code, s, storage), NEW i \in 1 .. Len(code),
         \A l \in i + 1 .. Len(code) : storage[SlotAt(code, s, l)] # "stub",
         Holding(Run(code, s, storage)[i])
  PROVE  (Outcome(code, s, storage).end = "reached") <=> Keeps(code, s, storage, i, Len(code))
<1> DEFINE G(m) == Run(code, s, storage)[m]
           K(m) == Keeps(code, s, storage, i, m)
           Good(m) == (K(m) => Holding(G(m))) /\ (~K(m) => Dropped(G(m)))
           U == {n \in Nat : i + n <= Len(code) => Good(i + n)}
<1>1. Len(code) \in Nat /\ i \in Nat
  BY DEF Callable
<1>2. 0 \in U
  <2>1. K(i)
    BY <1>1 DEF Keeps
  <2>2. i + 0 = i
    BY <1>1
  <2> HIDE DEF K, G
  <2>3. Good(i)
    BY <2>1 DEF G
  <2> HIDE DEF Good
  <2>4. QED
    BY <2>2, <2>3
<1>3. ASSUME NEW n \in U
      PROVE  n + 1 \in U
  <2> SUFFICES ASSUME i + (n + 1) <= Len(code)
               PROVE  Good(i + (n + 1))
    BY <1>3
  <2> DEFINE m == i + (n + 1)
             word == storage[SlotAt(code, s, m)]
  <2>1. /\ n \in Nat /\ m \in i + 1 .. Len(code) /\ m \in 1 .. Len(code)
        /\ m - 1 = i + n /\ i + n <= Len(code)
    BY <1>1, <1>3
  <2>2. Good(m - 1)
    <3> HIDE DEF Good
    <3>1. QED
      BY <1>3, <2>1
  <2>3. K(m) <=> K(m - 1) /\ Passes(code[m], word)
    <3>1. i + 1 .. m = (i + 1 .. m - 1) \union {m}
      BY <1>1, <2>1
    <3> HIDE DEF m
    <3>2. QED
      BY <3>1 DEF Keeps
  <2>4. word # "stub"
    BY <2>1
  <2>5. /\ Holding(G(m - 1)) /\ Passes(code[m], word) => Holding(G(m))
        /\ Holding(G(m - 1)) /\ ~Passes(code[m], word) => Dropped(G(m))
        /\ Dropped(G(m - 1)) => Dropped(G(m))
    <3> HIDE DEF m
    <3>1. QED
      BY <2>1, <2>4, HeldOrDropped
  <2> HIDE DEF K, G, m, word
  <2>6. Good(m)
    BY <2>2, <2>3, <2>5
  <2>7. QED
    BY <2>6 DEF m
<1>4. U = Nat
  <2> HIDE DEF U
  <2>1. QED
    BY <1>2, <1>3, Inductive DEF U
<1>5. Good(Len(code))
  <2>1. PICK n \in Nat : i + n = Len(code)
    <3>1. Len(code) - i \in Nat /\ i + (Len(code) - i) = Len(code)
      BY <1>1
    <3>2. QED
      BY <3>1
  <2>2. n \in U
    BY <1>4, <2>1
  <2> HIDE DEF Good
  <2>3. i + n <= Len(code) => Good(i + n)
    BY <2>2
  <2>4. QED
    BY <1>1, <2>1, <2>3
<1> DEFINE last == G(Len(code))
           call == Outcome(code, s, storage)
<1>6. last \in Frames /\ call = Completed(last)
  <2>1. Len(code) \in 0 .. Len(code)
    BY <1>1
  <2>2. last \in Frames
    BY <2>1, RunFrames
  <2>3. call = Completed(last)
    BY DEF Outcome
  <2>4. QED
    BY <2>2, <2>3
<1>7. Holding(last) => call.end = "reached"
  <2> HIDE DEF last, call
  <2> SUFFICES ASSUME Holding(last) PROVE call.end = "reached"
    OBVIOUS
  <2>1. call = Into(last, "stub")
    BY <1>6 DEF Holding, Completed, Delegate
  <2>2. "stub" \in Words
    BY DEF Words
  <2>3. QED
    BY <1>6, <2>1, <2>2, IntoFacts
<1>8. Dropped(last) => call.end # "reached"
  <2> HIDE DEF last, call
  <2>1. last.end # "running" => call = last
    BY <1>6, CompletedFacts
  <2>2. last.end = "running" => (call.end = "reached" => last.target = "stub")
    BY <1>6, CompletedFacts
  <2>3. QED
    BY <2>1, <2>2 DEF Dropped
<1>9. QED
  <2> HIDE DEF last, call, G, K
  <2>1. (K(Len(code)) => Holding(last)) /\ (~K(Len(code)) => Dropped(last))
    BY <1>5 DEF last
  <2>2. (call.end = "reached") <=> K(Len(code))
    BY <1>7, <1>8, <2>1 DEF Holding, Dropped
  <2>3. QED
    BY <2>2 DEF K, call

(* A proxy with the stub in one of its slots.                              *)
LEMMA StubbedFacts ==
  ASSUME NEW code, NEW s, NEW storage \in [Slots -> {"zero", "live"}], Callable(code, s, storage),
         NEW key \in Slots, NEW T, T = Stubbed(storage, key)
  PROVE  /\ Callable(code, s, T) /\ T[key] = "stub"
         /\ \A k \in Slots \ {key} : T[k] = storage[k] /\ T[k] # "stub"
<1>1. /\ T \in [Slots -> Words] /\ T[key] = "stub"
      /\ \A k \in Slots \ {key} : T[k] = storage[k] /\ T[k] # "stub"
  BY DEF Stubbed, Words
<1>2. QED
  BY <1>1 DEF Callable

LEMMA StubbedRuns ==
  ASSUME NEW code, NEW s, NEW storage \in [Slots -> {"zero", "live"}], Callable(code, s, storage),
         NEW key \in Slots, NEW T, T = Stubbed(storage, key),
         NEW n \in 0 .. Len(code), \A l \in 1 .. n : SlotAt(code, s, l) # key
  PROVE  /\ Run(code, s, T)[n] = Run(code, s, storage)[n]
         /\ Lost(Run(code, s, storage)[n])
<1> DEFINE F(m) == Run(code, s, storage)[m]
           G(m) == Run(code, s, T)[m]
           U == {m \in Nat : m <= n => G(m) = F(m) /\ Lost(F(m))}
<1>1. Len(code) \in Nat
  BY DEF Callable
<1>2. Callable(code, s, T) /\ \A k \in Slots \ {key} : T[k] = storage[k]
  BY StubbedFacts
<1>3. 0 \in U
  <2>1. G(0) = Start /\ F(0) = Start
    BY <1>1, RunIs
  <2>2. Lost(Start)
    BY DEF Lost, Start
  <2> HIDE DEF F, G
  <2>3. QED
    BY <2>1, <2>2
<1>4. ASSUME NEW m \in U
      PROVE  m + 1 \in U
  <2> SUFFICES ASSUME m + 1 <= n
               PROVE  G(m + 1) = F(m + 1) /\ Lost(F(m + 1))
    BY <1>4
  <2>1. m + 1 \in 1 .. Len(code) /\ m + 1 \in 1 .. n /\ (m + 1) - 1 = m /\ m <= n
    BY <1>1, <1>4
  <2>2. SlotAt(code, s, m + 1) \in Slots \ {key}
    BY <2>1, SlotAtFacts DEF Callable
  <2>3. T[SlotAt(code, s, m + 1)] = storage[SlotAt(code, s, m + 1)]
    BY <1>2, <2>2
  <2>4. G(m) = F(m) /\ Lost(F(m))
    BY <1>4, <2>1
  <2>5. G(m + 1) = Further(code, s, T, m + 1, G(m)) /\ F(m + 1) = Further(code, s, storage, m + 1, F(m))
    BY <1>1, <2>1, RunIs
  <2>6. Further(code, s, T, m + 1, G(m)) = Further(code, s, storage, m + 1, F(m))
    <3> HIDE DEF F, G
    <3>1. QED
      BY <2>3, <2>4 DEF Further
  <2>7. Lost(F(m + 1))
    <3>1. storage[SlotAt(code, s, m + 1)] # "stub"
      BY <2>2
    <3>2. QED
      BY <2>1, <2>4, <3>1, LostStays
  <2>8. QED
    BY <2>5, <2>6, <2>7
<1>5. n \in U
  <2>1. U = Nat
    <3> HIDE DEF U
    <3>1. QED
      BY <1>3, <1>4, Inductive DEF U
  <2>2. QED
    BY <1>1, <2>1
<1>6. QED
  BY <1>1, <1>5

(* A dispatch that has dropped the stub, with no stub still to read.       *)
LEMMA DroppedOn ==
  ASSUME NEW code, NEW s, NEW storage, Callable(code, s, storage), NEW i \in 0 .. Len(code),
         \A l \in i + 1 .. Len(code) : storage[SlotAt(code, s, l)] # "stub",
         Dropped(Run(code, s, storage)[i])
  PROVE  Outcome(code, s, storage).end # "reached"
<1> DEFINE G(m) == Run(code, s, storage)[m]
           U == {n \in Nat : i + n <= Len(code) => Dropped(G(i + n))}
<1>1. Len(code) \in Nat /\ i \in Nat
  BY DEF Callable
<1>2. 0 \in U
  <2>1. i + 0 = i
    BY <1>1
  <2> HIDE DEF G
  <2>2. QED
    BY <2>1 DEF G
<1>3. ASSUME NEW n \in U
      PROVE  n + 1 \in U
  <2> SUFFICES ASSUME i + (n + 1) <= Len(code)
               PROVE  Dropped(G(i + (n + 1)))
    BY <1>3
  <2> DEFINE m == i + (n + 1)
             word == storage[SlotAt(code, s, m)]
  <2>1. /\ n \in Nat /\ m \in i + 1 .. Len(code) /\ m \in 1 .. Len(code)
        /\ m - 1 = i + n /\ i + n <= Len(code)
    BY <1>1, <1>3
  <2>2. Dropped(G(m - 1))
    <3> HIDE DEF G
    <3>1. QED
      BY <1>3, <2>1
  <2>3. word # "stub"
    BY <2>1
  <2>4. Dropped(G(m))
    <3> HIDE DEF m
    <3>1. QED
      BY <2>1, <2>2, <2>3, HeldOrDropped
  <2>5. QED
    BY <2>4
<1>4. PICK n \in Nat : i + n = Len(code)
  <2>1. Len(code) - i \in Nat /\ i + (Len(code) - i) = Len(code)
    BY <1>1
  <2>2. QED
    BY <2>1
<1>5. n \in U
  <2> HIDE DEF U
  <2>1. QED
    BY <1>2, <1>3, Inductive DEF U
<1> DEFINE last == G(Len(code))
           call == Outcome(code, s, storage)
<1>6. Dropped(last)
  BY <1>1, <1>4, <1>5
<1>7. last \in Frames /\ call = Completed(last)
  <2>1. Len(code) \in 0 .. Len(code)
    BY <1>1
  <2>2. last \in Frames
    BY <2>1, RunFrames
  <2>3. call = Completed(last)
    BY DEF Outcome
  <2>4. QED
    BY <2>2, <2>3
<1> HIDE DEF last, call
<1>8. last.end # "running" => call = last
  BY <1>7, CompletedFacts
<1>9. last.end = "running" => (call.end = "reached" => last.target = "stub")
  BY <1>7, CompletedFacts
<1>10. call.end # "reached"
  BY <1>6, <1>8, <1>9 DEF Dropped
<1>11. QED
  BY <1>10 DEF call

(* The slots that route a selector: those of a via the dispatch comes to,  *)
(* and those of a load or default after which nothing takes over.          *)
LEMMA LeadsIs ==
  ASSUME NEW code, NEW s, NEW storage \in [Slots -> {"zero", "live"}], Callable(code, s, storage),
         NEW i \in 1 .. Len(code), NEW frame, frame = Run(code, s, storage)[i - 1]
  PROVE  Leads(code, storage, s, SlotAt(code, s, i)) <=>
           /\ frame.end = "running" /\ ~Skips(frame, code[i])
           /\ \/ code[i].kind = "via"
              \/ code[i].kind \in {"load", "default"} /\ Keeps(code, s, storage, i, Len(code))
<1> DEFINE key == SlotAt(code, s, i)
           T == Stubbed(storage, key)
           next == Run(code, s, T)[i]
           call == Outcome(code, s, T)
<1>1. Len(code) \in Nat /\ i \in Nat
  BY DEF Callable
<1>2. \A l \in 1 .. Len(code) : SlotAt(code, s, l) \in Slots /\ (l # i => SlotAt(code, s, l) # key)
  BY SlotAtFacts DEF Callable
<1>3. key \in Slots
  BY <1>2
<1>4. Leads(code, storage, s, key) <=> call.end = "reached"
  BY DEF Leads, Reached
<1> HIDE DEF key
<1>5. /\ Callable(code, s, T) /\ T[key] = "stub"
      /\ \A k \in Slots \ {key} : T[k] = storage[k] /\ T[k] # "stub"
  BY <1>3, StubbedFacts
<1>6. T = Stubbed(storage, key)
  OBVIOUS
<1> HIDE DEF T
<1>7. Run(code, s, T)[i - 1] = frame /\ Lost(frame)
  <2>1. i - 1 \in 0 .. Len(code) /\ \A l \in 1 .. i - 1 : SlotAt(code, s, l) # key
    BY <1>1, <1>2
  <2>2. QED
    BY <1>3, <1>6, <2>1, StubbedRuns
<1>8. \A l \in i + 1 .. Len(code) :
        T[SlotAt(code, s, l)] = storage[SlotAt(code, s, l)] /\ T[SlotAt(code, s, l)] # "stub"
  <2> SUFFICES ASSUME NEW l \in i + 1 .. Len(code)
               PROVE  SlotAt(code, s, l) \in Slots \ {key}
    BY <1>5
  <2>1. l \in 1 .. Len(code) /\ l # i
    BY <1>1
  <2>2. QED
    BY <1>2, <2>1
<1>9. /\ frame \in Frames /\ code[i] \in Steps
      /\ frame.end # "running" \/ Skips(frame, code[i]) => next = frame
      /\ frame.end = "running" /\ ~Skips(frame, code[i]) => next = StepOn(frame, code[i], key, "stub")
  BY <1>5, <1>7, RunStepFacts DEF key
<1>10. code[i].kind \in Kinds
  BY <1>9 DEF Steps
<1>11. Dropped(next) => call.end # "reached"
  <2>1. i \in 0 .. Len(code)
    BY <1>1
  <2>2. QED
    BY <1>5, <1>8, <2>1, DroppedOn
<1>12. Keeps(code, s, T, i, Len(code)) <=> Keeps(code, s, storage, i, Len(code))
  BY <1>8 DEF Keeps
<1>13. CASE frame.end # "running" \/ Skips(frame, code[i])
  <2>1. Dropped(next)
    BY <1>7, <1>9, <1>13 DEF Dropped, Lost
  <2>2. QED
    BY <1>4, <1>11, <1>13, <2>1 DEF key
<1>14. CASE frame.end = "running" /\ ~Skips(frame, code[i])
  <2> DEFINE kind == code[i].kind
  <2>1. /\ kind \in {"load", "default"} => next.end = "running" /\ next.target = "stub"
        /\ kind = "guard" => next.target = frame.target /\ next.end = "running"
        /\ kind = "unless" => next.target = frame.target /\ next.end = "reverted"
        /\ kind = "count" => next.target = frame.target /\ next.end = "exhausted"
        /\ kind = "via" => next.end = "reached"
    <3>1. next = StepOn(frame, code[i], key, "stub") /\ "stub" \in Words
      BY <1>9, <1>14 DEF Words
    <3> HIDE DEF next
    <3>2. QED
      BY <1>3, <1>9, <1>14, <3>1, StepEnds
  <2>2. CASE kind \in {"guard", "unless", "count"}
    <3>1. Dropped(next)
      <4> HIDE DEF kind, next
      <4>1. QED
        BY <1>7, <2>1, <2>2 DEF Dropped, Lost
    <3>2. kind # "via" /\ kind \notin {"load", "default"}
      BY <2>2
    <3>3. QED
      BY <1>4, <1>11, <3>1, <3>2 DEF key
  <2>3. CASE kind = "via"
    <3>1. i \in 0 .. Len(code) /\ next.end # "running"
      BY <1>1, <2>1, <2>3
    <3>2. call = next
      BY <1>5, <3>1, RunEnds
    <3>3. call.end = "reached"
      BY <2>1, <2>3, <3>2
    <3>4. QED
      BY <1>4, <1>14, <2>3, <3>3 DEF key
  <2>4. CASE kind \in {"load", "default"}
    <3>1. Holding(next)
      BY <2>1, <2>4 DEF Holding
    <3>2. (call.end = "reached") <=> Keeps(code, s, T, i, Len(code))
      BY <1>5, <1>8, <3>1, HoldsOn
    <3>3. kind # "via"
      BY <2>4
    <3>4. QED
      BY <1>4, <1>12, <1>14, <2>4, <3>2, <3>3 DEF key
  <2>5. QED
    BY <1>10, <2>2, <2>3, <2>4 DEF Kinds
<1>15. QED
  BY <1>13, <1>14

(* What a step that leaves a plain dispatch running did.                   *)
LEMMA PlainStep ==
  ASSUME NEW code, NEW s, NEW storage \in [Slots -> {"zero", "live"}], Callable(code, s, storage),
         NEW l \in 1 .. Len(code), NEW frame, frame = Run(code, s, storage)[l - 1],
         NEW next, next = Run(code, s, storage)[l], next.end = "running"
  PROVE  /\ frame.end = "running"
         /\ code[l].kind \notin {"load", "via"} =>
              /\ Passes(code[l], storage[SlotAt(code, s, l)])
              /\ frame.target # "zero" => next.target # "zero"
<1> DEFINE slot == SlotAt(code, s, l)
           word == storage[slot]
           kind == code[l].kind
<1>1. /\ frame \in Frames /\ code[l] \in Steps /\ slot \in Slots /\ word \in Words
      /\ frame.end # "running" \/ Skips(frame, code[l]) => next = frame
      /\ frame.end = "running" /\ ~Skips(frame, code[l]) => next = StepOn(frame, code[l], slot, word)
  BY RunStepFacts
<1>2. word \in {"zero", "live"} /\ kind \in Kinds
  BY <1>1 DEF Steps
<1>3. frame.end = "running"
  BY <1>1
<1>4. CASE Skips(frame, code[l])
  <2>1. next = frame /\ kind = "default"
    BY <1>1, <1>4 DEF Skips
  <2>2. QED
    BY <1>3, <2>1 DEF Passes
<1>5. CASE ~Skips(frame, code[l])
  <2>1. next = StepOn(frame, code[l], slot, word)
    BY <1>1, <1>3, <1>5
  <2> HIDE DEF slot, word
  <2>2. /\ kind = "guard" =>
             next.target = frame.target /\ next.end = IF word = "zero" THEN "reverted" ELSE "running"
        /\ kind = "unless" =>
             next.target = frame.target /\ next.end = IF word = "zero" THEN "running" ELSE "reverted"
        /\ kind = "count" =>
             next.target = frame.target /\ next.end = IF word = "stub" THEN "exhausted" ELSE "running"
    BY <1>1, <1>3, <1>5, <2>1, StepEnds
  <2>3. kind = "default" => frame.target = "zero"
    BY <1>5 DEF Skips
  <2>4. Passes(code[l], word) <=> /\ kind \notin {"load", "via"}
                                  /\ kind = "guard" => word # "zero"
                                  /\ kind = "unless" => word = "zero"
    BY DEF Passes
  <2> HIDE DEF kind
  <2>5. kind \notin {"load", "via"} =>
          Passes(code[l], word) /\ (frame.target # "zero" => next.target # "zero")
    BY <1>2, <2>2, <2>3, <2>4 DEF Kinds
  <2>6. QED
    BY <1>3, <2>5 DEF kind, word, slot
<1>6. QED
  BY <1>4, <1>5

(* What it left behind is running, and has met every condition.            *)
LEMMA PlainRun ==
  ASSUME NEW code, NEW s, NEW storage \in [Slots -> {"zero", "live"}], Callable(code, s, storage),
         NEW j \in 0 .. Len(code), Run(code, s, storage)[j].end = "running"
  PROVE  \A l \in 1 .. j :
           /\ Run(code, s, storage)[l - 1].end = "running"
           /\ code[l].kind \notin {"load", "via"} =>
                /\ Passes(code[l], storage[SlotAt(code, s, l)])
                /\ Run(code, s, storage)[l - 1].target # "zero" => Run(code, s, storage)[l].target # "zero"
<1> DEFINE F(m) == Run(code, s, storage)[m]
           U == {n \in Nat : n <= j => F(j - n).end = "running"}
<1>1. Len(code) \in Nat /\ j \in Nat
  BY DEF Callable
<1>2. 0 \in U
  <2>1. j - 0 = j
    BY <1>1
  <2> HIDE DEF F
  <2>2. QED
    BY <2>1 DEF F
<1>3. ASSUME NEW n \in U
      PROVE  n + 1 \in U
  <2> SUFFICES ASSUME n + 1 <= j
               PROVE  F(j - (n + 1)).end = "running"
    BY <1>3
  <2>1. PICK l \in 1 .. Len(code) : l = j - n /\ l - 1 = j - (n + 1)
    <3>1. j - n \in 1 .. Len(code) /\ (j - n) - 1 = j - (n + 1)
      BY <1>1, <1>3
    <3>2. QED
      BY <3>1
  <2>2. F(l).end = "running"
    BY <1>1, <1>3, <2>1
  <2>3. F(l - 1).end = "running"
    BY <2>2, PlainStep
  <2>4. QED
    BY <2>1, <2>3
<1>4. U = Nat
  <2> HIDE DEF U
  <2>1. QED
    BY <1>2, <1>3, Inductive DEF U
<1>5. ASSUME NEW l \in 1 .. j
      PROVE  /\ F(l - 1).end = "running"
             /\ code[l].kind \notin {"load", "via"} =>
                  /\ Passes(code[l], storage[SlotAt(code, s, l)])
                  /\ F(l - 1).target # "zero" => F(l).target # "zero"
  <2>1. PICK n \in Nat : l = j - n /\ n <= j
    <3>1. j - l \in Nat /\ l = j - (j - l) /\ j - l <= j
      BY <1>1
    <3>2. QED
      BY <3>1
  <2>2. n \in U
    BY <1>4
  <2>3. F(l).end = "running" /\ l \in 1 .. Len(code)
    BY <1>1, <2>1, <2>2
  <2>4. QED
    BY <2>3, PlainStep
<1>6. QED
  BY <1>5

(* A delegate is kept until a load or a via.                               *)
LEMMA DelegateKept ==
  ASSUME NEW code, NEW s, NEW storage \in [Slots -> {"zero", "live"}], Callable(code, s, storage),
         NEW j \in 0 .. Len(code), Run(code, s, storage)[j].end = "running",
         NEW i \in 0 .. j, Run(code, s, storage)[i].target # "zero",
         \A l \in i + 1 .. j : code[l].kind \notin {"load", "via"}
  PROVE  Run(code, s, storage)[j].target # "zero"
<1> DEFINE F(m) == Run(code, s, storage)[m]
           U == {n \in Nat : i + n <= j => F(i + n).target # "zero"}
<1>1. Len(code) \in Nat /\ j \in Nat /\ i \in Nat
  BY DEF Callable
<1>2. 0 \in U
  <2>1. i + 0 = i
    BY <1>1
  <2> HIDE DEF F
  <2>2. QED
    BY <2>1 DEF F
<1>3. ASSUME NEW n \in U
      PROVE  n + 1 \in U
  <2> SUFFICES ASSUME i + (n + 1) <= j
               PROVE  F(i + (n + 1)).target # "zero"
    BY <1>3
  <2>1. PICK l \in i + 1 .. j : l = i + (n + 1) /\ l - 1 = i + n /\ l \in 1 .. j
    <3>1. i + (n + 1) \in i + 1 .. j /\ (i + (n + 1)) - 1 = i + n /\ i + (n + 1) \in 1 .. j
      BY <1>1, <1>3
    <3>2. QED
      BY <3>1
  <2>2. F(l - 1).target # "zero"
    BY <1>1, <1>3, <2>1
  <2>3. code[l].kind \notin {"load", "via"}
    OBVIOUS
  <2>4. F(l).target # "zero"
    BY <2>1, <2>2, <2>3, PlainRun
  <2>5. QED
    BY <2>1, <2>4
<1>4. PICK n \in Nat : i + n = j
  <2>1. j - i \in Nat /\ i + (j - i) = j
    BY <1>1
  <2>2. QED
    BY <2>1
<1>5. n \in U
  <2> HIDE DEF U
  <2>1. QED
    BY <1>2, <1>3, Inductive DEF U
<1>6. QED
  BY <1>1, <1>4, <1>5

(* Two selectors' dispatches compared: if one is routed at a step, every   *)
(* selector routed further on is routed at that step too.                  *)
LEMMA RoutedBefore ==
  ASSUME NEW code, NEW storage \in [Slots -> {"zero", "live"}],
         NEW s, Callable(code, s, storage), NEW t, Callable(code, t, storage),
         NEW j \in 1 .. Len(code), NEW i \in 1 .. j - 1,
         Leads(code, storage, t, SlotAt(code, t, i)),
         Leads(code, storage, s, SlotAt(code, s, j))
  PROVE  Leads(code, storage, s, SlotAt(code, s, i))
<1> DEFINE F(m) == Run(code, s, storage)[m]
           G(m) == Run(code, t, storage)[m]
<1>1. /\ Len(code) \in Nat /\ i \in 1 .. Len(code) /\ i \in Nat /\ j \in Nat /\ i < j
      /\ i - 1 \in Nat /\ j - 1 \in Nat /\ i - 1 \in 0 .. j - 1 /\ j - 1 \in 0 .. Len(code) /\ i \in 1 .. j - 1
  BY DEF Callable
<1>2. /\ G(i - 1).end = "running"
      /\ \/ code[i].kind = "via"
         \/ code[i].kind \in {"load", "default"} /\ Keeps(code, t, storage, i, Len(code))
  BY <1>1, LeadsIs
<1>3. /\ F(j - 1).end = "running" /\ ~Skips(F(j - 1), code[j])
      /\ \/ code[j].kind = "via"
         \/ code[j].kind \in {"load", "default"} /\ Keeps(code, s, storage, j, Len(code))
  BY LeadsIs
<1>4. \A l \in 1 .. j - 1 :
        /\ F(l - 1).end = "running"
        /\ code[l].kind \notin {"load", "via"} => Passes(code[l], storage[SlotAt(code, s, l)])
  BY <1>1, <1>3, PlainRun
<1>5. F(i - 1).end = "running"
  BY <1>1, <1>4
<1>6. CASE code[i].kind = "via"
  <2>1. ~Skips(F(i - 1), code[i])
    BY <1>6 DEF Skips
  <2>2. QED
    BY <1>1, <1>5, <1>6, <2>1, LeadsIs
<1>7. CASE code[i].kind \in {"load", "default"} /\ Keeps(code, t, storage, i, Len(code))
  <2>1. \A l \in i + 1 .. Len(code) : code[l].kind \notin {"load", "via"}
    BY <1>7 DEF Keeps, Passes
  <2>2. j \in i + 1 .. Len(code)
    BY <1>1
  <2>3. code[j].kind = "default" /\ Keeps(code, s, storage, j, Len(code))
    BY <1>3, <2>1, <2>2
  <2>4. F(j - 1).target = "zero"
    BY <1>3, <2>3 DEF Skips
  <2>5. Keeps(code, s, storage, i, Len(code))
    <3> SUFFICES ASSUME NEW l \in i + 1 .. Len(code)
                 PROVE  Passes(code[l], storage[SlotAt(code, s, l)])
      BY DEF Keeps
    <3>1. CASE l < j
      <4>1. l \in 1 .. j - 1
        BY <1>1, <3>1
      <4>2. QED
        BY <1>4, <2>1, <4>1
    <3>2. CASE l = j
      BY <2>3, <3>2 DEF Passes
    <3>3. CASE l > j
      <4>1. l \in j + 1 .. Len(code)
        BY <1>1, <3>3
      <4>2. QED
        BY <2>3, <4>1 DEF Keeps
    <3>4. QED
      BY <1>1, <3>1, <3>2, <3>3
  <2>6. ~Skips(F(i - 1), code[i])
    <3> SUFFICES ASSUME F(i - 1).target # "zero", code[i].kind = "default"
                 PROVE  FALSE
      BY DEF Skips
    <3>1. \A l \in (i - 1) + 1 .. j - 1 : code[l].kind \notin {"load", "via"}
      <4> SUFFICES ASSUME NEW l \in (i - 1) + 1 .. j - 1
                   PROVE  code[l].kind \notin {"load", "via"}
        OBVIOUS
      <4>1. l = i \/ l \in i + 1 .. Len(code)
        BY <1>1
      <4>2. QED
        BY <2>1, <4>1
    <3>2. F(j - 1).target # "zero"
      BY <1>1, <1>3, <3>1, DelegateKept
    <3>3. QED
      BY <2>4, <3>2
  <2>7. QED
    BY <1>1, <1>5, <1>7, <2>5, <2>6, LeadsIs
<1>8. QED
  BY <1>2, <1>6, <1>7

(* The call's trace goes on from each of the run's.                        *)
LEMMA EndExtends ==
  ASSUME NEW code, NEW s, NEW storage, Callable(code, s, storage), NEW i \in 0 .. Len(code),
         NEW call, call = Outcome(code, s, storage)
  PROVE  Extends(Run(code, s, storage)[i].events, call.events)
<1>1. Len(code) \in i .. Len(code)
  BY DEF Callable
<1>2. Extends(Run(code, s, storage)[i].events, Run(code, s, storage)[Len(code)].events)
  BY <1>1, RunExtends
<1>3. Extends(Run(code, s, storage)[Len(code)].events, call.events)
  BY OutcomeFacts
<1>4. QED
  BY <1>2, <1>3, ExtendsOn

(* What routes a selector is a slot of a step, and its dispatch reads it.  *)
LEMMA RouteIsRead ==
  ASSUME NEW code, NEW s, NEW storage \in [Slots -> {"zero", "live"}], Callable(code, s, storage),
         NEW key \in Slots, Leads(code, storage, s, key),
         NEW reads, reads = ReadsOf(code, s, storage)
  PROVE  /\ \E i \in 1 .. Len(code) : key = SlotAt(code, s, i)
         /\ \E n \in 1 .. Len(reads) : reads[n] = key
<1> DEFINE T == Stubbed(storage, key)
           call == Outcome(code, s, T)
           plain == Outcome(code, s, storage)
<1>1. Len(code) \in Nat
  BY DEF Callable
<1>2. /\ Callable(code, s, T)
      /\ \A k \in Slots \ {key} : T[k] = storage[k] /\ T[k] # "stub"
  BY StubbedFacts
<1>3. call.end = "reached"
  BY DEF Leads, Reached
<1>4. PICK i \in 1 .. Len(code) : key = SlotAt(code, s, i)
  <2> SUFFICES ASSUME \A i \in 1 .. Len(code) : SlotAt(code, s, i) # key
               PROVE  FALSE
    OBVIOUS
  <2>1. Len(code) \in 0 .. Len(code)
    BY <1>1
  <2>2. Run(code, s, T)[Len(code)] = Run(code, s, storage)[Len(code)] /\ Lost(Run(code, s, storage)[Len(code)])
    BY <2>1, StubbedRuns
  <2>3. Dropped(Run(code, s, T)[Len(code)])
    BY <2>2 DEF Dropped, Lost
  <2>4. \A l \in Len(code) + 1 .. Len(code) : T[SlotAt(code, s, l)] # "stub"
    BY <1>1
  <2>5. call.end # "reached"
    BY <1>2, <2>1, <2>3, <2>4, DroppedOn
  <2>6. QED
    BY <1>3, <2>5
<1> DEFINE frame == Run(code, s, storage)[i - 1]
           next == Run(code, s, storage)[i]
<1>5. frame.end = "running" /\ ~Skips(frame, code[i])
  BY <1>4, LeadsIs
<1>6. Took(frame, next, key, storage[key])
  BY <1>4, <1>5, RunStepFacts
<1>7. Len(plain.events) \in Nat /\ Extends(next.events, plain.events)
  <2>1. Len(plain.events) \in Nat
    BY OutcomeFacts
  <2>2. Extends(next.events, plain.events)
    BY EndExtends
  <2>3. QED
    BY <2>1, <2>2
<1>8. \E p \in 1 .. Len(plain.events) : plain.events[p].slot = key
  <2> HIDE DEF frame, next, plain
  <2>1. /\ Len(frame.events) \in Nat /\ Len(next.events) \in {Len(frame.events) + 1, Len(frame.events) + 2}
        /\ next.events[Len(frame.events) + 1].slot = key
    BY <1>6 DEF Took
  <2>2. /\ Len(next.events) <= Len(plain.events)
        /\ \A p \in 1 .. Len(next.events) : plain.events[p] = next.events[p]
    BY <1>7 DEF Extends
  <2>3. Len(frame.events) + 1 \in 1 .. Len(next.events) /\ Len(frame.events) + 1 \in 1 .. Len(plain.events)
    BY <1>7, <2>1, <2>2
  <2>4. QED
    BY <2>1, <2>2, <2>3
<1>9. \A p \in 1 .. Len(plain.events) :
        plain.events[p].slot \in Slots => \E l \in 1 .. Len(reads) : reads[l] = plain.events[p].slot
  BY ReadsAre
<1>10. QED
  BY <1>4, <1>8, <1>9

(* On a storage that agrees on all it reads, a call is the same.           *)
LEMMA SameCall ==
  ASSUME NEW code, NEW s, NEW A, NEW B, Callable(code, s, A), Callable(code, s, B),
         NEW call, call = Outcome(code, s, A),
         \A q \in 1 .. Len(call.events) :
            call.events[q].slot \in Slots => A[call.events[q].slot] = B[call.events[q].slot]
  PROVE  Outcome(code, s, B) = call
<1> DEFINE p == Len(call.events) + 1
           last == Run(code, s, A)[Len(code)]
<1>1. Len(code) \in Nat
  BY DEF Callable
<1>2. Len(last.events) \in Nat /\ Len(call.events) \in Nat /\ Extends(last.events, call.events)
  BY OutcomeFacts
<1>3. p \in Nat /\ Len(last.events) < p
  BY <1>2 DEF Extends
<1>4. AgreeBefore(call.events, p, A, B)
  BY DEF AgreeBefore
<1> HIDE DEF p
<1>5. SameUntil(code, s, A, B, p)
  BY <1>3, <1>4, AgreeingRuns
<1>6. last = Run(code, s, B)[Len(code)]
  BY <1>1, <1>3, <1>5 DEF SameUntil
<1>7. QED
  BY <1>6 DEF Outcome

(* On one that agrees on what it reads before a slot, so is the call so far. *)
LEMMA SameTrace ==
  ASSUME NEW code, NEW s, NEW A, NEW B, Callable(code, s, A), Callable(code, s, B), NoStub(A),
         NEW call, call = Outcome(code, s, A), NEW other, other = Outcome(code, s, B),
         NEW at \in 1 .. Len(call.events), call.events[at].slot \in Slots,
         AgreeBefore(call.events, at, A, B)
  PROVE  /\ at \in 1 .. Len(other.events) /\ other.events[at].slot = call.events[at].slot
         /\ \A q \in 1 .. at - 1 : other.events[q] = call.events[q]
<1> DEFINE last == Run(code, s, A)[Len(code)]
<1>1. Len(code) \in Nat
  BY DEF Callable
<1>2. Len(last.events) \in Nat /\ Len(call.events) \in Nat /\ Len(other.events) \in Nat
  BY OutcomeFacts
<1>3. at \in Nat /\ SameUntil(code, s, A, B, at)
  <2>1. at \in Nat
    BY <1>2
  <2>2. QED
    BY <2>1, AgreeingRuns
<1>4. CASE at > Len(last.events)
  <2>1. last = Run(code, s, B)[Len(code)]
    BY <1>1, <1>2, <1>3, <1>4 DEF SameUntil
  <2>2. other = call
    BY <2>1 DEF Outcome
  <2>3. QED
    BY <2>2
<1>5. CASE at <= Len(Run(code, s, A)[Len(code)].events)
  <2>1. PICK j \in 1 .. Len(code) :
          /\ Run(code, s, A)[j - 1].end = "running"
          /\ ~Skips(Run(code, s, A)[j - 1], code[j])
          /\ Len(Run(code, s, A)[j - 1].events) + 1 = at
          /\ SlotAt(code, s, j) = call.events[at].slot
    <3>1. at <= Len(Run(code, s, A)[Len(code)].events)
      BY <1>5
    <3>2. QED
      BY <3>1, StepReads
  <2> DEFINE frame == Run(code, s, A)[j - 1]
             next == Run(code, s, A)[j]
             same == Run(code, s, B)[j]
  <2>2. j - 1 \in 0 .. Len(code) /\ frame \in Frames
    <3>1. j - 1 \in 0 .. Len(code)
      BY <1>1
    <3>2. QED
      BY <3>1, RunFrames
  <2>3. Len(frame.events) \in Nat
    BY <2>2 DEF Frames
  <2>4. Run(code, s, B)[j - 1] = frame
    BY <1>3, <2>1, <2>2, <2>3 DEF SameUntil
  <2>5. Took(frame, next, SlotAt(code, s, j), A[SlotAt(code, s, j)])
    BY <2>1, RunStepFacts
  <2>6. Took(frame, same, SlotAt(code, s, j), B[SlotAt(code, s, j)])
    BY <2>1, <2>4, RunStepFacts
  <2>7. Extends(next.events, call.events) /\ Extends(same.events, other.events)
    BY EndExtends
  <2> HIDE DEF frame, next, same
  <2>8. /\ Len(next.events) \in {Len(frame.events) + 1, Len(frame.events) + 2}
        /\ \A p \in 1 .. Len(frame.events) : next.events[p] = frame.events[p]
    BY <2>5 DEF Took
  <2>9. /\ Len(same.events) \in {Len(frame.events) + 1, Len(frame.events) + 2}
        /\ \A p \in 1 .. Len(frame.events) : same.events[p] = frame.events[p]
        /\ same.events[Len(frame.events) + 1].slot = SlotAt(code, s, j)
    BY <2>6 DEF Took
  <2>10. /\ \A p \in 1 .. Len(next.events) : call.events[p] = next.events[p]
         /\ Len(same.events) <= Len(other.events)
         /\ \A p \in 1 .. Len(same.events) : other.events[p] = same.events[p]
    BY <2>7 DEF Extends
  <2>11. Len(frame.events) + 1 = at
    BY <2>1 DEF frame
  <2>12. at \in 1 .. Len(same.events) /\ at \in 1 .. Len(other.events)
    BY <1>2, <2>3, <2>9, <2>10, <2>11
  <2>13. \A q \in 1 .. at - 1 : other.events[q] = call.events[q]
    <3> SUFFICES ASSUME NEW q \in 1 .. at - 1 PROVE other.events[q] = call.events[q]
      OBVIOUS
    <3>1. q \in 1 .. Len(frame.events)
      BY <1>3, <2>3, <2>11
    <3>2. q \in 1 .. Len(next.events) /\ q \in 1 .. Len(same.events)
      BY <2>3, <2>8, <2>9, <3>1
    <3>3. other.events[q] = frame.events[q]
      BY <2>9, <2>10, <3>1, <3>2
    <3>4. call.events[q] = frame.events[q]
      BY <2>8, <2>10, <3>1, <3>2
    <3>5. QED
      BY <3>3, <3>4
  <2>14. QED
    BY <2>1, <2>9, <2>10, <2>11, <2>12, <2>13
<1>6. QED
  BY <1>2, <1>4, <1>5

(* A slot that routes a selector is read before those of the steps after.  *)
LEMMA ReadBefore ==
  ASSUME NEW code, NEW s, NEW storage \in [Slots -> {"zero", "live"}], Callable(code, s, storage),
         NEW i \in 1 .. Len(code), Leads(code, storage, s, SlotAt(code, s, i)),
         NEW j \in i + 1 .. Len(code), NEW reads, reads = ReadsOf(code, s, storage),
         NEW n \in 1 .. Len(reads), reads[n] = SlotAt(code, s, j)
  PROVE  \E l \in 1 .. n - 1 : reads[l] = SlotAt(code, s, i)
<1> DEFINE call == Outcome(code, s, storage)
           last == Run(code, s, storage)[Len(code)]
           frame == Run(code, s, storage)[i - 1]
           next == Run(code, s, storage)[i]
<1>1. Len(code) \in Nat /\ i \in Nat /\ j \in 1 .. Len(code) /\ j \in Nat /\ i < j /\ NoStub(storage)
  BY DEF Callable, NoStub
<1>2. InOrder(reads, call.events)
  BY ReadsAre
<1>3. PICK at \in 1 .. Len(call.events) :
        /\ call.events[at].slot = SlotAt(code, s, j)
        /\ \A q \in 1 .. at - 1 :
             call.events[q].slot \in Slots => \E l \in 1 .. n - 1 : reads[l] = call.events[q].slot
  BY <1>2 DEF InOrder
<1>4. /\ Len(last.events) \in Nat /\ Len(call.events) \in Nat
      /\ \A p \in Len(last.events) + 1 .. Len(call.events) :
           call.events[p].slot = NoSlot \/ call.events[p].slot = FacetSlot
  BY OutcomeFacts
<1>5. SlotAt(code, s, j) \in Slots /\ SlotAt(code, s, j) # FacetSlot /\ SlotAt(code, s, i) \in Slots
  BY <1>1, SlotAtFacts DEF Callable
<1>6. at <= Len(last.events)
  <2> HIDE DEF last, call
  <2>1. ~(at \in Len(last.events) + 1 .. Len(call.events))
    BY <1>3, <1>4, <1>5, SlotFacts
  <2>2. QED
    BY <1>4, <2>1
<1>7. PICK h \in 1 .. Len(code) :
        /\ Len(Run(code, s, storage)[h - 1].events) + 1 = at
        /\ SlotAt(code, s, h) = call.events[at].slot
  <2>1. call.events[at].slot \in Slots
    BY <1>3, <1>5
  <2>2. at <= Len(Run(code, s, storage)[Len(code)].events)
    BY <1>6
  <2>3. QED
    BY <1>1, <2>1, <2>2, StepReads
<1>8. h = j
  <2>1. SlotAt(code, s, h)[1] = h /\ SlotAt(code, s, j)[1] = j
    BY <1>1, SlotAtFacts DEF Callable
  <2>2. QED
    BY <1>3, <1>7, <2>1
<1>9. Took(frame, next, SlotAt(code, s, i), storage[SlotAt(code, s, i)])
  <2>1. frame.end = "running" /\ ~Skips(frame, code[i])
    BY LeadsIs
  <2>2. QED
    BY <2>1, RunStepFacts
<1>10. Extends(next.events, Run(code, s, storage)[j - 1].events) /\ Extends(next.events, call.events)
  <2>1. i \in 0 .. Len(code) /\ j - 1 \in i .. Len(code)
    BY <1>1
  <2>2. QED
    BY <2>1, RunExtends, EndExtends
<1> HIDE DEF frame, next, call, last
<1>11. /\ Len(frame.events) \in Nat /\ Len(frame.events) + 1 \in 1 .. Len(next.events)
       /\ next.events[Len(frame.events) + 1].slot = SlotAt(code, s, i)
  <2>1. /\ Len(frame.events) \in Nat
        /\ Len(next.events) \in {Len(frame.events) + 1, Len(frame.events) + 2}
        /\ next.events[Len(frame.events) + 1].slot = SlotAt(code, s, i)
    BY <1>9 DEF Took
  <2>2. QED
    BY <2>1
<1>12. /\ Len(next.events) <= Len(Run(code, s, storage)[j - 1].events)
       /\ \A p \in 1 .. Len(next.events) : call.events[p] = next.events[p]
  BY <1>10 DEF Extends
<1> DEFINE q == Len(frame.events) + 1
<1>13. Len(Run(code, s, storage)[j - 1].events) + 1 = at
  BY <1>7, <1>8
<1>14. Len(Run(code, s, storage)[j - 1].events) \in Nat
  <2>1. j - 1 \in 0 .. Len(code)
    BY <1>1
  <2>2. Run(code, s, storage)[j - 1] \in Frames
    BY <2>1, RunFrames
  <2>3. QED
    BY <2>2 DEF Frames
<1>15. q \in 1 .. at - 1
  <2>1. Len(next.events) \in Nat
    BY <1>9 DEF Took
  <2>2. PICK b \in Nat : b = Len(next.events)
    BY <2>1
  <2>3. PICK c \in Nat : c = Len(Run(code, s, storage)[j - 1].events)
    BY <1>14
  <2>4. PICK a \in Nat : a = Len(frame.events)
    BY <1>11
  <2>5. a + 1 \in 1 .. b /\ b <= c /\ c + 1 = at
    BY <1>11, <1>12, <1>13, <2>2, <2>3, <2>4
  <2>6. a + 1 \in 1 .. at - 1
    BY <2>5
  <2>7. QED
    BY <2>4, <2>6
<1>16. call.events[q].slot = SlotAt(code, s, i)
  BY <1>11, <1>12
<1>17. QED
  BY <1>3, <1>5, <1>15, <1>16

OnTheWay(R, n, have, key) ==
    n \in 0 .. Len(R) - 1 /\ key = R[n + 1] /\ \A i \in 1 .. n : R[i] \in have

ReachedIn(W, R, n, key) ==
    \E m \in 1 .. Len(W) : W[m] = key /\ \A i \in 1 .. m - 1 : \E l \in 1 .. n : W[i] = R[l]

(* A walk that has come to a slot past known ones has come to one that the *)
(* dispatch of the whole storage reads, past none but those.               *)
LEMMA ClaimedIsReached ==
  ASSUME NEW code, NEW s, NEW storage \in [Slots -> {"zero", "live"}], Callable(code, s, storage),
         NEW have \in SUBSET Slots, NEW R, R = ReadsOf(code, s, AsFarAs(storage, have)),
         NEW n, NEW key, OnTheWay(R, n, have, key), NEW W, W = ReadsOf(code, s, storage)
  PROVE  ReachedIn(W, R, n, key)
<1>0. n \in 0 .. Len(R) - 1 /\ key = R[n + 1] /\ \A i \in 1 .. n : R[i] \in have
  BY DEF OnTheWay
<1> DEFINE base == AsFarAs(storage, have)
           seen == Outcome(code, s, base)
           call == Outcome(code, s, storage)
<1>1. base \in [Slots -> {"zero", "live"}] /\ Callable(code, s, base) /\ NoStub(base)
  <2>1. base \in [Slots -> {"zero", "live"}]
    BY DEF AsFarAs
  <2> HIDE DEF base
  <2>2. QED
    BY <2>1 DEF Callable, Words, NoStub
<1>2. /\ \A k \in have : base[k] = storage[k]
  BY DEF AsFarAs
<1>3. R \in Seq(Slots) /\ Len(R) \in Nat /\ InOrder(R, seen.events)
  <2> HIDE DEF base
  <2>1. R = ReadsOf(code, s, base)
    BY DEF base
  <2>2. QED
    BY <1>1, <2>1, ReadsAre
<1>4. /\ W \in Seq(Slots) /\ Len(W) \in Nat /\ InOrder(W, call.events)
      /\ \A p \in 1 .. Len(call.events) :
           call.events[p].slot \in Slots => \E l \in 1 .. Len(W) : W[l] = call.events[p].slot
  BY ReadsAre
<1>5. n + 1 \in 1 .. Len(R) /\ n \in Nat /\ R[n + 1] \in Slots
  BY <1>0, <1>3
<1>6. PICK at \in 1 .. Len(seen.events) :
        /\ seen.events[at].slot = R[n + 1]
        /\ \A q \in 1 .. at - 1 :
             seen.events[q].slot \in Slots => \E l \in 1 .. (n + 1) - 1 : R[l] = seen.events[q].slot
  BY <1>3, <1>5 DEF InOrder
<1>7. (n + 1) - 1 = n /\ Len(seen.events) \in Nat /\ at \in Nat /\ Len(call.events) \in Nat
  <2>1. Len(seen.events) \in Nat /\ Len(call.events) \in Nat
    <3> HIDE DEF base
    <3>1. QED
      BY <1>1, OutcomeFacts
  <2>2. QED
    BY <1>5, <2>1
<1> HIDE DEF base
<1>8. AgreeBefore(seen.events, at, base, storage)
  <2> SUFFICES ASSUME NEW q \in 1 .. Len(seen.events), q < at, seen.events[q].slot \in Slots
               PROVE  base[seen.events[q].slot] = storage[seen.events[q].slot]
    BY DEF AgreeBefore
  <2>1. q \in 1 .. at - 1
    BY <1>7
  <2>2. PICK l \in 1 .. n : R[l] = seen.events[q].slot
    BY <1>6, <1>7, <2>1
  <2>3. QED
    BY <1>0, <1>2, <2>2
<1>9. /\ at \in 1 .. Len(call.events) /\ call.events[at].slot = seen.events[at].slot
      /\ \A q \in 1 .. at - 1 : call.events[q] = seen.events[q]
  <2>1. seen.events[at].slot \in Slots
    BY <1>5, <1>6
  <2>2. QED
    BY <1>1, <1>8, <2>1, SameTrace
<1> HIDE DEF seen, call
<1> DEFINE U == {m \in 1 .. Len(W) : W[m] = R[n + 1]}
<1>10. PICK m \in U : \A y \in U : m <= y
  <2>1. U \in SUBSET Nat
    BY <1>4
  <2>2. U # {}
    BY <1>0, <1>4, <1>5, <1>6, <1>9
  <2> HIDE DEF U
  <2>3. QED
    BY <2>1, <2>2, Least
<1>11. ASSUME NEW i \in 1 .. m - 1
       PROVE  \E l \in 1 .. n : W[i] = R[l]
  <2>1. m \in 1 .. Len(W) /\ i \in 1 .. Len(W) /\ i < m /\ W[i] \in Slots
    BY <1>4
  <2>2. \A l \in 1 .. i : W[l] # R[n + 1]
    <3> SUFFICES ASSUME NEW l \in 1 .. i, W[l] = R[n + 1] PROVE FALSE
      OBVIOUS
    <3>1. l \in 1 .. Len(W) /\ l < m
      BY <1>4, <2>1
    <3>2. l \in U
      BY <3>1
    <3>3. QED
      BY <1>4, <1>10, <2>1, <3>1, <3>2
  <2>3. PICK p \in 1 .. Len(call.events) :
          /\ call.events[p].slot = W[i]
          /\ \A q \in 1 .. p - 1 :
               call.events[q].slot \in Slots => \E l \in 1 .. i - 1 : W[l] = call.events[q].slot
    BY <1>4, <2>1 DEF InOrder
  <2>4. p # at
    <3>1. i \in 1 .. i
      BY <2>1
    <3>2. QED
      BY <1>6, <1>9, <2>2, <2>3, <3>1
  <2>5. ~(at < p)
    <3> SUFFICES ASSUME at < p PROVE FALSE
      OBVIOUS
    <3>1. at \in 1 .. p - 1
      BY <1>7, <1>9
    <3>2. PICK l \in 1 .. i - 1 : W[l] = call.events[at].slot
      BY <1>5, <1>6, <1>9, <2>3, <3>1
    <3>3. l \in 1 .. i
      BY <2>1
    <3>4. QED
      BY <1>6, <1>9, <2>2, <3>2, <3>3
  <2>6. p \in 1 .. at - 1
    BY <1>7, <2>4, <2>5
  <2>7. seen.events[p].slot = W[i]
    BY <1>9, <2>3, <2>6
  <2>8. PICK l \in 1 .. (n + 1) - 1 : R[l] = seen.events[p].slot
    BY <1>6, <2>1, <2>6, <2>7
  <2>9. QED
    BY <1>7, <2>7, <2>8
<1>12. QED
  BY <1>0, <1>10, <1>11 DEF ReachedIn

(* One that has come past all of them has come through the whole dispatch. *)
LEMMA WalkedThrough ==
  ASSUME NEW code, NEW s, NEW storage \in [Slots -> {"zero", "live"}], Callable(code, s, storage),
         NEW have \in SUBSET Slots,
         NEW R, R = ReadsOf(code, s, AsFarAs(storage, have)),
         \A i \in 1 .. Len(R) : R[i] \in have
  PROVE  ReadsOf(code, s, storage) = R
<1> DEFINE base == AsFarAs(storage, have)
           seen == Outcome(code, s, base)
<1>1. base \in [Slots -> {"zero", "live"}] /\ Callable(code, s, base)
  <2>1. base \in [Slots -> {"zero", "live"}]
    BY DEF AsFarAs
  <2> HIDE DEF base
  <2>2. QED
    BY <2>1 DEF Callable, Words
<1>2. /\ \A k \in have : base[k] = storage[k]
  BY DEF AsFarAs
<1>3. R = ReadsOf(code, s, base)
  OBVIOUS
<1> HIDE DEF base
<1>4. \A p \in 1 .. Len(seen.events) :
        seen.events[p].slot \in Slots => \E l \in 1 .. Len(R) : R[l] = seen.events[p].slot
  BY <1>1, <1>3, ReadsAre
<1>5. Outcome(code, s, storage) = seen
  <2>1. \A p \in 1 .. Len(seen.events) :
          seen.events[p].slot \in Slots => base[seen.events[p].slot] = storage[seen.events[p].slot]
    BY <1>2, <1>4
  <2>2. QED
    BY <1>1, <2>1, SameCall
<1>6. QED
  BY <1>3, <1>5 DEF ReadsOf

-----------------------------------------------------------------------------
(* What fetch finds: RoutesInv, and that every step keeps it.              *)

(* What each walk comes to.  A selector asked for is queued, waits or is    *)
(* walked, once, or has its slot, or has come to the end of its dispatch.   *)
Sought    == ToSet(Probed(wanted))
Underway == ToSet(queue) \cup ToSet(waiting) \cup ({walk.selector} \ {Common})

WalksApart ==
    /\ IsInjective(queue) /\ IsInjective(waiting)
    /\ ToSet(queue) \cap ToSet(waiting) = {}
    /\ walk.selector \notin ToSet(queue) \cup ToSet(waiting)
    /\ Underway \cap DOMAIN found = {}
    /\ Underway \cup DOMAIN found \subseteq Sought
    /\ phase # "walking" => Underway = {}

Rejected(s, k) == k \in shared \/ <<s, k>> \in failed

PassedAreRejected ==
    walk # NoWalk =>
        LET reads == Reads(walk.selector, Known)
        IN  \E n \in 0 .. Len(reads) - 1 :
                /\ walk.keys = SubSeq(reads, n + 1, Len(reads))
                /\ \A i \in 1 .. n : reads[i] \in known /\ Rejected(walk.selector, reads[i])

(* The slots of the whole dispatch up to the one found, or all of them.     *)
OthersAreRejected ==
    \A s \in Sought \ Underway :
        LET reads == Reads(s, store)
        IN  IF s \in DOMAIN found
            THEN \E n \in 1 .. Len(reads) : /\ reads[n] = found[s]
                                            /\ \A i \in 1 .. n - 1 : Rejected(s, reads[i])
            ELSE \A i \in 1 .. Len(reads) : Rejected(s, reads[i])

(* A slot found is its selector's alone, as far as the walks have come.     *)
ClaimsAreFound ==
    /\ \A s \in DOMAIN found : found[s] \in DOMAIN claims /\ claims[found[s]] = s
    /\ \A k \in DOMAIN claims : claims[k] \in DOMAIN found /\ found[claims[k]] = k
    /\ shared \cap DOMAIN claims = {}

SharedRouteTwo == \A k \in shared : \E s, t \in Sought : s # t /\ Routes(s, k) /\ Routes(t, k)

RoutesInv ==
    WalksApart /\ PassedAreRejected /\ OthersAreRejected /\ ClaimsAreFound /\ SharedRouteTwo

(* The parts of RoutesInv, as functions of the state.                      *)
Out(s, k, sh, bad) == k \in sh \/ <<s, k>> \in bad

Settled(code, storage, s, f, sh, bad) ==
    IF s \in DOMAIN f
    THEN \E n \in 1 .. Len(ReadsOf(code, s, storage)) :
            /\ ReadsOf(code, s, storage)[n] = f[s]
            /\ \A i \in 1 .. n - 1 : Out(s, ReadsOf(code, s, storage)[i], sh, bad)
    ELSE \A i \in 1 .. Len(ReadsOf(code, s, storage)) : Out(s, ReadsOf(code, s, storage)[i], sh, bad)

AllSettled(code, storage, these, f, sh, bad) ==
    \A s \in these : Settled(code, storage, s, f, sh, bad)

RouteTwo(code, storage, these, sh) ==
    \A k \in sh : \E s, t \in these : s # t /\ Leads(code, storage, s, k) /\ Leads(code, storage, t, k)

CameThrough(code, storage, have, w, sh, bad) ==
    w # NoWalk =>
        \E n \in 0 .. Len(ReadsOf(code, w.selector, AsFarAs(storage, have))) - 1 :
            /\ w.keys = SubSeq(ReadsOf(code, w.selector, AsFarAs(storage, have)), n + 1,
                               Len(ReadsOf(code, w.selector, AsFarAs(storage, have))))
            /\ \A i \in 1 .. n :
                 /\ ReadsOf(code, w.selector, AsFarAs(storage, have))[i] \in have
                 /\ Out(w.selector, ReadsOf(code, w.selector, AsFarAs(storage, have))[i], sh, bad)

Apart(q, w, x) ==
    /\ IsInjective(q) /\ IsInjective(w)
    /\ ToSet(q) \intersect ToSet(w) = {}
    /\ x \notin ToSet(q) \union ToSet(w)

Going(q, w, x) == ToSet(q) \union ToSet(w) \union ({x} \ {Common})

WalksStand(these, ph, q, w, x, f) ==
    /\ Apart(q, w, x)
    /\ Going(q, w, x) \intersect DOMAIN f = {}
    /\ Going(q, w, x) \union DOMAIN f \subseteq these
    /\ ph # "walking" => Going(q, w, x) = {}

Claimed(f, c, sh) ==
    /\ \A s \in DOMAIN f : f[s] \in DOMAIN c /\ c[f[s]] = s
    /\ \A k \in DOMAIN c : c[k] \in DOMAIN f /\ f[c[k]] = k
    /\ sh \intersect DOMAIN c = {}

LEMMA RoutesInvIs ==
  RoutesInv <=>
    /\ WalksStand(ToSet(Probed(wanted)), phase, queue, waiting, walk.selector, found)
    /\ Claimed(found, claims, shared)
    /\ CameThrough(dispatcher, store, known, walk, shared, failed)
    /\ AllSettled(dispatcher, store, ToSet(Probed(wanted)) \ Going(queue, waiting, walk.selector),
                  found, shared, failed)
    /\ RouteTwo(dispatcher, store, ToSet(Probed(wanted)), shared)
<1>1. Known = AsFarAs(store, known)
  BY DEF Known, AsFarAs
<1>2. Reads(walk.selector, Known) = ReadsOf(dispatcher, walk.selector, AsFarAs(store, known))
  BY <1>1, ReadsIs
<1>3. PassedAreRejected <=> CameThrough(dispatcher, store, known, walk, shared, failed)
  BY <1>2 DEF PassedAreRejected, CameThrough, Rejected, Out
<1>4. Underway = Going(queue, waiting, walk.selector) /\ Sought = ToSet(Probed(wanted))
  BY DEF Underway, Going, Sought
<1>5. OthersAreRejected <=>
        AllSettled(dispatcher, store, Sought \ Underway, found, shared, failed)
  <2>1. \A s : Reads(s, store) = ReadsOf(dispatcher, s, store)
    BY ReadsIs
  <2>2. QED
    BY <2>1 DEF OthersAreRejected, AllSettled, Settled, Rejected, Out
<1>6. SharedRouteTwo <=> RouteTwo(dispatcher, store, Sought, shared)
  BY RoutesIs DEF SharedRouteTwo, RouteTwo
<1>7. WalksApart <=> WalksStand(Sought, phase, queue, waiting, walk.selector, found)
  BY <1>4 DEF WalksApart, WalksStand, Apart
<1>8. ClaimsAreFound <=> Claimed(found, claims, shared)
  BY DEF ClaimsAreFound, Claimed
<1>9. QED
  BY <1>3, <1>4, <1>5, <1>6, <1>7, <1>8 DEF RoutesInv

LEMMA RoutesInvIsStill ==
  (RoutesInv <=>
    /\ WalksStand(ToSet(Probed(wanted)), phase, queue, waiting, walk.selector, found)
    /\ Claimed(found, claims, shared)
    /\ CameThrough(dispatcher, store, known, walk, shared, failed)
    /\ AllSettled(dispatcher, store, ToSet(Probed(wanted)) \ Going(queue, waiting, walk.selector),
                  found, shared, failed)
    /\ RouteTwo(dispatcher, store, ToSet(Probed(wanted)), shared))'
BY RoutesInvIs, PTL

(* Once every walk has ended, no other selector is routed by a slot found: *)
(* one that was would have found it first, or have found one before it that *)
(* routes the two.                                                         *)
LEMMA FoundAlone ==
  ASSUME NEW code \in Seq(Steps), Len(code) <= MaxSteps, NEW storage \in [Slots -> {"zero", "live"}],
         NEW these \in SUBSET Selectors, NEW f, NEW c, NEW sh, NEW bad,
         AllSettled(code, storage, these, f, sh, bad), RouteTwo(code, storage, these, sh),
         Verified(code, storage, f, bad),
         \A x \in DOMAIN f : f[x] \in Slots /\ f[x] \in DOMAIN c /\ c[f[x]] = x,
         sh \intersect DOMAIN c = {},
         NEW s \in these, s \in DOMAIN f, NEW t \in these, t # s
  PROVE  ~Leads(code, storage, t, f[s])
<1> SUFFICES ASSUME Leads(code, storage, t, f[s])
             PROVE  FALSE
  OBVIOUS
<1> DEFINE k == f[s]
           R == ReadsOf(code, s, storage)
           W == ReadsOf(code, t, storage)
<1>1. /\ \A x \in these : Callable(code, x, storage)
      /\ k \in Slots /\ k \in DOMAIN c /\ c[k] = s /\ k \notin sh
  BY DEF Callable, Words
<1>2. Leads(code, storage, s, k)
  BY DEF Verified
<1>3. \A x \in these : \A y : Leads(code, storage, x, y) /\ Out(x, y, sh, bad) => y \in sh
  BY DEF Verified, Out
<1>4. PICK j \in 1 .. Len(code) : k = SlotAt(code, s, j)
  BY <1>1, <1>2, RouteIsRead
<1>5. PICK h \in 1 .. Len(code) : k = SlotAt(code, t, h)
  BY <1>1, RouteIsRead
<1>6. h = j
  <2>1. SlotAt(code, s, j)[1] = j /\ SlotAt(code, t, h)[1] = h
    BY SlotAtFacts
  <2>2. QED
    BY <1>4, <1>5, <2>1
<1>7. PICK n \in 1 .. Len(R) : R[n] = k /\ \A i \in 1 .. n - 1 : Out(s, R[i], sh, bad)
  BY DEF AllSettled, Settled
<1>8. ~Out(t, k, sh, bad)
  BY <1>1, <1>3
<1>9. CASE t \notin DOMAIN f
  <2>1. \A i \in 1 .. Len(W) : Out(t, W[i], sh, bad)
    BY <1>9 DEF AllSettled, Settled
  <2>2. \E i \in 1 .. Len(W) : W[i] = k
    <3> HIDE DEF W
    <3>1. W = ReadsOf(code, t, storage)
      BY DEF W
    <3>2. QED
      BY <1>1, <3>1, RouteIsRead
  <2>3. QED
    BY <1>8, <2>1, <2>2
<1>10. CASE t \in DOMAIN f
  <2> DEFINE other == f[t]
  <2>1. other \in Slots /\ other \in DOMAIN c /\ other \notin sh /\ other # k /\ Leads(code, storage, t, other)
    BY <1>1, <1>10 DEF Verified
  <2>2. PICK m \in 1 .. Len(W) : W[m] = other /\ \A i \in 1 .. m - 1 : Out(t, W[i], sh, bad)
    BY <1>10 DEF AllSettled, Settled
  <2>3. PICK i \in 1 .. Len(code) : other = SlotAt(code, t, i)
    BY <1>1, <2>1, RouteIsRead
  <2> HIDE DEF other
  <2>4. Len(code) \in Nat /\ i # j
    BY <1>5, <1>6, <2>1, <2>3
  <2>5. CASE j < i
    <3>1. i \in j + 1 .. Len(code)
      BY <2>4, <2>5
    <3>2. Leads(code, storage, t, SlotAt(code, t, j))
      BY <1>5, <1>6
    <3>3. \E l \in 1 .. m - 1 : W[l] = SlotAt(code, t, j)
      <4> HIDE DEF W
      <4>1. W = ReadsOf(code, t, storage)
        BY DEF W
      <4>2. QED
        BY <1>1, <2>2, <2>3, <3>1, <3>2, <4>1, ReadBefore
    <3>4. QED
      BY <1>5, <1>6, <1>8, <2>2, <3>3
  <2>6. CASE i < j
    <3> DEFINE first == SlotAt(code, s, i)
    <3>1. i \in 1 .. j - 1 /\ j \in i + 1 .. Len(code)
      BY <2>4, <2>6
    <3>2. Leads(code, storage, s, first)
      BY <1>1, <1>2, <1>4, <2>1, <2>3, <3>1, RoutedBefore
    <3>3. \E l \in 1 .. n - 1 : R[l] = first
      <4> HIDE DEF R, first
      <4>1. R = ReadsOf(code, s, storage) /\ R[n] = SlotAt(code, s, j)
        BY <1>4, <1>7 DEF R
      <4>2. QED
        BY <1>1, <3>1, <3>2, <4>1, ReadBefore DEF first
    <3>4. first \in sh
      BY <1>3, <1>7, <3>2, <3>3
    <3>5. PICK u, v \in these : u # v /\ Leads(code, storage, u, first) /\ Leads(code, storage, v, first)
      BY <3>4 DEF RouteTwo
    <3>6. first \in Slots /\ first[1] = i /\ code[i] \in Steps
      BY SlotAtFacts
    <3> HIDE DEF first
    <3>7. PICK a \in 1 .. Len(code) : first = SlotAt(code, u, a)
      BY <1>1, <3>5, <3>6, RouteIsRead
    <3>8. PICK b \in 1 .. Len(code) : first = SlotAt(code, v, b)
      BY <1>1, <3>5, <3>6, RouteIsRead
    <3>9. a = i /\ b = i
      <4>1. SlotAt(code, u, a)[1] = a /\ SlotAt(code, v, b)[1] = b
        BY SlotAtFacts
      <4>2. QED
        BY <3>6, <3>7, <3>8, <4>1
    <3>10. ~code[i].keyed
      BY <3>5, <3>7, <3>8, <3>9 DEF SlotAt
    <3>11. first = other
      BY <2>3, <3>10 DEF first, SlotAt
    <3>12. QED
      BY <2>1, <3>4, <3>11
  <2>7. QED
    BY <2>4, <2>5, <2>6
<1>11. QED
  BY <1>9, <1>10

(* The route of a selector is the slot found for it, or nothing.           *)
LEMMA EndedFound == WalkInv /\ RoutesInv => FindsTheRoutes
<1> SUFFICES ASSUME WalkInv, RoutesInv, phase # "walking", NEW s \in ToSet(wanted)
             PROVE  TheRoutes(s) = IF s \in DOMAIN found THEN {found[s]} ELSE {}
  BY DEF FindsTheRoutes
<1> DEFINE W == Reads(s, store)
<1>1. TypeOK /\ VerdictsHold
  BY DEF WalkInv
<1>2. WalksApart /\ ClaimsAreFound /\ OthersAreRejected /\ SharedRouteTwo
  BY DEF RoutesInv
<1>3. Underway = {} /\ Sought \ Underway = Sought
  BY <1>2 DEF WalksApart
<1>4. s \in Sought /\ Sought \subseteq Selectors
  <2>1. wanted \in Seq(Selectors) /\ IsInjective(wanted)
    BY <1>1, RequestsAssumption DEF TypeOK
  <2>2. Probed(wanted) \in Seq(Selectors) /\ ToSet(wanted) \subseteq ToSet(Probed(wanted))
    BY <2>1, SoughtIs
  <2>3. ToSet(Probed(wanted)) \subseteq Selectors
    BY <2>2 DEF ToSet
  <2>4. QED
    BY <2>2, <2>3 DEF Sought
<1>5. /\ dispatcher \in Seq(Steps) /\ Len(dispatcher) <= MaxSteps /\ store \in [Slots -> {"zero", "live"}]
      /\ Callable(dispatcher, s, store)
  <2>1. dispatcher \in Seq(Steps) /\ Len(dispatcher) <= MaxSteps
    BY <1>1, DispatchersAssumption DEF TypeOK
  <2>2. store \in [Slots -> {"zero", "live"}]
    BY <1>1 DEF TypeOK
  <2>3. QED
    BY <1>4, <2>1, <2>2 DEF Callable, Words
<1>6. W \in Seq(Slots) /\ Len(W) \in Nat /\ DOMAIN W = 1 .. Len(W)
  <2>1. W = ReadsOf(dispatcher, s, store)
    BY ReadsIs
  <2> HIDE DEF W
  <2>2. W \in Seq(Slots) /\ Len(W) \in Nat
    BY <1>5, <2>1, ReadsAre
  <2>3. QED
    BY <2>2
<1>7. \A k : Rejected(s, k) => ~Alone(s, k)
  <2> SUFFICES ASSUME NEW k, Rejected(s, k), Routes(s, k)
               PROVE  \E t \in Sought \ {s} : Routes(t, k)
    BY DEF Alone, Sought
  <2>1. k \in shared
    BY <1>1 DEF Rejected, VerdictsHold
  <2>2. PICK u, v \in Sought : u # v /\ Routes(u, k) /\ Routes(v, k)
    BY <1>2, <2>1 DEF SharedRouteTwo
  <2>3. QED
    BY <2>2
<1>8. TheRoutes(s) = {W[i] : i \in {j \in 1 .. Len(W) :
          Alone(s, W[j]) /\ \A h \in 1 .. j - 1 : ~Alone(s, W[h])}}
  BY <1>6 DEF TheRoutes
<1>9. CASE s \in DOMAIN found
  <2> DEFINE k == found[s]
  <2>1. PICK n \in 1 .. Len(W) : W[n] = k /\ \A i \in 1 .. n - 1 : Rejected(s, W[i])
    BY <1>2, <1>3, <1>4, <1>9 DEF OthersAreRejected
  <2>2. Alone(s, k)
    <3>1. Routes(s, k)
      BY <1>1, <1>9 DEF VerdictsHold
    <3>2. \A t \in Sought \ {s} : ~Routes(t, k)
      <4> SUFFICES ASSUME NEW t \in Sought, t # s
                   PROVE  ~Leads(dispatcher, store, t, found[s])
        BY RoutesIs
      <4>1. /\ AllSettled(dispatcher, store, Sought, found, shared, failed)
            /\ RouteTwo(dispatcher, store, Sought, shared)
        BY <1>3, RoutesInvIs DEF Sought, Underway, Going
      <4>2. Verified(dispatcher, store, found, failed)
        BY <1>1, VerifiedIs
      <4>3. \A x \in DOMAIN found : found[x] \in Slots /\ found[x] \in DOMAIN claims /\ claims[found[x]] = x
        BY <1>1, <1>2 DEF TypeOK, ClaimsAreFound
      <4>4. shared \intersect DOMAIN claims = {}
        BY <1>2 DEF ClaimsAreFound
      <4>5. QED
        BY <1>4, <1>5, <1>9, <4>1, <4>2, <4>3, <4>4, FoundAlone
    <3>3. QED
      BY <3>1, <3>2 DEF Alone, Sought
  <2> HIDE DEF W, k
  <2>3. \A h \in 1 .. n - 1 : ~Alone(s, W[h])
    BY <1>7, <2>1
  <2>4. ASSUME NEW j \in 1 .. Len(W), Alone(s, W[j]), \A h \in 1 .. j - 1 : ~Alone(s, W[h])
        PROVE  j = n
    <3>1. ~(j \in 1 .. n - 1)
      BY <2>3, <2>4
    <3>2. ~(n \in 1 .. j - 1)
      BY <2>1, <2>2, <2>4
    <3>3. QED
      BY <1>6, <3>1, <3>2
  <2>5. TheRoutes(s) = {k}
    BY <1>8, <2>1, <2>2, <2>3, <2>4
  <2>6. QED
    BY <1>9, <2>5 DEF k
<1>10. CASE s \notin DOMAIN found
  <2>1. \A i \in 1 .. Len(W) : Rejected(s, W[i])
    BY <1>2, <1>3, <1>4, <1>10 DEF OthersAreRejected
  <2> HIDE DEF W
  <2>2. TheRoutes(s) = {}
    BY <1>7, <1>8, <2>1
  <2>3. QED
    BY <1>10, <2>2
<1>11. QED
  BY <1>9, <1>10

(* The selectors under way, as they move.                                   *)
LEMMA WalkerWaits ==
  ASSUME NEW q \in Seq(Selectors), NEW w \in Seq(Selectors), NEW x \in Selectors, Apart(q, w, x),
         NEW more, more = Longer(w, x)
  PROVE  Apart(q, more, Common) /\ Going(q, more, Common) = Going(q, w, x)
<1>1. IsInjective(more) /\ ToSet(more) = ToSet(w) \union {x}
  BY AppendedApart DEF Apart
<1>2. ToSet(q) \subseteq Selectors /\ ToSet(w) \subseteq Selectors
  BY DEF ToSet
<1> HIDE DEF ToSet
<1>3. QED
  BY <1>1, <1>2, CommonAssumption DEF Apart, Going

LEMMA WalkerEnds ==
  ASSUME NEW q \in Seq(Selectors), NEW w \in Seq(Selectors), NEW x \in Selectors, Apart(q, w, x)
  PROVE  Apart(q, w, Common) /\ Going(q, w, Common) = Going(q, w, x) \ {x}
<1>1. ToSet(q) \subseteq Selectors /\ ToSet(w) \subseteq Selectors
  BY DEF ToSet
<1> HIDE DEF ToSet
<1>2. QED
  BY <1>1, CommonAssumption DEF Apart, Going

LEMMA QueuedAgain ==
  ASSUME NEW q \in Seq(Selectors), NEW w \in Seq(Selectors), NEW x, Apart(q, w, x),
         NEW o \in Selectors, o \notin Going(q, w, x), NEW more, more = Longer(q, o)
  PROVE  more \in Seq(Selectors) /\ Apart(more, w, x) /\ Going(more, w, x) = Going(q, w, x) \union {o}
<1>1. more \in Seq(Selectors) /\ IsInjective(more) /\ ToSet(more) = ToSet(q) \union {o}
  <2>1. o \notin ToSet(q)
    BY DEF Going
  <2>2. QED
    BY <2>1, AppendedApart DEF Apart
<1>2. QED
  BY <1>1, CommonAssumption DEF Apart, Going

LEMMA WalkerTaken ==
  ASSUME NEW q \in Seq(Selectors), NEW w \in Seq(Selectors), Apart(q, w, Common), q # <<>>,
         NEW less, less = Front(q), NEW x, x = Last(q)
  PROVE  /\ less \in Seq(Selectors) /\ x \in Selectors /\ Apart(less, w, x)
         /\ Going(less, w, x) = Going(q, w, Common)
<1>1. /\ less \in Seq(Selectors) /\ IsInjective(less) /\ x \in Selectors /\ x \notin ToSet(less)
      /\ ToSet(q) = ToSet(less) \union {x}
  BY FrontApart DEF Apart
<1>2. QED
  BY <1>1, CommonAssumption DEF Apart, Going

(* What is settled stays so: slots rejected stay rejected.                 *)
LEMMA SettledStays ==
  ASSUME NEW code, NEW storage, NEW s, NEW f, NEW sh, NEW bad, Settled(code, storage, s, f, sh, bad),
         NEW g, NEW sh2, NEW bad2, sh \subseteq sh2, bad \subseteq bad2,
         s \in DOMAIN g <=> s \in DOMAIN f, s \in DOMAIN f => g[s] = f[s]
  PROVE  Settled(code, storage, s, g, sh2, bad2)
<1>1. \A k : Out(s, k, sh, bad) => Out(s, k, sh2, bad2)
  BY DEF Out
<1>2. CASE s \in DOMAIN f
  BY <1>1, <1>2 DEF Settled
<1>3. CASE s \notin DOMAIN f
  BY <1>1, <1>3 DEF Settled
<1>4. QED
  BY <1>2, <1>3

(* A walk at its key, and what it has come past.                           *)
LEMMA CameToTheKey ==
  ASSUME TypeOK, PassedAreKnown, Walking,
         CameThrough(dispatcher, store, known, walk, shared, failed),
         NEW s, s = walk.selector, NEW R, R = ReadsOf(dispatcher, s, AsFarAs(store, known))
  PROVE  /\ s \in Selectors /\ Callable(dispatcher, s, store) /\ store \in [Slots -> {"zero", "live"}]
         /\ R \in Seq(Slots) /\ Len(R) \in Nat /\ Key \in Slots
         /\ \E n \in 0 .. Len(R) - 1 :
              /\ Key = R[n + 1] /\ Tail(walk.keys) = SubSeq(R, (n + 1) + 1, Len(R))
              /\ \A i \in 1 .. n : R[i] \in known /\ Out(s, R[i], shared, failed)
<1>1. s \in Selectors /\ Key \in Slots /\ walk # NoWalk
  BY AtTheKey
<1>2. store \in [Slots -> {"zero", "live"}] /\ Callable(dispatcher, s, store)
  <2>1. dispatcher \in Seq(Steps) /\ Len(dispatcher) <= MaxSteps /\ store \in [Slots -> {"zero", "live"}]
    BY DispatchersAssumption DEF TypeOK
  <2>2. QED
    BY <1>1, <2>1 DEF Callable, Words
<1>3. R \in Seq(Slots) /\ Len(R) \in Nat
  <2>1. Known = AsFarAs(store, known)
    BY DEF Known, AsFarAs
  <2>2. Reads(s, Known) = R
    BY <2>1, ReadsIs
  <2>3. QED
    BY <1>1, <2>2, OfTheKnown
<1>4. PICK n \in 0 .. Len(R) - 1 :
        /\ walk.keys = SubSeq(R, n + 1, Len(R))
        /\ \A i \in 1 .. n : R[i] \in known /\ Out(s, R[i], shared, failed)
  BY <1>1 DEF CameThrough
<1>5. n + 1 \in 1 .. Len(R) /\ Len(R) \in n + 1 .. Len(R)
  BY <1>3
<1>6. /\ Head(SubSeq(R, n + 1, Len(R))) = R[n + 1]
      /\ Tail(SubSeq(R, n + 1, Len(R))) = SubSeq(R, (n + 1) + 1, Len(R))
  BY <1>3, <1>5, HeadTailOfSubSeq
<1>7. Key = R[n + 1] /\ Tail(walk.keys) = SubSeq(R, (n + 1) + 1, Len(R))
  BY <1>4, <1>6 DEF Key
<1>8. QED
  BY <1>1, <1>2, <1>3, <1>4, <1>7

(* A walk that goes on from a key it has rejected.                         *)
LEMMA GoneOn ==
  ASSUME TypeOK, PassedAreKnown, Walking, GoOn,
         CameThrough(dispatcher, store, known, walk, shared, failed),
         dispatcher' = dispatcher, store' = store, known' = known,
         shared \subseteq shared', failed \subseteq failed',
         NEW s, s = walk.selector, Out(s, Key, shared', failed'),
         NEW q \in Seq(Selectors), Apart(q, waiting, s)
  PROVE  /\ CameThrough(dispatcher', store', known', walk', shared', failed')
         /\ Apart(q, waiting', walk'.selector)
         /\ \/ Going(q, waiting', walk'.selector) = Going(q, waiting, s)
            \/ /\ Going(q, waiting', walk'.selector) = Going(q, waiting, s) \ {s}
               /\ \A i \in 1 .. Len(ReadsOf(dispatcher, s, store)) :
                    Out(s, ReadsOf(dispatcher, s, store)[i], shared', failed')
<1> DEFINE R == ReadsOf(dispatcher, s, AsFarAs(store, known))
<1>1. /\ s \in Selectors /\ Callable(dispatcher, s, store) /\ store \in [Slots -> {"zero", "live"}]
      /\ R \in Seq(Slots) /\ Len(R) \in Nat
      /\ \E n \in 0 .. Len(R) - 1 :
           /\ Key = R[n + 1] /\ Tail(walk.keys) = SubSeq(R, (n + 1) + 1, Len(R))
           /\ \A i \in 1 .. n : R[i] \in known /\ Out(s, R[i], shared, failed)
  BY CameToTheKey
<1>2. R = ReadsOf(dispatcher, s, AsFarAs(store, known))
  OBVIOUS
<1>3. waiting \in Seq(Selectors)
  BY DEF TypeOK
<1> HIDE DEF R
<1>4. CASE Key \notin known
  <2>1. walk' = NoWalk /\ waiting' = Longer(waiting, s)
    BY <1>4 DEF GoOn, WaitFor, Longer
  <2>2. CameThrough(dispatcher', store', known', walk', shared', failed')
    BY <2>1 DEF CameThrough
  <2>3. walk'.selector = Common
    BY <2>1 DEF NoWalk
  <2>4. Apart(q, waiting', Common) /\ Going(q, waiting', Common) = Going(q, waiting, s)
    BY <1>1, <1>3, <2>1, WalkerWaits
  <2>5. QED
    BY <2>2, <2>3, <2>4
<1>5. CASE Key \in known
  <2>1. walk' = Walk(s, Tail(walk.keys)) /\ waiting' = waiting
    BY <1>5 DEF GoOn
  <2>2. PICK n \in 0 .. Len(R) - 1 :
          /\ Key = R[n + 1] /\ Tail(walk.keys) = SubSeq(R, (n + 1) + 1, Len(R))
          /\ \A i \in 1 .. n : R[i] \in known /\ Out(s, R[i], shared, failed)
    BY <1>1
  <2>3. \A i \in 1 .. n + 1 : R[i] \in known /\ Out(s, R[i], shared', failed')
    <3>1. n \in Nat /\ \A i \in 1 .. n + 1 : i \in 1 .. n \/ i = n + 1
      BY <1>1
    <3>2. \A k : Out(s, k, shared, failed) => Out(s, k, shared', failed')
      BY DEF Out
    <3>3. QED
      BY <1>5, <2>2, <3>1, <3>2
  <2>4. CASE Tail(walk.keys) = <<>>
    <3>1. walk' = NoWalk /\ walk'.selector = Common
      BY <2>1, <2>4 DEF Walk, NoWalk
    <3>2. CameThrough(dispatcher', store', known', walk', shared', failed')
      BY <3>1 DEF CameThrough
    <3>3. Apart(q, waiting', Common) /\ Going(q, waiting', Common) = Going(q, waiting, s) \ {s}
      BY <1>1, <1>3, <2>1, WalkerEnds
    <3>4. n + 1 = Len(R)
      <4> SUFFICES ASSUME n + 1 # Len(R) PROVE FALSE
        OBVIOUS
      <4>1. PICK a \in Int : a = (n + 1) + 1
        BY <1>1
      <4>2. PICK b \in Int : b = Len(R)
        BY <1>1
      <4>3. a <= b /\ a \in 1 .. b
        BY <1>1, <4>1, <4>2
      <4>4. \A i \in a .. b : R[i] \in Slots
        BY <1>1, <4>2, <4>3
      <4>5. Len(SubSeq(R, a, b)) = IF a <= b THEN b - a + 1 ELSE 0
        BY <4>1, <4>2, <4>4, SubSeqProperties
      <4>6. Len(SubSeq(R, a, b)) # 0
        BY <4>3, <4>5
      <4>7. SubSeq(R, a, b) = <<>>
        BY <2>2, <2>4, <4>1, <4>2
      <4>8. QED
        BY <4>6, <4>7
    <3>5. \A i \in 1 .. Len(R) : R[i] \in known
      BY <2>3, <3>4
    <3>6. ReadsOf(dispatcher, s, store) = R
      <4>1. known \in SUBSET Slots /\ store \in [Slots -> {"zero", "live"}] /\ Callable(dispatcher, s, store)
        BY <1>1 DEF TypeOK
      <4>2. QED
        BY <1>2, <3>5, <4>1, WalkedThrough
    <3>7. QED
      BY <2>3, <3>1, <3>2, <3>3, <3>4, <3>6
  <2>5. CASE Tail(walk.keys) # <<>>
    <3>1. walk' = [selector |-> s, keys |-> Tail(walk.keys)]
      BY <2>1, <2>5 DEF Walk
    <3>2. walk'.selector = s /\ walk'.keys = SubSeq(R, (n + 1) + 1, Len(R))
      BY <2>2, <3>1
    <3>3. n + 1 \in 0 .. Len(R) - 1
      <4>1. CASE n + 1 = Len(R)
        <5>1. SubSeq(R, (n + 1) + 1, Len(R)) = <<>>
          BY <1>1, <4>1, SubSeqEmpty
        <5>2. QED
          BY <2>2, <2>5, <5>1
      <4>2. QED
        BY <1>1, <4>1
    <3>4. R = ReadsOf(dispatcher', walk'.selector, AsFarAs(store', known'))
      BY <1>2, <3>2
    <3>5. \E m \in 0 .. Len(R) - 1 :
            /\ walk'.keys = SubSeq(R, m + 1, Len(R))
            /\ \A i \in 1 .. m : R[i] \in known' /\ Out(walk'.selector, R[i], shared', failed')
      BY <2>3, <3>2, <3>3
    <3>6. CameThrough(dispatcher', store', known', walk', shared', failed')
      BY <3>4, <3>5 DEF CameThrough
    <3>7. QED
      BY <2>1, <3>2, <3>6
  <2>6. QED
    BY <2>4, <2>5
<1>6. QED
  BY <1>4, <1>5

(* What a step has to show: it rejects more, and whatever it ends is       *)
(* settled.                                                                *)
LEMMA RoutesStand ==
  ASSUME RoutesInv, dispatcher' = dispatcher, store' = store, wanted' = wanted,
         shared \subseteq shared', failed \subseteq failed',
         NEW these, these = ToSet(Probed(wanted)),
         NEW was, was = Going(queue, waiting, walk.selector),
         NEW now, now = Going(queue', waiting', walk'.selector),
         WalksStand(these, phase', queue', waiting', walk'.selector, found'),
         Claimed(found', claims', shared'),
         CameThrough(dispatcher', store', known', walk', shared', failed'),
         \A s \in these \ now :
            \/ /\ s \notin was
               /\ s \in DOMAIN found' <=> s \in DOMAIN found
               /\ s \in DOMAIN found => found'[s] = found[s]
            \/ Settled(dispatcher, store, s, found', shared', failed'),
         \A k \in shared' \ shared : \E s, t \in these :
            s # t /\ Leads(dispatcher, store, s, k) /\ Leads(dispatcher, store, t, k)
  PROVE  RoutesInv'
<1>1. /\ AllSettled(dispatcher, store, these \ was, found, shared, failed)
      /\ RouteTwo(dispatcher, store, these, shared)
  BY RoutesInvIs
<1>2. AllSettled(dispatcher, store, these \ now, found', shared', failed')
  <2> SUFFICES ASSUME NEW s \in these \ now
               PROVE  Settled(dispatcher, store, s, found', shared', failed')
    BY DEF AllSettled
  <2>1. CASE Settled(dispatcher, store, s, found', shared', failed')
    BY <2>1
  <2>2. CASE /\ s \notin was
             /\ s \in DOMAIN found' <=> s \in DOMAIN found
             /\ s \in DOMAIN found => found'[s] = found[s]
    <3>1. Settled(dispatcher, store, s, found, shared, failed)
      BY <1>1, <2>2 DEF AllSettled
    <3>2. QED
      BY <2>2, <3>1, SettledStays
  <2>3. QED
    BY <2>1, <2>2
<1>3. RouteTwo(dispatcher, store, these, shared')
  BY <1>1 DEF RouteTwo
<1>4. ToSet(Probed(wanted')) = these
  OBVIOUS
<1>5. QED
  BY <1>2, <1>3, <1>4, RoutesInvIsStill

(* The state a step starts from.                                           *)
LEMMA Standing ==
  ASSUME WalkInv, RoutesInv
  PROVE  /\ TypeOK /\ PassedAreKnown /\ queue \in Seq(Selectors) /\ waiting \in Seq(Selectors)
         /\ ToSet(Probed(wanted)) \subseteq Selectors
         /\ WalksStand(ToSet(Probed(wanted)), phase, queue, waiting, walk.selector, found)
         /\ Claimed(found, claims, shared)
         /\ CameThrough(dispatcher, store, known, walk, shared, failed)
         /\ Verified(dispatcher, store, found, failed)
<1>1. TypeOK /\ PassedAreKnown /\ VerdictsHold
  BY DEF WalkInv
<1>2. queue \in Seq(Selectors) /\ waiting \in Seq(Selectors)
  BY <1>1 DEF TypeOK
<1>3. ToSet(Probed(wanted)) \subseteq Selectors
  <2>1. wanted \in Seq(Selectors) /\ IsInjective(wanted)
    BY <1>1, RequestsAssumption DEF TypeOK
  <2>2. Probed(wanted) \in Seq(Selectors)
    BY <2>1, SoughtIs
  <2>3. QED
    BY <2>2 DEF ToSet
<1>4. QED
  BY <1>1, <1>2, <1>3, RoutesInvIs, VerifiedIs

(* Steps that end no walk but the one they go on with: a key passed over,  *)
(* or rejected.                                                            *)
LEMMA GoingOnStands ==
  ASSUME WalkInv, RoutesInv, Walking, GoOn,
         UNCHANGED <<proxy, phase, queue, known, shared, claims, found>>,
         failed \subseteq failed', Out(walk.selector, Key, shared', failed')
  PROVE  RoutesInv'
<1> DEFINE s == walk.selector
           these == ToSet(Probed(wanted))
           was == Going(queue, waiting, s)
           now == Going(queue', waiting', walk'.selector)
<1>1. /\ dispatcher' = dispatcher /\ store' = store /\ wanted' = wanted /\ phase' = phase
      /\ queue' = queue /\ known' = known /\ shared' = shared /\ claims' = claims
      /\ found' = found /\ shared \subseteq shared'
  BY DEF proxy
<1>2. /\ TypeOK /\ PassedAreKnown /\ queue \in Seq(Selectors)
      /\ WalksStand(these, phase, queue, waiting, s, found)
      /\ Claimed(found, claims, shared)
      /\ CameThrough(dispatcher, store, known, walk, shared, failed)
  BY Standing
<1>3. s \in Selectors /\ s # Common /\ phase = "walking"
  BY <1>2, AtTheKey, CommonAssumption DEF Walking
<1>4. /\ CameThrough(dispatcher', store', known', walk', shared', failed')
      /\ Apart(queue, waiting', walk'.selector)
      /\ \/ Going(queue, waiting', walk'.selector) = Going(queue, waiting, s)
         \/ /\ Going(queue, waiting', walk'.selector) = Going(queue, waiting, s) \ {s}
            /\ \A i \in 1 .. Len(ReadsOf(dispatcher, s, store)) :
                 Out(s, ReadsOf(dispatcher, s, store)[i], shared', failed')
  <2>1. Apart(queue, waiting, s)
    BY <1>2 DEF WalksStand
  <2>2. QED
    BY <1>1, <1>2, <2>1, GoneOn
<1>5. now \subseteq was /\ WalksStand(these, phase', queue', waiting', walk'.selector, found')
  <2>1. now \subseteq was
    BY <1>1, <1>4
  <2>2. Apart(queue', waiting', walk'.selector)
    BY <1>1, <1>4
  <2> HIDE DEF now, was
  <2>3. was \intersect DOMAIN found = {} /\ was \union DOMAIN found \subseteq these
    BY <1>2 DEF WalksStand, was
  <2>4. now \intersect DOMAIN found' = {} /\ now \union DOMAIN found' \subseteq these
    BY <1>1, <2>1, <2>3
  <2>5. phase' = "walking"
    BY <1>1, <1>3
  <2>6. QED
    BY <2>1, <2>2, <2>4, <2>5 DEF WalksStand, now
<1>6. Claimed(found', claims', shared')
  BY <1>1, <1>2
<1>7. s \notin DOMAIN found'
  BY <1>1, <1>2, <1>3 DEF WalksStand, Going
<1>8. ASSUME NEW t \in these \ now
      PROVE  \/ /\ t \notin was
                /\ t \in DOMAIN found' <=> t \in DOMAIN found
                /\ t \in DOMAIN found => found'[t] = found[t]
             \/ Settled(dispatcher, store, t, found', shared', failed')
  <2>1. CASE t \notin was
    BY <1>1, <2>1
  <2>2. CASE t \in was
    <3>1. t = s /\ \A i \in 1 .. Len(ReadsOf(dispatcher, s, store)) :
                     Out(s, ReadsOf(dispatcher, s, store)[i], shared', failed')
      BY <1>1, <1>4, <2>2
    <3>2. Settled(dispatcher, store, t, found', shared', failed')
      BY <1>7, <3>1 DEF Settled
    <3>3. QED
      BY <3>2
  <2>3. QED
    BY <2>1, <2>2
<1> HIDE DEF these, was, now
<1>9. these = ToSet(Probed(wanted)) /\ was = Going(queue, waiting, walk.selector)
      /\ now = Going(queue', waiting', walk'.selector)
  BY DEF these, was, now
<1>10. QED
  BY <1>1, <1>4, <1>5, <1>6, <1>8, <1>9, RoutesStand

LEMMA PassStands ==
  ASSUME WalkInv, RoutesInv, Pass
  PROVE  RoutesInv'
<1>1. /\ Walking /\ GoOn /\ Tried
      /\ UNCHANGED <<proxy, phase, queue, known, shared, claims, found>> /\ failed' = failed
  BY DEF Pass
<1>2. Out(walk.selector, Key, shared', failed') /\ failed \subseteq failed'
  BY <1>1 DEF Out, Tried
<1>3. QED
  BY <1>1, <1>2, GoingOnStands

LEMMA FailStands ==
  ASSUME WalkInv, RoutesInv, Walking, NEW test, Fail(test)
  PROVE  RoutesInv'
<1>1. /\ GoOn /\ failed' = failed \union {<<walk.selector, Key>>}
      /\ UNCHANGED <<proxy, phase, queue, known, shared, claims, found>>
  BY DEF Fail
<1>2. Out(walk.selector, Key, shared', failed') /\ failed \subseteq failed'
  BY <1>1 DEF Out
<1>3. QED
  BY <1>1, <1>2, GoingOnStands

LEMMA DeferStands ==
  ASSUME WalkInv, RoutesInv, Walking, NEW test, Defer(test)
  PROVE  RoutesInv'
<1> DEFINE s == walk.selector
           these == ToSet(Probed(wanted))
           was == Going(queue, waiting, s)
           now == Going(queue', waiting', walk'.selector)
<1>1. /\ walk' = NoWalk /\ waiting' = Longer(waiting, s)
      /\ UNCHANGED <<proxy, phase, queue, known, shared, claims, found, failed>>
  BY DEF Defer, WaitFor, Longer
<1>2. /\ TypeOK /\ PassedAreKnown /\ queue \in Seq(Selectors) /\ waiting \in Seq(Selectors)
      /\ WalksStand(these, phase, queue, waiting, s, found)
      /\ Claimed(found, claims, shared)
  BY Standing
<1>3. s \in Selectors
  BY <1>2, AtTheKey
<1>4. /\ dispatcher' = dispatcher /\ store' = store /\ wanted' = wanted /\ phase' = phase
      /\ queue' = queue /\ shared' = shared /\ claims' = claims /\ found' = found /\ failed' = failed
  BY <1>1 DEF proxy
<1>5. CameThrough(dispatcher', store', known', walk', shared', failed') /\ walk'.selector = Common
  BY <1>1 DEF CameThrough, NoWalk
<1>6. Apart(queue, waiting', Common) /\ Going(queue, waiting', Common) = was
  BY <1>1, <1>2, <1>3, WalkerWaits DEF WalksStand
<1>7. now = was /\ WalksStand(these, phase', queue', waiting', walk'.selector, found')
  <2>1. now = was /\ Apart(queue', waiting', walk'.selector)
    BY <1>4, <1>5, <1>6
  <2> HIDE DEF now, was
  <2>2. /\ was \intersect DOMAIN found = {} /\ was \union DOMAIN found \subseteq these
        /\ phase # "walking" => was = {}
    BY <1>2 DEF WalksStand, was
  <2>3. QED
    BY <1>4, <2>1, <2>2 DEF WalksStand, now
<1> HIDE DEF these, was, now
<1>8. these = ToSet(Probed(wanted)) /\ was = Going(queue, waiting, walk.selector)
      /\ now = Going(queue', waiting', walk'.selector)
  BY DEF these, was, now
<1>9. Claimed(found', claims', shared')
  BY <1>2, <1>4
<1>10. \A t \in these \ now : t \notin was /\ found' = found
  BY <1>4, <1>7
<1>11. QED
  BY <1>4, <1>5, <1>7, <1>8, <1>9, <1>10, RoutesStand

(* The slot it claims is the first that its whole dispatch reads and that  *)
(* was not rejected.                                                       *)
LEMMA ClaimStands ==
  ASSUME WalkInv, RoutesInv, Walking, ~Tried, NEW test, Claim(test)
  PROVE  RoutesInv'
<1> DEFINE s == walk.selector
           k == Key
           these == ToSet(Probed(wanted))
           was == Going(queue, waiting, s)
           now == Going(queue', waiting', walk'.selector)
           R == ReadsOf(dispatcher, s, AsFarAs(store, known))
           W == ReadsOf(dispatcher, s, store)
<1>1. /\ walk' = NoWalk /\ claims' = With(claims, k, s) /\ found' = With(found, s, k)
      /\ k \notin DOMAIN claims /\ k \notin shared
      /\ UNCHANGED <<proxy, phase, queue, known, needs, waiting, shared, failed>>
  BY DEF Claim, Tried
<1>2. /\ TypeOK /\ PassedAreKnown /\ queue \in Seq(Selectors) /\ waiting \in Seq(Selectors)
      /\ WalksStand(these, phase, queue, waiting, s, found)
      /\ Claimed(found, claims, shared)
      /\ CameThrough(dispatcher, store, known, walk, shared, failed)
  BY Standing
<1>3. /\ s \in Selectors /\ Callable(dispatcher, s, store) /\ store \in [Slots -> {"zero", "live"}]
      /\ R \in Seq(Slots) /\ Len(R) \in Nat
      /\ \E n \in 0 .. Len(R) - 1 :
           k = R[n + 1] /\ \A i \in 1 .. n : R[i] \in known /\ Out(s, R[i], shared, failed)
  BY <1>2, CameToTheKey
<1>4. /\ dispatcher' = dispatcher /\ store' = store /\ wanted' = wanted /\ phase' = phase
      /\ queue' = queue /\ waiting' = waiting /\ shared' = shared /\ failed' = failed
  BY <1>1 DEF proxy
<1>5. CameThrough(dispatcher', store', known', walk', shared', failed') /\ walk'.selector = Common
  BY <1>1 DEF CameThrough, NoWalk
<1>6. Apart(queue, waiting, Common) /\ Going(queue, waiting, Common) = was \ {s}
  BY <1>2, <1>3, WalkerEnds DEF WalksStand
<1>7. \E m \in 1 .. Len(W) : W[m] = k /\ \A i \in 1 .. m - 1 : Out(s, W[i], shared, failed)
  <2>1. PICK n \in 0 .. Len(R) - 1 :
          k = R[n + 1] /\ \A i \in 1 .. n : R[i] \in known /\ Out(s, R[i], shared, failed)
    BY <1>3
  <2>2. known \in SUBSET Slots
    BY <1>2 DEF TypeOK
  <2>3. R = ReadsOf(dispatcher, s, AsFarAs(store, known)) /\ W = ReadsOf(dispatcher, s, store)
    OBVIOUS
  <2> HIDE DEF R, W
  <2>4. \A i \in 1 .. n : R[i] \in known
    BY <2>1
  <2>5. \E m \in 1 .. Len(W) : W[m] = k /\ \A i \in 1 .. m - 1 : \E l \in 1 .. n : W[i] = R[l]
    <3>1. Callable(dispatcher, s, store) /\ store \in [Slots -> {"zero", "live"}]
      BY <1>3
    <3>2. OnTheWay(R, n, known, k)
      BY <2>1 DEF OnTheWay
    <3> HIDE DEF s, k
    <3>3. ReachedIn(W, R, n, k)
      BY <2>2, <2>3, <3>1, <3>2, ClaimedIsReached
    <3>4. QED
      BY <3>3 DEF ReachedIn
  <2>6. QED
    BY <2>1, <2>5
<1>8. now = was \ {s}
  BY <1>4, <1>5, <1>6
<1>9. was \intersect DOMAIN found = {} /\ was \union DOMAIN found \subseteq these /\ phase = "walking"
      /\ s \in was
  BY <1>2, <1>3, CommonAssumption DEF WalksStand, Going, Walking
<1>10. these = ToSet(Probed(wanted)) /\ was = Going(queue, waiting, walk.selector)
       /\ now = Going(queue', waiting', walk'.selector)
  OBVIOUS
<1>11. Apart(queue', waiting', walk'.selector)
  BY <1>4, <1>5, <1>6
<1>12. Claimed(found, claims, shared)
  BY <1>2
<1>13. s \in DOMAIN found' => (Settled(dispatcher, store, s, found', shared', failed') <=>
         \E m \in 1 .. Len(W) : W[m] = found'[s] /\ \A i \in 1 .. m - 1 : Out(s, W[i], shared, failed))
  BY <1>4 DEF Settled
<1> HIDE DEF s, k, these, was, now, W, R
<1>14. /\ DOMAIN claims' = DOMAIN claims \union {k}
       /\ \A x \in DOMAIN claims' : claims'[x] = IF x = k THEN s ELSE claims[x]
  BY <1>1 DEF With
<1>15. /\ DOMAIN found' = DOMAIN found \union {s}
       /\ \A x \in DOMAIN found' : found'[x] = IF x = s THEN k ELSE found[x]
  BY <1>1 DEF With
<1>16. s \notin DOMAIN found
  BY <1>9
<1>17. WalksStand(these, phase', queue', waiting', walk'.selector, found')
  <2>1. now \intersect DOMAIN found' = {} /\ now \union DOMAIN found' \subseteq these /\ phase' = "walking"
    BY <1>4, <1>8, <1>9, <1>15
  <2>2. QED
    BY <1>10, <1>11, <2>1 DEF WalksStand
<1>18. Claimed(found', claims', shared')
  <2>1. ASSUME NEW x \in DOMAIN found' PROVE found'[x] \in DOMAIN claims' /\ claims'[found'[x]] = x
    <3>1. CASE x = s
      BY <1>14, <1>15, <3>1
    <3>2. CASE x # s
      <4>1. found'[x] = found[x] /\ found[x] \in DOMAIN claims /\ claims[found[x]] = x
        BY <1>12, <1>15, <3>2 DEF Claimed
      <4>2. QED
        BY <1>1, <1>14, <4>1
    <3>3. QED
      BY <3>1, <3>2
  <2>2. ASSUME NEW y \in DOMAIN claims' PROVE claims'[y] \in DOMAIN found' /\ found'[claims'[y]] = y
    <3>1. CASE y = k
      BY <1>14, <1>15, <3>1
    <3>2. CASE y # k
      <4>1. claims'[y] = claims[y] /\ claims[y] \in DOMAIN found /\ found[claims[y]] = y
        BY <1>12, <1>14, <3>2 DEF Claimed
      <4>2. QED
        BY <1>15, <1>16, <4>1
    <3>3. QED
      BY <3>1, <3>2
  <2>3. shared' \intersect DOMAIN claims' = {}
    BY <1>1, <1>4, <1>12, <1>14 DEF Claimed
  <2>4. QED
    BY <2>1, <2>2, <2>3 DEF Claimed
<1>19. ASSUME NEW t \in these \ now
       PROVE  \/ /\ t \notin was
                 /\ t \in DOMAIN found' <=> t \in DOMAIN found
                 /\ t \in DOMAIN found => found'[t] = found[t]
              \/ Settled(dispatcher, store, t, found', shared', failed')
  <2>1. CASE t = s
    <3>1. s \in DOMAIN found' /\ found'[s] = k
      BY <1>15
    <3>2. Settled(dispatcher, store, s, found', shared', failed')
      BY <1>7, <1>13, <3>1
    <3>3. QED
      BY <2>1, <3>2
  <2>2. CASE t # s
    BY <1>8, <1>15, <2>2
  <2>3. QED
    BY <2>1, <2>2
<1>20. QED
  BY <1>4, <1>5, <1>10, <1>17, <1>18, <1>19, RoutesStand

(* The selector that had the slot is walked again.                         *)
LEMMA ContestStands ==
  ASSUME WalkInv, RoutesInv, Walking,
         NEW test, test = Call(walk.selector, Stubbed(Known, Key)), Contest(test)
  PROVE  RoutesInv'
<1> DEFINE s == walk.selector
           k == Key
           o == claims[Key]
           these == ToSet(Probed(wanted))
           was == Going(queue, waiting, s)
           now == Going(queue', waiting', walk'.selector)
           longer == Longer(queue, o)
<1>1. /\ Unknown(test, k) = {} /\ Reached(test) /\ k \in DOMAIN claims
      /\ claims' = Without(claims, k) /\ shared' = shared \union {k}
      /\ found' = Without(found, o) /\ queue' = longer /\ GoOn
      /\ UNCHANGED <<proxy, phase, known, failed>>
  BY DEF Contest, Counts, Longer
<1>2. /\ TypeOK /\ PassedAreKnown /\ queue \in Seq(Selectors) /\ waiting \in Seq(Selectors)
      /\ these \subseteq Selectors
      /\ WalksStand(these, phase, queue, waiting, s, found)
      /\ Claimed(found, claims, shared)
      /\ CameThrough(dispatcher, store, known, walk, shared, failed)
      /\ Verified(dispatcher, store, found, failed)
  BY Standing
<1>3. s \in Selectors
  BY <1>2, AtTheKey
<1>4. /\ dispatcher' = dispatcher /\ store' = store /\ wanted' = wanted /\ phase' = phase
      /\ known' = known /\ failed' = failed /\ shared \subseteq shared' /\ failed \subseteq failed'
  BY <1>1 DEF proxy
<1>5. o \in DOMAIN found /\ found[o] = k
  BY <1>1, <1>2 DEF Claimed
<1>6. was \intersect DOMAIN found = {} /\ was \union DOMAIN found \subseteq these /\ phase = "walking"
      /\ s \in was
  BY <1>2, <1>3, CommonAssumption DEF WalksStand, Going, Walking
<1>7. o \notin was /\ o \in these /\ o \in Selectors /\ s \in these /\ o # s
  BY <1>2, <1>5, <1>6
<1>8. Leads(dispatcher, store, s, k)
  <2>1. Routes(s, k)
    BY <1>1, <1>2, Verdict
  <2>2. QED
    BY <2>1, RoutesIs
<1>9. Leads(dispatcher, store, o, k)
  BY <1>2, <1>5 DEF Verified
<1>10. /\ longer \in Seq(Selectors) /\ Apart(longer, waiting, s)
       /\ Going(longer, waiting, s) = was \union {o}
  <2>1. o \in Selectors /\ o \notin Going(queue, waiting, s) /\ Apart(queue, waiting, s)
    BY <1>2, <1>7 DEF WalksStand
  <2> HIDE DEF o, longer
  <2>2. longer = Longer(queue, o)
    BY DEF longer
  <2>3. QED
    BY <1>2, <2>1, <2>2, QueuedAgain
<1>11. Out(s, k, shared', failed')
  BY <1>1 DEF Out
<1>12. /\ CameThrough(dispatcher', store', known', walk', shared', failed')
       /\ Apart(longer, waiting', walk'.selector)
       /\ \/ Going(longer, waiting', walk'.selector) = Going(longer, waiting, s)
          \/ /\ Going(longer, waiting', walk'.selector) = Going(longer, waiting, s) \ {s}
             /\ \A i \in 1 .. Len(ReadsOf(dispatcher, s, store)) :
                  Out(s, ReadsOf(dispatcher, s, store)[i], shared', failed')
  <2> HIDE DEF longer
  <2>1. QED
    BY <1>1, <1>2, <1>4, <1>10, <1>11, GoneOn
<1>13. now \subseteq was \union {o} /\ o \in now /\ Apart(queue', waiting', walk'.selector)
  BY <1>1, <1>7, <1>10, <1>12
<1>14. ASSUME NEW t \in (was \union {o}) \ now
       PROVE  t = s /\ \A i \in 1 .. Len(ReadsOf(dispatcher, s, store)) :
                          Out(s, ReadsOf(dispatcher, s, store)[i], shared', failed')
  BY <1>1, <1>10, <1>12
<1>15. these = ToSet(Probed(wanted)) /\ was = Going(queue, waiting, walk.selector)
       /\ now = Going(queue', waiting', walk'.selector)
  OBVIOUS
<1> HIDE DEF k, o, these, was, now, longer
<1>16. /\ DOMAIN claims' = DOMAIN claims \ {k}
       /\ \A x \in DOMAIN claims' : claims'[x] = claims[x]
  BY <1>1 DEF Without
<1>17. /\ DOMAIN found' = DOMAIN found \ {o}
       /\ \A x \in DOMAIN found' : found'[x] = found[x]
  BY <1>1 DEF Without
<1>18. WalksStand(these, phase', queue', waiting', walk'.selector, found')
  <2>1. now \intersect DOMAIN found' = {} /\ now \union DOMAIN found' \subseteq these /\ phase' = "walking"
    BY <1>4, <1>6, <1>7, <1>13, <1>17
  <2>2. QED
    BY <1>13, <1>15, <2>1 DEF WalksStand
<1>19. Claimed(found', claims', shared')
  <2>0. claims[k] = o
    BY DEF k, o
  <2>1. ASSUME NEW x \in DOMAIN found' PROVE found'[x] \in DOMAIN claims' /\ claims'[found'[x]] = x
    <3>1. x # o /\ found'[x] = found[x] /\ found[x] \in DOMAIN claims /\ claims[found[x]] = x
      BY <1>2, <1>17 DEF Claimed
    <3>2. QED
      BY <1>16, <2>0, <3>1
  <2>2. ASSUME NEW y \in DOMAIN claims' PROVE claims'[y] \in DOMAIN found' /\ found'[claims'[y]] = y
    <3>1. y # k /\ claims'[y] = claims[y] /\ claims[y] \in DOMAIN found /\ found[claims[y]] = y
      BY <1>2, <1>16 DEF Claimed
    <3>2. claims[y] # o
      BY <1>5, <3>1
    <3>3. QED
      BY <1>17, <3>1, <3>2
  <2>3. shared' \intersect DOMAIN claims' = {}
    BY <1>1, <1>2, <1>16 DEF Claimed
  <2>4. QED
    BY <2>1, <2>2, <2>3 DEF Claimed
<1>20. s \notin DOMAIN found'
  BY <1>6, <1>17
<1>21. ASSUME NEW t \in these \ now
       PROVE  \/ /\ t \notin was
                 /\ t \in DOMAIN found' <=> t \in DOMAIN found
                 /\ t \in DOMAIN found => found'[t] = found[t]
              \/ Settled(dispatcher, store, t, found', shared', failed')
  <2>1. CASE t \in was
    <3>1. t = s /\ \A i \in 1 .. Len(ReadsOf(dispatcher, s, store)) :
                      Out(s, ReadsOf(dispatcher, s, store)[i], shared', failed')
      BY <1>14, <2>1
    <3>2. Settled(dispatcher, store, t, found', shared', failed')
      BY <1>20, <3>1 DEF Settled
    <3>3. QED
      BY <3>2
  <2>2. CASE t \notin was
    <3>1. t # o
      BY <1>13
    <3>2. QED
      BY <1>17, <2>2, <3>1
  <2>3. QED
    BY <2>1, <2>2
<1>22. \A x \in shared' \ shared : \E a, b \in these :
         a # b /\ Leads(dispatcher, store, a, x) /\ Leads(dispatcher, store, b, x)
  <2>1. \A x \in shared' \ shared : x = k
    BY <1>1
  <2>2. QED
    BY <1>7, <1>8, <1>9, <2>1
<1>23. QED
  BY <1>4, <1>12, <1>15, <1>18, <1>19, <1>21, <1>22, RoutesStand

LEMMA TryStands ==
  ASSUME WalkInv, RoutesInv, Try
  PROVE  RoutesInv'
<1> DEFINE test == Call(walk.selector, Stubbed(Known, Key))
<1>1. Walking /\ ~Tried /\ (Defer(test) \/ Claim(test) \/ Contest(test) \/ Fail(test))
  BY DEF Try
<1>2. test = Call(walk.selector, Stubbed(Known, Key))
  OBVIOUS
<1> HIDE DEF test
<1>3. CASE Defer(test)
  BY <1>1, <1>3, DeferStands
<1>4. CASE Claim(test)
  BY <1>1, <1>4, ClaimStands
<1>5. CASE Contest(test)
  BY <1>1, <1>2, <1>5, ContestStands
<1>6. CASE Fail(test)
  BY <1>1, <1>6, FailStands
<1>7. QED
  BY <1>1, <1>3, <1>4, <1>5, <1>6

(* A walk starts, unless the dispatch reads nothing at all.                *)
LEMMA TakeStands ==
  ASSUME WalkInv, RoutesInv, Take
  PROVE  RoutesInv'
<1> DEFINE s == Last(queue)
           R == ReadsOf(dispatcher, s, AsFarAs(store, known))
           these == ToSet(Probed(wanted))
           was == Going(queue, waiting, walk.selector)
           now == Going(queue', waiting', walk'.selector)
<1>1. /\ phase = "walking" /\ walk = NoWalk /\ queue # <<>> /\ queue' = Front(queue)
      /\ walk' = Walk(s, Reads(s, Known))
      /\ UNCHANGED <<proxy, phase, known, needs, waiting, shared, claims, found, failed>>
  BY DEF Take
<1>2. /\ TypeOK /\ queue \in Seq(Selectors) /\ waiting \in Seq(Selectors)
      /\ WalksStand(these, phase, queue, waiting, walk.selector, found)
      /\ Claimed(found, claims, shared)
  BY Standing
<1>3. /\ dispatcher' = dispatcher /\ store' = store /\ wanted' = wanted /\ phase' = phase
      /\ known' = known /\ waiting' = waiting
      /\ shared' = shared /\ claims' = claims /\ found' = found /\ failed' = failed
  BY <1>1 DEF proxy
<1>4. walk.selector = Common
  BY <1>1 DEF NoWalk
<1>5. /\ queue' \in Seq(Selectors) /\ s \in Selectors /\ Apart(queue', waiting, s)
      /\ Going(queue', waiting, s) = was
  <2>1. Apart(queue, waiting, Common)
    BY <1>2, <1>4 DEF WalksStand
  <2>2. s = Last(queue) /\ was = Going(queue, waiting, Common)
    BY <1>4
  <2> HIDE DEF s, was
  <2>3. QED
    BY <1>1, <1>2, <2>1, <2>2, WalkerTaken
<1>6. was \intersect DOMAIN found = {} /\ was \union DOMAIN found \subseteq these
  BY <1>2 DEF WalksStand
<1>7. these = ToSet(Probed(wanted)) /\ was = Going(queue, waiting, walk.selector)
      /\ now = Going(queue', waiting', walk'.selector)
  OBVIOUS
<1>8. s \in was
  BY <1>5, CommonAssumption DEF Going
<1> HIDE DEF s, was, these
<1>9. /\ Reads(s, Known) = R /\ R \in Seq(Slots) /\ Len(R) \in Nat
      /\ R = ReadsOf(dispatcher, s, AsFarAs(store, known))
  <2>1. Known = AsFarAs(store, known)
    BY DEF Known, AsFarAs
  <2>2. Reads(s, Known) = R
    BY <2>1, ReadsIs
  <2>3. QED
    BY <1>2, <1>5, <2>2, OfTheKnown
<1> HIDE DEF R
<1>10. CASE R = <<>>
  <2>1. walk' = NoWalk /\ walk'.selector = Common
    BY <1>1, <1>9, <1>10 DEF Walk, NoWalk
  <2>2. CameThrough(dispatcher', store', known', walk', shared', failed')
    BY <2>1 DEF CameThrough
  <2>3. Apart(queue', waiting', walk'.selector) /\ now = was \ {s}
    <3>1. Apart(queue', waiting, Common) /\ Going(queue', waiting, Common) = was \ {s}
      BY <1>2, <1>5, WalkerEnds
    <3>2. QED
      BY <1>3, <2>1, <3>1
  <2>4. ReadsOf(dispatcher, s, store) = <<>>
    <3>1. \A i \in 1 .. Len(R) : R[i] \in known
      BY <1>10
    <3>2. known \in SUBSET Slots /\ store \in [Slots -> {"zero", "live"}] /\ Callable(dispatcher, s, store)
      <4>1. dispatcher \in Seq(Steps) /\ Len(dispatcher) <= MaxSteps
            /\ store \in [Slots -> {"zero", "live"}] /\ known \in SUBSET Slots
        BY <1>2, DispatchersAssumption DEF TypeOK
      <4>2. QED
        BY <1>5, <4>1 DEF Callable, Words
    <3>3. ReadsOf(dispatcher, s, store) = R
      BY <1>9, <3>1, <3>2, WalkedThrough
    <3>4. QED
      BY <1>10, <3>3
  <2>5. Settled(dispatcher, store, s, found', shared', failed')
    <3>1. s \notin DOMAIN found'
      BY <1>3, <1>6, <1>8
    <3>2. \A i \in 1 .. Len(ReadsOf(dispatcher, s, store)) :
            Out(s, ReadsOf(dispatcher, s, store)[i], shared', failed')
      BY <2>4
    <3>3. QED
      BY <3>1, <3>2 DEF Settled
  <2> HIDE DEF now
  <2>6. WalksStand(these, phase', queue', waiting', walk'.selector, found')
    <3>1. /\ now \intersect DOMAIN found' = {} /\ now \union DOMAIN found' \subseteq these
          /\ phase' = "walking"
      BY <1>1, <1>3, <1>6, <2>3
    <3>2. QED
      BY <1>7, <2>3, <3>1 DEF WalksStand
  <2>7. ASSUME NEW t \in these \ now
        PROVE  \/ t \notin was /\ found' = found
               \/ Settled(dispatcher, store, t, found', shared', failed')
    BY <1>3, <2>3, <2>5
  <2>8. Claimed(found', claims', shared')
    BY <1>2, <1>3
  <2>9. QED
    BY <1>3, <1>7, <2>2, <2>6, <2>7, <2>8, RoutesStand
<1>11. CASE R # <<>>
  <2>1. walk' = [selector |-> s, keys |-> R]
    BY <1>1, <1>9, <1>11 DEF Walk
  <2>2. walk'.selector = s /\ walk'.keys = R
    BY <2>1
  <2>3. now = was /\ Apart(queue', waiting', walk'.selector)
    BY <1>3, <1>5, <2>2
  <2>4. CameThrough(dispatcher', store', known', walk', shared', failed')
    <3>1. SubSeq(R, 0 + 1, Len(R)) = R /\ 0 \in 0 .. Len(R) - 1
      <4>1. SubSeq(R, 1, Len(R)) = R
        BY <1>9, SubSeqFull
      <4>2. QED
        BY <1>9, <1>11, <4>1
    <3>2. \A i \in 1 .. 0 : R[i] \in known' /\ Out(walk'.selector, R[i], shared', failed')
      OBVIOUS
    <3>3. R = ReadsOf(dispatcher', walk'.selector, AsFarAs(store', known'))
      BY <1>3, <1>9, <2>2
    <3>4. \E m \in 0 .. Len(R) - 1 :
            /\ walk'.keys = SubSeq(R, m + 1, Len(R))
            /\ \A i \in 1 .. m : R[i] \in known' /\ Out(walk'.selector, R[i], shared', failed')
      BY <2>2, <3>1, <3>2
    <3>5. QED
      BY <3>3, <3>4 DEF CameThrough
  <2> HIDE DEF now
  <2>5. WalksStand(these, phase', queue', waiting', walk'.selector, found')
    <3>1. /\ now \intersect DOMAIN found' = {} /\ now \union DOMAIN found' \subseteq these
          /\ phase' = "walking"
      BY <1>1, <1>3, <1>6, <2>3
    <3>2. QED
      BY <1>7, <2>3, <3>1 DEF WalksStand
  <2>6. \A t \in these \ now : t \notin was /\ found' = found
    BY <1>3, <2>3
  <2>7. Claimed(found', claims', shared')
    BY <1>2, <1>3
  <2>8. QED
    BY <1>3, <1>7, <2>4, <2>5, <2>6, <2>7, RoutesStand
<1>12. QED
  BY <1>10, <1>11

(* Steps with no walk, that leave the rest as it is.                       *)
LEMMA IdleStands ==
  ASSUME WalkInv, RoutesInv, walk = NoWalk, UNCHANGED <<proxy, walk, shared, claims, found, failed>>,
         WalksStand(ToSet(Probed(wanted)), phase', queue', waiting', walk'.selector, found'),
         Going(queue', waiting', walk'.selector) = Going(queue, waiting, walk.selector)
  PROVE  RoutesInv'
<1> DEFINE these == ToSet(Probed(wanted))
           was == Going(queue, waiting, walk.selector)
           now == Going(queue', waiting', walk'.selector)
<1>1. /\ dispatcher' = dispatcher /\ store' = store /\ wanted' = wanted /\ walk' = NoWalk
      /\ shared' = shared /\ claims' = claims /\ found' = found /\ failed' = failed
  BY DEF proxy
<1>2. Claimed(found', claims', shared')
  BY <1>1, Standing
<1>3. CameThrough(dispatcher', store', known', walk', shared', failed')
  BY <1>1 DEF CameThrough
<1>4. these = ToSet(Probed(wanted)) /\ was = Going(queue, waiting, walk.selector)
      /\ now = Going(queue', waiting', walk'.selector) /\ now = was
      /\ WalksStand(these, phase', queue', waiting', walk'.selector, found')
  OBVIOUS
<1> HIDE DEF these, was, now
<1>5. \A t \in these \ now : t \notin was /\ found' = found
  BY <1>1, <1>4
<1>6. QED
  BY <1>1, <1>2, <1>3, <1>4, <1>5, RoutesStand

LEMMA FetchStands ==
  ASSUME WalkInv, RoutesInv, Fetch
  PROVE  RoutesInv'
<1>1. /\ phase = "walking" /\ phase' = phase /\ walk = NoWalk /\ queue = <<>>
      /\ queue' = Only(waiting, Selectors \ DOMAIN found) /\ waiting' = <<>>
      /\ UNCHANGED <<proxy, walk, shared, claims, found, failed>> /\ found' = found /\ walk' = walk
  BY DEF Fetch
<1>2. /\ waiting \in Seq(Selectors)
      /\ WalksStand(ToSet(Probed(wanted)), phase, queue, waiting, walk.selector, found)
  BY Standing
<1>3. walk.selector = Common
  BY <1>1 DEF NoWalk
<1>4. ToSet(waiting) \subseteq Selectors /\ ToSet(queue) = {} /\ ToSet(waiting') = {} /\ IsInjective(waiting')
  BY <1>1, <1>2 DEF ToSet, IsInjective
<1>5. Going(queue, waiting, walk.selector) = ToSet(waiting) /\ IsInjective(waiting)
  BY <1>2, <1>3, <1>4 DEF WalksStand, Going, Apart
<1>6. ToSet(waiting) \intersect DOMAIN found = {}
  BY <1>2, <1>5 DEF WalksStand
<1>7. IsInjective(queue') /\ ToSet(queue') = ToSet(waiting)
  <2>1. /\ IsInjective(Only(waiting, Selectors \ DOMAIN found))
        /\ ToSet(Only(waiting, Selectors \ DOMAIN found)) = ToSet(waiting) \intersect (Selectors \ DOMAIN found)
    BY <1>2, <1>5, OnlyApart
  <2>2. QED
    BY <1>1, <1>4, <1>6, <2>1
<1>8. Going(queue', waiting', walk'.selector) = Going(queue, waiting, walk.selector)
  BY <1>1, <1>3, <1>4, <1>5, <1>7 DEF Going
<1>9. Apart(queue', waiting', walk'.selector)
  BY <1>1, <1>3, <1>4, <1>7, CommonAssumption DEF Apart
<1>10. WalksStand(ToSet(Probed(wanted)), phase', queue', waiting', walk'.selector, found')
  BY <1>1, <1>2, <1>8, <1>9 DEF WalksStand
<1>11. QED
  BY <1>1, <1>8, <1>10, IdleStands

LEMMA FinishStands ==
  ASSUME WalkInv, RoutesInv, Finish
  PROVE  RoutesInv'
<1>1. /\ walk = NoWalk /\ queue = <<>> /\ waiting = <<>> /\ queue' = queue /\ waiting' = waiting
      /\ UNCHANGED <<proxy, walk, shared, claims, found, failed>> /\ found' = found /\ walk' = walk
  BY DEF Finish
<1>2. WalksStand(ToSet(Probed(wanted)), phase, queue, waiting, walk.selector, found)
  BY Standing
<1>3. Going(queue, waiting, walk.selector) = {}
  BY <1>1 DEF Going, ToSet, NoWalk
<1>4. Going(queue', waiting', walk'.selector) = Going(queue, waiting, walk.selector)
  BY <1>1
<1>5. WalksStand(ToSet(Probed(wanted)), phase', queue', waiting', walk'.selector, found')
  BY <1>1, <1>2, <1>3, <1>4 DEF WalksStand
<1>6. QED
  BY <1>1, <1>4, <1>5, IdleStands

LEMMA RoutesStutter ==
  ASSUME RoutesInv, UNCHANGED vars
  PROVE  RoutesInv'
<1>1. /\ dispatcher' = dispatcher /\ store' = store /\ wanted' = wanted /\ phase' = phase
      /\ queue' = queue /\ walk' = walk /\ known' = known /\ waiting' = waiting
      /\ shared' = shared /\ claims' = claims /\ found' = found /\ failed' = failed
  BY DEF vars, proxy
<1>2. QED
  BY <1>1, RoutesInvIs, RoutesInvIsStill

LEMMA RoutesStart == Init => RoutesInv
<1> SUFFICES ASSUME Init PROVE RoutesInv
  OBVIOUS
<1> DEFINE these == ToSet(Probed(wanted))
<1>1. /\ phase = "walking" /\ queue = Probed(wanted) /\ walk = NoWalk /\ waiting = <<>>
      /\ shared = {} /\ DOMAIN claims = {} /\ DOMAIN found = {}
  BY DEF Init
<1>2. Probed(wanted) \in Seq(Selectors) /\ IsInjective(Probed(wanted))
  <2>1. wanted \in Seq(Selectors) /\ IsInjective(wanted)
    BY RequestsAssumption DEF Init
  <2>2. QED
    BY <2>1, SoughtIs
<1>3. walk.selector = Common /\ these \subseteq Selectors
  BY <1>1, <1>2 DEF NoWalk, ToSet
<1>4. ToSet(queue) = these /\ ToSet(waiting) = {} /\ IsInjective(waiting)
  BY <1>1 DEF ToSet, IsInjective
<1>5. Going(queue, waiting, walk.selector) = these /\ Apart(queue, waiting, walk.selector)
  BY <1>1, <1>2, <1>3, <1>4, CommonAssumption DEF Going, Apart
<1>6. WalksStand(these, phase, queue, waiting, walk.selector, found)
  BY <1>1, <1>5 DEF WalksStand
<1>7. Claimed(found, claims, shared)
  BY <1>1 DEF Claimed
<1>8. CameThrough(dispatcher, store, known, walk, shared, failed)
  BY <1>1 DEF CameThrough
<1>9. AllSettled(dispatcher, store, these \ Going(queue, waiting, walk.selector), found, shared, failed)
  BY <1>5 DEF AllSettled
<1>10. RouteTwo(dispatcher, store, these, shared)
  BY <1>1 DEF RouteTwo
<1>11. QED
  BY <1>6, <1>7, <1>8, <1>9, <1>10, RoutesInvIs

(* Every walk is under way, or has come to its selector's route or to the  *)
(* end of its dispatch past slots that are not.                            *)
THEOREM RoutesHold == Spec => []RoutesInv
<1>1. Init => RoutesInv
  BY RoutesStart
<1>2. WalkInv /\ RoutesInv /\ [Next]_vars => RoutesInv'
  <2> SUFFICES ASSUME WalkInv, RoutesInv, [Next]_vars PROVE RoutesInv'
    OBVIOUS
  <2>1. CASE Take
    BY <2>1, TakeStands
  <2>2. CASE Pass
    BY <2>2, PassStands
  <2>3. CASE Try
    BY <2>3, TryStands
  <2>4. CASE Fetch
    BY <2>4, FetchStands
  <2>5. CASE Finish
    BY <2>5, FinishStands
  <2>6. CASE Ended
    BY <2>6, RoutesStutter DEF Ended
  <2>7. CASE UNCHANGED vars
    BY <2>7, RoutesStutter
  <2>8. QED
    BY <2>1, <2>2, <2>3, <2>4, <2>5, <2>6, <2>7 DEF Next
<1>3. QED
  BY <1>1, <1>2, WalkHolds, PTL DEF Spec

(* Whatever the proxy's code and storage, and however its walks were cut   *)
(* short, resumed and contested, what ProxyStorage.fetch finds for each    *)
(* selector asked for is its route: the first slot its dispatch reads that *)
(* routes it and none of the others; and where it finds none there is none. *)
THEOREM RoutesAreFound == Spec => []FindsTheRoutes
<1>1. WalkInv /\ RoutesInv => FindsTheRoutes
  BY EndedFound
<1>2. QED
  BY <1>1, WalkHolds, RoutesHold, PTL
===============================================================================
