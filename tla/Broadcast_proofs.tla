--------------------------- MODULE Broadcast_proofs ---------------------------
(***************************************************************************)
(* A run's creations go where they were planned, whatever else the sender  *)
(* sends and the node does with what is pending, and each `cast` of it     *)
(* that signs is given the password: for any number of runs, creations and *)
(* mishaps.                                                                *)
(***************************************************************************)
EXTENDS Broadcast, Integers, FiniteSetTheorems, WellFoundedInduction, TLAPS

(* Every set of numbers has a least one.                                   *)
LEMMA Least ==
  ASSUME NEW T \in SUBSET Nat, T # {}
  PROVE  \E x \in T : \A y \in T : x <= y
<1>1. PICK x \in T : \A y \in T : <<y, x>> \notin OpToRel(<, Nat)
  BY NatLessThanWellFounded, WFMin, Zenon
<1>2. \A y \in T : y \in Nat /\ x \in Nat
  OBVIOUS
<1>3. \A y \in T : ~(y < x)
  BY <1>1, <1>2, Zenon DEF OpToRel
<1>4. QED
  BY <1>2, <1>3

-----------------------------------------------------------------------------
(* The keystore session.                                                   *)

(* A cast reads all of what a session wrote.                               *)
LEMMA ReadsWhatIsWritten ==
  ASSUME NEW password \in Passwords
  PROVE  Reads(Written(password)) = password
<1>1. password \in Seq(STRING)
  BY PasswordsAssumption
<1>2. SubSeq(password, 1, Len(password)) = password
  BY <1>1
<1>3. QED
  BY <1>2 DEF Reads, Written, Rewound

LEMMA InitKeystore == Init => KeystoreInv
BY DEF Init, KeystoreInv, KeystoreTypeOK, PasswordGetsThrough, NothingLeftOpen

(* Each step of a session keeps what it knows of the password.             *)
LEMMA NextKeystore == KeystoreInv /\ [Next]_vars => KeystoreInv'
<1> SUFFICES ASSUME KeystoreInv, [Next]_vars PROVE KeystoreInv'
  OBVIOUS
<1> USE DEF KeystoreInv, KeystoreTypeOK, PasswordGetsThrough, NothingLeftOpen, env
<1>1. CASE StartSession
  BY <1>1 DEF StartSession
<1>2. CASE Unlock
  BY <1>2 DEF Unlock
<1>3. CASE GiveUp
  BY <1>3 DEF GiveUp
<1>4. CASE Cast
  <2>1. file = keystore /\ Reads(file) = keystore
    BY <1>4, ReadsWhatIsWritten DEF Cast, Written
  <2>2. QED
    BY <1>4, <2>1 DEF Cast
<1>5. CASE EndSession
  BY <1>5 DEF EndSession
<1>6. CASE \E password \in Passwords : Attempt(password)
  <2>1. PICK password \in Passwords : Attempt(password)
    BY <1>6
  <2>2. file' = password /\ Reads(file') = password
    BY <2>1, ReadsWhatIsWritten DEF Attempt, Written
  <2>3. CASE password = keystore
    BY <2>1, <2>2, <2>3 DEF Attempt
  <2>4. CASE password # keystore
    BY <2>1, <2>2, <2>4 DEF Attempt
  <2>5. QED
    BY <2>3, <2>4
<1>7. CASE UNCHANGED vars
  BY <1>7 DEF vars
<1>8. QED
  BY <1>1, <1>2, <1>3, <1>4, <1>5, <1>6, <1>7 DEF Next, Ended

(* In every session the right password is never refused, and every cast    *)
(* that signs is given it.                                                 *)
THEOREM PasswordIsGiven == Spec => []PasswordGetsThrough
<1>1. KeystoreInv => PasswordGetsThrough
  BY DEF KeystoreInv
<1>2. QED
  BY <1>1, InitKeystore, NextKeystore, PTL DEF Spec

(* A session leaves no file with a password open behind it.                *)
THEOREM NoFileLeftOpen == Spec => []NothingLeftOpen
<1>1. KeystoreInv => NothingLeftOpen
  BY DEF KeystoreInv
<1>2. QED
  BY <1>1, InitKeystore, NextKeystore, PTL DEF Spec

(* Each step of a run is one of its keystore session, or leaves it alone.  *)
LEMMA StepOfKeystore == [BroadcastNext]_broadcast_vars => [Next]_vars
<1> SUFFICES ASSUME [BroadcastNext]_broadcast_vars PROVE [Next]_vars
  OBVIOUS
<1>1. CASE StartRun \/ AskPassword \/ TypePassword \/ NoPassword \/ EndRun
  BY <1>1 DEF StartRun, AskPassword, TypePassword, NoPassword, EndRun, Next
<1>2. CASE Stop \/ Done \/ Estimate
  BY <1>2 DEF Stop, Done, Estimate, Ended
<1>3. CASE \E code \in Initcodes : Create(code)
  BY <1>3 DEF Create, Next
<1>4. CASE Send
  BY <1>4 DEF Send, Next
<1>5. CASE AwaitReceipt \/ Prefetch \/ Record
  BY <1>5 DEF AwaitReceipt, Prefetch, Record
<1>6. CASE Mine \/ Other \/ Drop
  BY <1>6 DEF Mine, Other, Drop
<1>7. CASE UNCHANGED broadcast_vars
  BY <1>7 DEF broadcast_vars
<1>8. QED
  BY <1>1, <1>2, <1>3, <1>4, <1>5, <1>6, <1>7 DEF BroadcastNext

(* The runs use their keystore as Keystore says a session is used.         *)
THEOREM RunsUseTheKeystore == BroadcastSpec => Spec
<1>1. BroadcastInit => Init
  BY DEF BroadcastInit
<1>2. QED
  BY <1>1, StepOfKeystore, PTL DEF BroadcastSpec, Spec

-----------------------------------------------------------------------------
(* What a run asks for, and how its choices come out.                      *)

(* The loops go through the creations in order.                            *)
LEMMA Earliest ==
  ASSUME NEW S \in SUBSET Nat, S # {}
  PROVE  Next1(S) \in S /\ \A j \in S : Next1(S) <= j
BY Least DEF Next1

(* `cast nonce --block pending` answers the first nonce neither mined nor  *)
(* pending.                                                                *)
LEMMA PendingNonceIs ==
  ASSUME BroadcastTypeOK
  PROVE  /\ PendingNonce \in 0..MaxNonce + 1 /\ PendingNonce >= Len(mined)
         /\ PendingNonce \in Nonces => pool[PendingNonce] = NoTx
         /\ \A m \in Len(mined)..PendingNonce - 1 : pool[m] # NoTx
<1> DEFINE free == {n \in 0..MaxNonce + 1 : n >= Len(mined) /\ (n \in Nonces => pool[n] = NoTx)}
           From(n) == /\ n >= Len(mined) /\ (n \in Nonces => pool[n] = NoTx)
                      /\ \A m \in Len(mined)..n - 1 : pool[m] # NoTx
<1>1. MaxNonce \in Nat /\ Len(mined) \in Nat /\ Len(mined) <= MaxNonce + 1
  BY BroadcastBounds DEF BroadcastTypeOK
<1>2. free \in SUBSET Nat /\ MaxNonce + 1 \in free
  BY <1>1 DEF Nonces
<1>3. PICK n \in free : \A k \in free : n <= k
  <2> HIDE DEF free
  <2>1. QED
    BY <1>2, Least
<1>4. \A m \in Len(mined)..n - 1 : pool[m] # NoTx
  <2> SUFFICES ASSUME NEW m \in Len(mined)..n - 1, pool[m] = NoTx PROVE FALSE
    OBVIOUS
  <2>1. m \in free
    BY <1>1, <1>3
  <2>2. QED
    BY <1>1, <1>3, <2>1
<1>5. n \in Nonces \cup {MaxNonce + 1} /\ From(n)
  BY <1>1, <1>3, <1>4 DEF Nonces
<1>6. PendingNonce = CHOOSE k \in Nonces \cup {MaxNonce + 1} : From(k)
  BY DEF PendingNonce
<1> HIDE DEF From
<1>7. PendingNonce \in Nonces \cup {MaxNonce + 1} /\ From(PendingNonce)
  BY <1>5, <1>6
<1>8. QED
  BY <1>1, <1>7 DEF From, Nonces

(* The numbers the proofs below reckon with.                               *)
LEMMA Sizes ==
  ASSUME BroadcastTypeOK
  PROVE  /\ MaxNonce \in Nat /\ Len(mined) \in Nat /\ next_nonce \in Int
         /\ Len(creations) \in Nat /\ DOMAIN creations = 1..Len(creations)
         /\ DOMAIN mined = 1..Len(mined)
         /\ \A i \in DOMAIN creations : creations[i] \in Creation /\ creations[i].nonce \in Nonces
         /\ Nonces \in SUBSET Nat
         /\ NoTx.session = -1
         /\ \A tx \in Transaction : tx # NoTx /\ tx.session >= 0
<1>1. MaxNonce \in Nat
  BY BroadcastBounds
<1>2. \A i \in DOMAIN creations : creations[i] \in Creation /\ creations[i].nonce \in Nonces
  <2>1. \A c \in Creation : c.nonce \in Nonces
    BY DEF Creation
  <2>2. QED
    BY <2>1 DEF BroadcastTypeOK
<1>3. \A tx \in Transaction : tx # NoTx /\ tx.session >= 0
  BY DEF Transaction, NoTx
<1>4. QED
  BY <1>1, <1>2, <1>3 DEF BroadcastTypeOK, Nonces, NoTx

-----------------------------------------------------------------------------
(* The steps of a run.                                                     *)

LEMMA InitBroadcast == BroadcastInit => BroadcastInv
<1> SUFFICES ASSUME BroadcastInit PROVE BroadcastInv
  OBVIOUS
<1>1. MaxNonce \in Nat
  BY BroadcastBounds
<1>2. BroadcastTypeOK
  BY <1>1 DEF BroadcastInit, Init, BroadcastTypeOK, Nonces
<1>3. QED
  BY <1>1, <1>2
     DEF BroadcastInit, BroadcastInv, NoncesInOrder, ReceiptsAreOfTheRun, CodesAreOnChain, RecordedAreOnChain,
         PendingInOrder, NoGap

(* A step that only moves the run on, or starts it, or stops it.           *)
LEMMA QuietKeeps ==
  ASSUME BroadcastInv, UNCHANGED <<chain, creations, next_nonce, codes, recorded>>,
         sessions' \in Nat, sessions' = sessions \/ step = "off",
         \/ step' = step
         \/ step # "off" /\ step' = "over"
         \/ step = "off" /\ step' = "plan"
         \/ step = "plan" /\ step' = "send"
  PROVE  BroadcastInv'
<1>1. BroadcastTypeOK'
  BY DEF BroadcastInv, BroadcastTypeOK, chain
<1>2. NoncesInOrder'
  BY DEF BroadcastInv, NoncesInOrder
<1>3. step = "off" => creations = <<>>
  BY DEF BroadcastInv, NoncesInOrder
<1>4. \A i \in DOMAIN creations : IsMined(i) => IsMined(i)'
  BY <1>3 DEF IsMined, chain
<1>5. ReceiptsAreOfTheRun'
  BY <1>4 DEF BroadcastInv, ReceiptsAreOfTheRun, Unmined, Unsent, Confirms, chain
<1>6. CodesAreOnChain' /\ RecordedAreOnChain'
  BY DEF BroadcastInv, CodesAreOnChain, RecordedAreOnChain, CodeAt, chain
<1>7. PendingInOrder'
  BY DEF BroadcastInv, NoncesInOrder, PendingInOrder, NoGap, GapsAreToSend, AheadIsFree, Unsent, chain
<1>8. QED
  BY <1>1, <1>2, <1>5, <1>6, <1>7 DEF BroadcastInv

LEMMA EndRunKeeps == BroadcastInv /\ EndRun => BroadcastInv'
<1> SUFFICES ASSUME BroadcastInv, EndRun PROVE BroadcastInv'
  OBVIOUS
<1>1. /\ UNCHANGED <<chain, recorded, sessions>> /\ step' = "off" /\ creations' = <<>>
      /\ next_nonce' = -1 /\ codes' = {}
  BY DEF EndRun, EndSession
<1>2. MaxNonce \in Nat
  BY BroadcastBounds
<1>3. BroadcastTypeOK'
  BY <1>1, <1>2 DEF BroadcastInv, BroadcastTypeOK, chain
<1>4. RecordedAreOnChain' /\ PendingInOrder'
  BY <1>1 DEF BroadcastInv, RecordedAreOnChain, CodeAt, PendingInOrder, NoGap, chain
<1>5. QED
  BY <1>1, <1>3, <1>4 DEF BroadcastInv, NoncesInOrder, ReceiptsAreOfTheRun, CodesAreOnChain

(* A creation is planned at the next nonce, which is free, as are those    *)
(* after it.                                                               *)
LEMMA CreateKeeps ==
  ASSUME BroadcastInv, NEW code \in Initcodes, Create(code)
  PROVE  BroadcastInv'
<1> DEFINE n == IF next_nonce = -1 THEN PendingNonce ELSE next_nonce
           new == [nonce |-> n, code |-> code, sent |-> FALSE, mined |-> FALSE, ok |-> FALSE]
           last == Len(creations) + 1
<1>1. /\ UNCHANGED <<chain, step, codes, recorded, sessions>> /\ step = "plan"
      /\ n \in Nonces /\ next_nonce' = n + 1 /\ creations' = Append(creations, new)
  <2>1. sessions' = sessions
    BY DEF Create, Cast, vars
  <2>2. QED
    BY <2>1 DEF Create, FirstNonce
<1>2. BroadcastTypeOK
  BY DEF BroadcastInv
<1>3. /\ next_nonce # -1 => n = next_nonce
      /\ next_nonce = -1 => /\ creations = <<>> /\ n >= Len(mined) /\ pool[n] = NoTx
                            /\ \A m \in Len(mined)..n - 1 : pool[m] # NoTx
  BY <1>1, <1>2, PendingNonceIs DEF BroadcastInv, NoncesInOrder
<1> HIDE DEF n
<1>4. new \in Creation /\ n + 1 \in -1..MaxNonce + 1 /\ n \in Nat
  BY <1>1, <1>2, Sizes DEF Creation, Nonces
<1>5. /\ creations' \in Seq(Creation) /\ DOMAIN creations' = 1..last /\ last \notin DOMAIN creations
      /\ DOMAIN creations' = DOMAIN creations \cup {last}
      /\ creations'[last] = new /\ \A i \in DOMAIN creations : creations'[i] = creations[i]
  BY <1>1, <1>2, <1>4 DEF BroadcastTypeOK
<1>6. BroadcastTypeOK'
  BY <1>1, <1>2, <1>4, <1>5 DEF BroadcastTypeOK, chain
<1>7. new.nonce = n /\ ~new.sent /\ ~new.mined
  OBVIOUS
<1> HIDE DEF new
<1>8. \A i \in DOMAIN creations : creations[i].nonce \in Nat /\ creations[i].nonce < n
  <2>1. \A i \in DOMAIN creations : creations[i].nonce < next_nonce
    BY DEF BroadcastInv, NoncesInOrder
  <2>2. QED
    BY <1>2, <1>3, <2>1, Sizes
<1>9. NoncesInOrder'
  <2>1. \A i, j \in DOMAIN creations : i < j => creations[i].nonce < creations[j].nonce
    BY DEF BroadcastInv, NoncesInOrder
  <2>2. \A i, j \in DOMAIN creations' : i < j => creations'[i].nonce < creations'[j].nonce
    <3> SUFFICES ASSUME NEW i \in DOMAIN creations', NEW j \in DOMAIN creations', i < j
                 PROVE  creations'[i].nonce < creations'[j].nonce
      OBVIOUS
    <3>1. i \in DOMAIN creations
      BY <1>2, <1>5, Sizes
    <3>2. QED
      BY <1>5, <1>7, <1>8, <2>1, <3>1
  <2>3. \A i \in DOMAIN creations' : creations'[i].nonce < n + 1
    BY <1>4, <1>5, <1>7, <1>8
  <2>4. QED
    BY <1>1, <1>4, <2>2, <2>3 DEF NoncesInOrder
<1>10. ReceiptsAreOfTheRun'
  <2>1. \A i \in DOMAIN creations : IsMined(i) => IsMined(i)'
    BY <1>1, <1>5 DEF IsMined, chain
  <2>2. QED
    BY <1>1, <1>5, <1>7, <2>1 DEF BroadcastInv, ReceiptsAreOfTheRun, Confirms, chain
<1>11. CodesAreOnChain' /\ RecordedAreOnChain'
  BY <1>1 DEF BroadcastInv, CodesAreOnChain, RecordedAreOnChain, CodeAt, chain
<1>12. Unsent' = Unsent \cup {last}
  BY <1>5, <1>7 DEF Unsent
<1>13. ASSUME ~dropped
       PROVE  ~displaced /\ NoGap' /\ GapsAreToSend' /\ AheadIsFree'
  <2>1. ~displaced /\ NoGap
    BY <1>13 DEF BroadcastInv, PendingInOrder
  <2>2. next_nonce # -1 => GapsAreToSend /\ AheadIsFree
    BY <1>1, <1>13 DEF BroadcastInv, PendingInOrder
  <2>3. GapsAreToSend'
    <3> SUFFICES ASSUME NEW m \in Len(mined)..n
                 PROVE  pool[m] # NoTx \/ \E i \in Unsent' : creations'[i].nonce = m
      <4>1. mined' = mined /\ pool' = pool /\ next_nonce' - 1 = n
        BY <1>1, <1>4 DEF chain
      <4>2. QED
        BY <4>1 DEF GapsAreToSend
    <3>1. CASE m = n
      BY <1>5, <1>7, <1>12, <3>1
    <3>2. CASE m # n
      <4>1. m \in Len(mined)..n - 1
        BY <1>2, <1>4, <3>2, Sizes
      <4>2. pool[m] # NoTx \/ \E i \in Unsent : creations[i].nonce = m
        BY <1>3, <2>2, <4>1 DEF GapsAreToSend
      <4>3. QED
        BY <1>5, <1>12, <4>2 DEF Unsent
    <3>3. QED
      BY <3>1, <3>2
  <2>4. AheadIsFree'
    <3> SUFFICES ASSUME NEW m \in Nonces, m >= n \/ \E i \in Unsent : creations[i].nonce = m
                 PROVE  pool[m].session <= 0
      <4>1. \A m \in Nonces : m >= n + 1 => m >= n
        BY <1>2, <1>4, Sizes
      <4>2. \A m \in Nonces : (\E i \in Unsent' : creations'[i].nonce = m)
                                => m >= n \/ \E i \in Unsent : creations[i].nonce = m
        BY <1>4, <1>5, <1>7, <1>12 DEF Unsent
      <4>3. QED
        BY <1>1, <4>1, <4>2 DEF AheadIsFree, chain
    <3>1. CASE next_nonce # -1
      BY <1>3, <2>2, <3>1 DEF AheadIsFree
    <3>2. CASE next_nonce = -1
      <4>1. Unsent = {} /\ m >= n
        BY <1>3, <3>2 DEF Unsent
      <4>2. pool[m] = NoTx
        BY <1>1, <1>3, <2>1, <3>2, <4>1 DEF NoGap
      <4>3. QED
        BY <4>2 DEF NoTx
    <3>3. QED
      BY <3>1, <3>2
  <2>5. QED
    BY <1>1, <2>1, <2>3, <2>4 DEF NoGap, chain
<1>14. QED
  BY <1>1, <1>6, <1>9, <1>10, <1>11, <1>13 DEF BroadcastInv, PendingInOrder, chain

(* Creations have nonces of their own.                                     *)
LEMMA NoncesDiffer ==
  ASSUME BroadcastTypeOK, NoncesInOrder, NEW i \in DOMAIN creations, NEW j \in DOMAIN creations, i # j
  PROVE  creations[i].nonce # creations[j].nonce
<1>1. i \in Nat /\ j \in Nat /\ creations[i].nonce \in Nat /\ creations[j].nonce \in Nat
  BY Sizes
<1>2. i < j \/ j < i
  BY <1>1
<1>3. QED
  BY <1>1, <1>2 DEF NoncesInOrder

(* A transaction the node takes for the first creation still to send       *)
(* displaces none of an earlier run's, and closes the gap before it.       *)
LEMMA TakenKeeps ==
  ASSUME BroadcastInv, step = "send", Unsent # {}, NEW i, i = Next1(Unsent),
         creations[i].nonce >= Len(mined),
         pool' = [pool EXCEPT ![creations[i].nonce] = Tx(creations[i].code)],
         displaced' = (displaced \/ pool[creations[i].nonce].session > 0),
         mined' = mined, dropped' = dropped
  PROVE  /\ i \in Unsent /\ i \in DOMAIN creations
         /\ pool' \in [Nonces -> Transaction \cup {NoTx}] /\ displaced' \in BOOLEAN
         /\ pool'[creations[i].nonce] # NoTx
         /\ \A m \in Nonces : m # creations[i].nonce => pool'[m] = pool[m]
         /\ ~dropped => ~displaced' /\ NoGap'
<1> DEFINE nonce == creations[i].nonce
           tx == Tx(creations[i].code)
<1>1. BroadcastTypeOK /\ NoncesInOrder
  BY DEF BroadcastInv
<1>2. i \in Unsent /\ i \in DOMAIN creations /\ \A j \in Unsent : i <= j
  <2>1. Unsent \in SUBSET Nat
    BY <1>1, Sizes DEF Unsent
  <2>2. QED
    BY <2>1, Earliest DEF Unsent
<1>3. nonce \in Nonces /\ nonce \in Nat /\ nonce < next_nonce /\ next_nonce # -1
  BY <1>1, <1>2, Sizes DEF NoncesInOrder
<1>4. tx \in Transaction /\ tx # NoTx
  <2>1. creations[i].code \in Initcodes
    BY <1>1, <1>2, Sizes DEF Creation
  <2>2. tx \in Transaction
    BY <1>1, <2>1 DEF Tx, Transaction, BroadcastTypeOK
  <2>3. QED
    BY <1>1, <2>2, Sizes
<1>5. pool \in [Nonces -> Transaction \cup {NoTx}] /\ displaced \in BOOLEAN
  BY <1>1 DEF BroadcastTypeOK
<1> HIDE DEF tx
<1>6. pool' = [pool EXCEPT ![nonce] = tx]
  BY DEF tx
<1> HIDE DEF nonce
<1>7. /\ pool' \in [Nonces -> Transaction \cup {NoTx}] /\ pool'[nonce] = tx
      /\ \A m \in Nonces : m # nonce => pool'[m] = pool[m]
  BY <1>3, <1>4, <1>5, <1>6
<1>8. ASSUME ~dropped
      PROVE  ~displaced' /\ NoGap'
  <2>1. ~displaced /\ NoGap /\ GapsAreToSend /\ AheadIsFree
    BY <1>3, <1>8 DEF BroadcastInv, PendingInOrder
  <2>2. pool[nonce].session <= 0
    BY <1>2, <1>3, <2>1 DEF AheadIsFree, nonce
  <2>3. pool[nonce].session \in Int
    <3>1. pool[nonce] \in Transaction \/ pool[nonce] = NoTx
      BY <1>3, <1>5
    <3>2. QED
      BY <3>1 DEF Transaction, NoTx
  <2>4. ~displaced'
    <3>1. ~(pool[nonce].session > 0)
      BY <2>2, <2>3
    <3>2. ~(displaced \/ pool[creations[i].nonce].session > 0)
      BY <2>1, <3>1 DEF nonce
    <3>3. QED
      BY <3>2, Zenon
  <2>5. ASSUME NEW k \in Nonces, Len(mined) <= k, k < nonce
        PROVE  pool[k] # NoTx
    <3>1. k \in Len(mined)..next_nonce - 1
      BY <1>1, <1>3, <2>5, Sizes
    <3>2. ASSUME NEW j \in Unsent, creations[j].nonce = k PROVE FALSE
      <4>1. j \in DOMAIN creations /\ j # i /\ i \in Nat /\ j \in Nat /\ i <= j
        BY <1>1, <1>2, <1>3, <2>5, <3>2, Sizes DEF Unsent, nonce
      <4>2. nonce < creations[j].nonce
        BY <1>1, <1>2, <4>1 DEF NoncesInOrder, nonce
      <4>3. QED
        BY <1>1, <1>3, <2>5, <3>2, <4>2, Sizes
    <3>3. QED
      BY <2>1, <3>1, <3>2 DEF GapsAreToSend
  <2>6. ASSUME NEW k \in Nonces, NEW m \in Nonces, Len(mined) <= k, k <= m, pool'[m] # NoTx
        PROVE  pool'[k] # NoTx
    <3>1. k \in Nat /\ m \in Nat
      BY <1>1, Sizes
    <3>2. CASE k = nonce
      BY <1>4, <1>7, <3>2
    <3>3. CASE k # nonce /\ m = nonce
      BY <1>3, <1>7, <2>5, <2>6, <3>1, <3>3
    <3>4. CASE k # nonce /\ m # nonce
      BY <1>7, <2>1, <2>6, <3>4 DEF NoGap
    <3>5. QED
      BY <3>2, <3>3, <3>4
  <2>7. NoGap'
    BY <2>6 DEF NoGap
  <2>8. QED
    BY <2>4, <2>7
<1>9. displaced' \in BOOLEAN
  BY <1>5
<1>10. QED
  BY <1>2, <1>4, <1>7, <1>8, <1>9 DEF nonce

LEMMA SendKeeps == BroadcastInv /\ Send => BroadcastInv'
<1> SUFFICES ASSUME BroadcastInv, Send PROVE BroadcastInv'
  OBVIOUS
<1> DEFINE i == Next1(Unsent)
           nonce == creations[i].nonce
           Takes == /\ nonce >= Len(mined)
                    /\ pool' = [pool EXCEPT ![nonce] = Tx(creations[i].code)]
                    /\ displaced' = (displaced \/ pool[nonce].session > 0)
<1>1. /\ step = "send" /\ Unsent # {}
      /\ UNCHANGED <<mined, dropped, next_nonce, codes, recorded, sessions>>
  BY DEF Send, Cast
<1>2. BroadcastTypeOK /\ NoncesInOrder
  BY DEF BroadcastInv
<1>3. \/ /\ Takes /\ creations' = [creations EXCEPT ![i].sent = TRUE]
         /\ step' = IF Unsent = {i} THEN "wait" ELSE "send"
      \/ step' = "over" /\ UNCHANGED <<pool, displaced, creations>>
      \/ Takes /\ step' = "over" /\ UNCHANGED creations
  BY DEF Send
<1>4. Takes => /\ i \in Unsent /\ i \in DOMAIN creations
               /\ pool' \in [Nonces -> Transaction \cup {NoTx}] /\ displaced' \in BOOLEAN
               /\ pool'[nonce] # NoTx
               /\ \A m \in Nonces : m # nonce => pool'[m] = pool[m]
               /\ ~dropped => ~displaced' /\ NoGap'
  BY <1>1, TakenKeeps
<1>5. CodesAreOnChain' /\ RecordedAreOnChain'
  BY <1>1 DEF BroadcastInv, CodesAreOnChain, RecordedAreOnChain, CodeAt
<1>6. CASE step' = "over" /\ UNCHANGED <<pool, displaced, creations>>
  <2>1. sessions \in Nat
    BY <1>2 DEF BroadcastTypeOK
  <2>2. QED
    BY <1>1, <1>6, <2>1, QuietKeeps DEF chain
<1>7. CASE Takes /\ step' = "over" /\ UNCHANGED creations
  <2>1. BroadcastTypeOK'
    BY <1>1, <1>2, <1>4, <1>7 DEF BroadcastTypeOK
  <2>2. NoncesInOrder' /\ ReceiptsAreOfTheRun'
    BY <1>1, <1>7 DEF BroadcastInv, NoncesInOrder, ReceiptsAreOfTheRun, IsMined
  <2>3. PendingInOrder'
    BY <1>1, <1>4, <1>7 DEF PendingInOrder
  <2>4. QED
    BY <1>5, <2>1, <2>2, <2>3 DEF BroadcastInv
<1>8. CASE /\ Takes /\ creations' = [creations EXCEPT ![i].sent = TRUE]
           /\ step' = IF Unsent = {i} THEN "wait" ELSE "send"
  <2>1. i \in Unsent /\ i \in DOMAIN creations /\ i \in Nat
    BY <1>2, <1>4, <1>8, Sizes
  <2> HIDE DEF i, Takes
  <2>2. /\ creations' \in Seq(Creation) /\ DOMAIN creations' = DOMAIN creations
        /\ \A j \in DOMAIN creations : /\ j # i => creations'[j] = creations[j]
                                       /\ creations'[j].nonce = creations[j].nonce
                                       /\ creations'[j].code = creations[j].code
                                       /\ creations'[j].mined = creations[j].mined
                                       /\ creations'[j].ok = creations[j].ok
                                       /\ creations[j].sent => creations'[j].sent
        /\ creations'[i].sent
    <3>1. creations[i] \in Creation
      BY <1>2, <2>1, Sizes
    <3>2. [creations[i] EXCEPT !.sent = TRUE] \in Creation
      BY <3>1 DEF Creation
    <3>3. creations' = [creations EXCEPT ![i] = [creations[i] EXCEPT !.sent = TRUE]]
      BY <1>8
    <3>4. creations' \in Seq(Creation) /\ DOMAIN creations' = DOMAIN creations
      BY <1>2, <2>1, <3>2, <3>3 DEF BroadcastTypeOK
    <3>5. /\ \A j \in DOMAIN creations : j # i => creations'[j] = creations[j]
          /\ creations'[i] = [creations[i] EXCEPT !.sent = TRUE]
      BY <1>2, <2>1, <3>3 DEF BroadcastTypeOK
    <3>6. /\ creations'[i].nonce = creations[i].nonce /\ creations'[i].code = creations[i].code
          /\ creations'[i].mined = creations[i].mined /\ creations'[i].ok = creations[i].ok
          /\ creations'[i].sent
      BY <3>1, <3>5 DEF Creation
    <3>7. QED
      BY <3>4, <3>5, <3>6
  <2>3. Unsent' = Unsent \ {i}
    BY <2>1, <2>2 DEF Unsent
  <2>4. BroadcastTypeOK'
    BY <1>1, <1>2, <1>4, <1>8, <2>2 DEF BroadcastTypeOK
  <2>5. NoncesInOrder'
    <3>1. next_nonce # -1
      BY <1>2, <2>1 DEF NoncesInOrder
    <3>2. QED
      BY <1>1, <1>2, <1>8, <2>2, <3>1 DEF NoncesInOrder
  <2>6. ReceiptsAreOfTheRun'
    <3>1. \A j \in DOMAIN creations : IsMined(j) => IsMined(j)'
      BY <1>1, <2>2 DEF IsMined
    <3>2. ~creations[i].sent
      BY <2>1 DEF Unsent
    <3>3. i \in Unmined'
      BY <2>1, <2>2, <3>2 DEF BroadcastInv, ReceiptsAreOfTheRun, Unmined
    <3>4. \A j \in DOMAIN creations' : creations'[j].mined =>
            /\ creations'[j].sent /\ IsMined(j)'
            /\ creations'[j].ok => Confirms(mined[creations'[j].nonce + 1])
      BY <2>2, <3>1 DEF BroadcastInv, ReceiptsAreOfTheRun
    <3>5. QED
      BY <1>1, <1>8, <2>3, <3>3, <3>4 DEF ReceiptsAreOfTheRun, Confirms
  <2>7. ASSUME ~dropped PROVE GapsAreToSend' /\ AheadIsFree'
    <3>1. next_nonce # -1 /\ nonce < next_nonce /\ nonce \in Nonces
      BY <1>2, <2>1, Sizes DEF NoncesInOrder
    <3>2. GapsAreToSend /\ AheadIsFree
      BY <1>1, <2>7, <3>1 DEF BroadcastInv, PendingInOrder
    <3>3. \A j \in Unsent \ {i} : creations[j].nonce # nonce
      BY <1>2, <2>1, NoncesDiffer DEF Unsent
    <3> HIDE DEF nonce
    <3>4. ASSUME NEW m \in Len(mined)..next_nonce - 1
          PROVE  pool'[m] # NoTx \/ \E j \in Unsent' : creations'[j].nonce = m
      <4>1. m \in Nonces
        BY <1>2, <3>4, Sizes DEF BroadcastTypeOK, Nonces
      <4>2. CASE m = nonce
        BY <1>4, <1>8, <4>2
      <4>3. CASE m # nonce
        <5>1. pool'[m] = pool[m]
          BY <1>4, <1>8, <4>1, <4>3
        <5>2. pool[m] # NoTx \/ \E j \in Unsent : creations[j].nonce = m
          BY <3>2, <3>4 DEF GapsAreToSend
        <5>3. \A j \in Unsent : creations[j].nonce = m => j \in Unsent' /\ creations'[j].nonce = m
          BY <2>2, <2>3, <4>3 DEF nonce, Unsent
        <5>4. QED
          BY <5>1, <5>2, <5>3
      <4>4. QED
        BY <4>2, <4>3
    <3>5. ASSUME NEW m \in Nonces, m >= next_nonce \/ \E j \in Unsent' : creations'[j].nonce = m
          PROVE  pool'[m].session <= 0
      <4>1. m # nonce
        BY <1>2, <2>2, <2>3, <3>1, <3>3, <3>5, Sizes DEF Unsent
      <4>2. m >= next_nonce \/ \E j \in Unsent : creations[j].nonce = m
        BY <2>2, <2>3, <3>5 DEF Unsent
      <4>3. QED
        BY <1>4, <1>8, <3>2, <4>1, <4>2 DEF AheadIsFree
    <3>6. GapsAreToSend'
      BY <1>1, <3>4 DEF GapsAreToSend
    <3>7. AheadIsFree'
      BY <1>1, <3>5 DEF AheadIsFree
    <3>8. QED
      BY <3>6, <3>7
  <2>8. PendingInOrder'
    BY <1>1, <1>4, <1>8, <2>7 DEF PendingInOrder
  <2>9. QED
    BY <1>5, <2>4, <2>5, <2>6, <2>8 DEF BroadcastInv
<1>9. QED
  BY <1>3, <1>6, <1>7, <1>8

(* A receipt is of the run's own transaction, and ends the wait with the   *)
(* last.                                                                   *)
LEMMA AwaitReceiptKeeps == BroadcastInv /\ AwaitReceipt => BroadcastInv'
<1> SUFFICES ASSUME BroadcastInv, AwaitReceipt PROVE BroadcastInv'
  OBVIOUS
<1> DEFINE i == Next1(Unmined)
           ok == Confirms(mined[creations[i].nonce + 1])
<1>1. /\ step = "wait" /\ IsMined(i)
      /\ creations' = [creations EXCEPT ![i].mined = TRUE, ![i].ok = ok]
      /\ step' = IF Unmined # {i} THEN "wait"
                 ELSE IF ok /\ \A j \in DOMAIN creations \ {i} : creations[j].ok THEN "hash" ELSE "over"
      /\ UNCHANGED <<chain, next_nonce, codes, recorded, sessions>>
  BY DEF AwaitReceipt, vars
<1>2. BroadcastTypeOK /\ NoncesInOrder
  BY DEF BroadcastInv
<1>3. i \in Unmined
  <2>1. Unmined \in SUBSET Nat /\ Unmined # {}
    BY <1>1, <1>2, Sizes DEF Unmined, BroadcastInv, ReceiptsAreOfTheRun
  <2>2. QED
    BY <2>1, Earliest
<1>4. i \in DOMAIN creations /\ ~creations[i].mined
  BY <1>3 DEF Unmined
<1>5. ok \in BOOLEAN
  <2>1. creations[i].nonce + 1 \in DOMAIN mined
    BY <1>1, <1>2, <1>4, Sizes DEF IsMined
  <2>2. mined[creations[i].nonce + 1] \in Transaction
    BY <1>2, <2>1 DEF BroadcastTypeOK
  <2>3. QED
    BY <2>2 DEF Transaction, Confirms
<1> HIDE DEF i
<1> DEFINE received == [creations[i] EXCEPT !.mined = TRUE, !.ok = ok]
<1>6. /\ received \in Creation /\ received.nonce = creations[i].nonce /\ received.code = creations[i].code
      /\ received.sent = creations[i].sent /\ received.mined = TRUE /\ received.ok = ok
  <2>1. creations[i] \in Creation
    BY <1>2, <1>4, Sizes
  <2> HIDE DEF ok
  <2>2. QED
    BY <1>5, <2>1 DEF Creation
<1>7. creations' = [creations EXCEPT ![i] = received]
  BY <1>1
<1> HIDE DEF received, ok
<1>8. /\ creations' \in Seq(Creation) /\ DOMAIN creations' = DOMAIN creations /\ creations'[i] = received
      /\ \A j \in DOMAIN creations : j # i => creations'[j] = creations[j]
  BY <1>2, <1>4, <1>6, <1>7 DEF BroadcastTypeOK
<1>9. BroadcastTypeOK'
  BY <1>1, <1>2, <1>8 DEF BroadcastTypeOK, chain
<1>10. NoncesInOrder'
  <2>1. next_nonce # -1
    BY <1>2, <1>4 DEF NoncesInOrder
  <2>2. QED
    BY <1>1, <1>2, <1>6, <1>8, <2>1 DEF NoncesInOrder
<1>11. Unmined' = Unmined \ {i}
  BY <1>4, <1>6, <1>8 DEF Unmined
<1>12. ReceiptsAreOfTheRun'
  <2>1. \A j \in DOMAIN creations : IsMined(j) => IsMined(j)'
    BY <1>1, <1>6, <1>8 DEF IsMined, chain
  <2>2. creations[i].sent
    BY <1>1, <1>4 DEF BroadcastInv, ReceiptsAreOfTheRun, Unsent
  <2>3. Unsent' = {}
    BY <1>1, <1>6, <1>8, <2>2 DEF BroadcastInv, ReceiptsAreOfTheRun, Unsent
  <2>4. \A j \in DOMAIN creations' : creations'[j].mined =>
          /\ creations'[j].sent /\ IsMined(j)'
          /\ creations'[j].ok => Confirms(mined[creations'[j].nonce + 1])
    <3>1. ok => Confirms(mined[creations'[i].nonce + 1])
      BY <1>6, <1>8 DEF ok
    <3>2. QED
      BY <1>1, <1>6, <1>8, <2>1, <2>2, <3>1 DEF BroadcastInv, ReceiptsAreOfTheRun
  <2>5. step' = "hash" => \A j \in DOMAIN creations' : creations'[j].mined /\ creations'[j].ok
    BY <1>1, <1>6, <1>8, <1>11 DEF Unmined
  <2>6. QED
    BY <1>1, <1>3, <1>11, <2>3, <2>4, <2>5 DEF ReceiptsAreOfTheRun, Confirms, chain
<1>13. CodesAreOnChain' /\ RecordedAreOnChain' /\ PendingInOrder'
  BY <1>1 DEF BroadcastInv, CodesAreOnChain, RecordedAreOnChain, CodeAt, PendingInOrder, NoGap, chain
<1>14. QED
  BY <1>9, <1>10, <1>12, <1>13 DEF BroadcastInv

(* What is kept of a read is code that is there.                           *)
LEMMA PrefetchKeeps == BroadcastInv /\ Prefetch => BroadcastInv'
<1> SUFFICES ASSUME BroadcastInv, Prefetch PROVE BroadcastInv'
  OBVIOUS
<1>1. /\ step = "hash" /\ step' = "record"
      /\ UNCHANGED <<chain, creations, next_nonce, recorded, sessions>>
      /\ codes' = {} \/ \E behind : codes' = Kept(CodesRead(Created, behind))
  BY DEF Prefetch, vars
<1>2. BroadcastTypeOK
  BY DEF BroadcastInv
<1>3. BroadcastTypeOK' /\ NoncesInOrder' /\ RecordedAreOnChain' /\ PendingInOrder'
  BY <1>1
     DEF BroadcastInv, BroadcastTypeOK, NoncesInOrder, RecordedAreOnChain, CodeAt, PendingInOrder, NoGap, chain
<1>4. ReceiptsAreOfTheRun'
  BY <1>1 DEF BroadcastInv, ReceiptsAreOfTheRun, IsMined, Confirms, chain
<1>5. ASSUME NEW r \in codes'
      PROVE  r.address \in Nonces /\ r.address < Len(mined) /\ r.code = CodeAt(r.address)
  <2>1. PICK behind : r \in Kept(CodesRead(Created, behind))
    BY <1>1
  <2>2. PICK a \in Created : r = [address |-> a, code |-> IF a \in behind THEN "none" ELSE CodeAt(a)] /\ r.code # "none"
    BY <2>1 DEF Kept, CodesRead
  <2>3. r.address = a /\ r.code = CodeAt(a) /\ CodeAt(a) # "none"
    BY <2>2
  <2>4. a \in Nonces
    BY <1>2, Sizes DEF Created
  <2>5. QED
    BY <2>3, <2>4 DEF CodeAt
<1>6. CodesAreOnChain'
  BY <1>1, <1>5 DEF CodesAreOnChain, CodeAt, chain
<1>7. QED
  BY <1>3, <1>4, <1>6 DEF BroadcastInv

(* Every creation is on chain, as planned, by the time it is recorded.     *)
LEMMA RecordKeeps == BroadcastInv /\ Record => BroadcastInv'
<1> SUFFICES ASSUME BroadcastInv, Record PROVE BroadcastInv'
  OBVIOUS
<1> DEFINE unknown == Created \ {r.address : r \in codes}
           hashed(behind) == codes \cup CodesRead(unknown, behind)
           hash(i, behind) == (CHOOSE r \in hashed(behind) : r.address = creations[i].nonce).code
<1>1. /\ step = "record" /\ step' = "over"
      /\ UNCHANGED <<chain, creations, next_nonce, codes, sessions>>
  BY DEF Record, vars
<1>2. PICK behind \in SUBSET unknown :
        recorded' = {[address |-> creations[i].nonce, planned |-> creations[i].code,
                      hash |-> hash(i, behind), late |-> creations[i].nonce \in behind] : i \in DOMAIN creations}
  BY DEF Record
<1>3. BroadcastTypeOK
  BY DEF BroadcastInv
<1>4. ASSUME NEW i \in DOMAIN creations
      PROVE  /\ creations[i].nonce \in Nonces /\ creations[i].nonce < Len(mined)
             /\ CodeAt(creations[i].nonce) = creations[i].code
             /\ hash(i, behind) = CodeAt(creations[i].nonce) \/ creations[i].nonce \in behind
  <2> DEFINE a == creations[i].nonce
             chosen == CHOOSE r \in hashed(behind) : r.address = a
  <2>1. IsMined(i) /\ Confirms(mined[a + 1])
    BY <1>1 DEF BroadcastInv, ReceiptsAreOfTheRun
  <2>2. a \in Nonces /\ a < Len(mined) /\ CodeAt(a) = creations[i].code
    BY <1>3, <2>1, Sizes DEF IsMined, CodeAt, Confirms
  <2>3. a \in Created
    BY DEF Created
  <2>4. \E r \in hashed(behind) : r.address = a
    <3>1. CASE a \in unknown
      <4> DEFINE r == [address |-> a, code |-> IF a \in behind THEN "none" ELSE CodeAt(a)]
      <4>1. r \in CodesRead(unknown, behind) /\ r.address = a
        BY <3>1 DEF CodesRead
      <4> HIDE DEF r, a, unknown
      <4>2. QED
        BY <4>1
    <3>2. CASE a \notin unknown
      BY <2>3, <3>2
    <3>3. QED
      BY <3>1, <3>2
  <2>5. chosen \in hashed(behind) /\ chosen.address = a
    <3> HIDE DEF hashed, a
    <3>1. QED
      BY <2>4
  <2> HIDE DEF chosen
  <2>6. CASE chosen \in codes
    BY <2>2, <2>5, <2>6 DEF BroadcastInv, CodesAreOnChain, chosen
  <2>7. CASE chosen \in CodesRead(unknown, behind)
    <3>1. PICK b \in unknown : chosen = [address |-> b, code |-> IF b \in behind THEN "none" ELSE CodeAt(b)]
      BY <2>7 DEF CodesRead
    <3>2. b = a
      BY <2>5, <3>1
    <3>3. a \notin behind => chosen.code = CodeAt(a)
      BY <3>1, <3>2
    <3>4. QED
      BY <2>2, <3>3 DEF chosen
  <2>8. QED
    BY <2>2, <2>5, <2>6, <2>7 DEF chosen
<1> HIDE DEF hash
<1>5. RecordedAreOnChain'
  <2>1. mined' = mined
    BY <1>1 DEF chain
  <2>2. ASSUME NEW r \in recorded'
        PROVE  /\ r.address \in Nonces /\ r.address < Len(mined) /\ CodeAt(r.address) = r.planned
               /\ r.hash = CodeAt(r.address) \/ r.late
    <3>1. PICK i \in DOMAIN creations :
            r = [address |-> creations[i].nonce, planned |-> creations[i].code,
                 hash |-> hash(i, behind), late |-> creations[i].nonce \in behind]
      BY <1>2
    <3>2. /\ r.address = creations[i].nonce /\ r.planned = creations[i].code
          /\ r.hash = hash(i, behind) /\ r.late = (creations[i].nonce \in behind)
      BY <3>1
    <3>3. QED
      BY <1>4, <3>2
  <2>3. QED
    BY <2>1, <2>2 DEF RecordedAreOnChain, CodeAt
<1>6. BroadcastTypeOK' /\ NoncesInOrder' /\ ReceiptsAreOfTheRun' /\ CodesAreOnChain' /\ PendingInOrder'
  BY <1>1
     DEF BroadcastInv, BroadcastTypeOK, NoncesInOrder, ReceiptsAreOfTheRun, IsMined, CodesAreOnChain, CodeAt,
         PendingInOrder, NoGap, chain
<1>7. QED
  BY <1>5, <1>6 DEF BroadcastInv

-----------------------------------------------------------------------------
(* The steps of the chain and its node.                                    *)

(* A block takes the first pending transaction and changes no earlier one. *)
LEMMA MineKeeps == BroadcastInv /\ Mine => BroadcastInv'
<1> SUFFICES ASSUME BroadcastInv, Mine PROVE BroadcastInv'
  OBVIOUS
<1> DEFINE at == Len(mined)
<1>1. BroadcastTypeOK
  BY DEF BroadcastInv
<1>2. PICK ok \in BOOLEAN : mined' = Append(mined, [pool[at] EXCEPT !.ok = ok])
  BY DEF Mine
<1>3. /\ at \in Nonces /\ pool[at] # NoTx /\ pool' = [pool EXCEPT ![at] = NoTx]
      /\ UNCHANGED <<dropped, displaced, step, creations, next_nonce, codes, recorded, sessions>>
  BY DEF Mine, run, vars
<1> DEFINE tx == [pool[at] EXCEPT !.ok = ok]
<1>4. tx \in Transaction
  <2>1. pool[at] \in Transaction
    BY <1>1, <1>3 DEF BroadcastTypeOK
  <2>2. QED
    BY <2>1 DEF Transaction
<1> HIDE DEF tx
<1>5. mined' = Append(mined, tx)
  BY <1>2 DEF tx
<1>6. at \in Nat /\ at <= MaxNonce /\ MaxNonce \in Nat
  BY <1>1, <1>3, Sizes DEF Nonces
<1>7. /\ mined' \in Seq(Transaction) /\ Len(mined') = at + 1
      /\ \A a \in Nat : a < at => mined'[a + 1] = mined[a + 1]
  BY <1>1, <1>4, <1>5, <1>6 DEF BroadcastTypeOK
<1>8. pool' \in [Nonces -> Transaction \cup {NoTx}] /\ pool'[at] = NoTx /\ \A m \in Nonces : m # at => pool'[m] = pool[m]
  BY <1>1, <1>3 DEF BroadcastTypeOK
<1> HIDE DEF at
<1>9. BroadcastTypeOK'
  BY <1>1, <1>3, <1>6, <1>7, <1>8 DEF BroadcastTypeOK
<1>10. \A a \in Nat : a < at => a < Len(mined') /\ CodeAt(a)' = CodeAt(a)
  BY <1>6, <1>7 DEF CodeAt, at
<1>11. NoncesInOrder'
  BY <1>3 DEF BroadcastInv, NoncesInOrder
<1>12. ReceiptsAreOfTheRun'
  <2>1. ASSUME NEW i \in DOMAIN creations, IsMined(i)
        PROVE  IsMined(i)' /\ mined'[creations[i].nonce + 1] = mined[creations[i].nonce + 1]
    <3>1. creations[i].nonce \in Nat /\ creations[i].nonce < at
      BY <1>1, <2>1, Sizes DEF IsMined, at
    <3>2. QED
      BY <1>3, <1>6, <1>7, <2>1, <3>1 DEF IsMined
  <2>2. QED
    BY <1>3, <2>1 DEF BroadcastInv, ReceiptsAreOfTheRun, Confirms, Unmined, Unsent
<1>13. CodesAreOnChain'
  BY <1>1, <1>3, <1>10, Sizes DEF BroadcastInv, CodesAreOnChain, at
<1>14. RecordedAreOnChain'
  BY <1>1, <1>3, <1>10, Sizes DEF BroadcastInv, RecordedAreOnChain, at
<1>15. ASSUME NoGap PROVE NoGap'
  <2> SUFFICES ASSUME NEW k \in Nonces, NEW m \in Nonces, Len(mined') <= k, k <= m, pool'[m] # NoTx
               PROVE  pool'[k] # NoTx
    BY DEF NoGap
  <2>1. k # at /\ m # at /\ at <= k
    BY <1>1, <1>6, <1>7, Sizes
  <2>2. QED
    BY <1>8, <1>15, <2>1 DEF NoGap, at
<1>16. ASSUME GapsAreToSend PROVE GapsAreToSend'
  <2> SUFFICES ASSUME NEW m \in at + 1..next_nonce - 1
               PROVE  pool'[m] # NoTx \/ \E i \in Unsent : creations[i].nonce = m
    BY <1>3, <1>7 DEF GapsAreToSend, Unsent
  <2>1. m \in at..next_nonce - 1 /\ m \in Nonces /\ m # at
    BY <1>1, <1>6, Sizes DEF BroadcastTypeOK, Nonces
  <2>2. QED
    BY <1>8, <1>16, <2>1 DEF GapsAreToSend, at
<1>17. ASSUME AheadIsFree PROVE AheadIsFree'
  BY <1>3, <1>8, <1>17 DEF AheadIsFree, Unsent, NoTx
<1>18. PendingInOrder'
  BY <1>3, <1>15, <1>16, <1>17 DEF BroadcastInv, PendingInOrder
<1>19. QED
  BY <1>9, <1>11, <1>12, <1>13, <1>14, <1>18 DEF BroadcastInv

(* A transaction of the sender's own making leaves no gap either, and is   *)
(* no run's.                                                               *)
LEMMA OtherKeeps == BroadcastInv /\ Other => BroadcastInv'
<1> SUFFICES ASSUME BroadcastInv, Other PROVE BroadcastInv'
  OBVIOUS
<1>1. BroadcastTypeOK
  BY DEF BroadcastInv
<1>2. PICK nonce \in Nonces : nonce >= Len(mined) /\ nonce <= PendingNonce /\ pool' = [pool EXCEPT ![nonce] = Others]
  BY DEF Other
<1>3. UNCHANGED <<mined, dropped, displaced, step, creations, next_nonce, codes, recorded, sessions>>
  BY DEF Other, run, vars
<1>4. Others \in Transaction /\ Others # NoTx /\ Others.session = 0
  BY DEF Others, Transaction, NoTx
<1> DEFINE another == Others
<1>5. pool' = [pool EXCEPT ![nonce] = another]
  BY <1>2
<1> HIDE DEF another
<1>6. /\ pool' \in [Nonces -> Transaction \cup {NoTx}] /\ pool'[nonce] = another
      /\ \A m \in Nonces : m # nonce => pool'[m] = pool[m]
  BY <1>1, <1>4, <1>5 DEF BroadcastTypeOK, another
<1>7. BroadcastTypeOK'
  BY <1>1, <1>3, <1>6 DEF BroadcastTypeOK
<1>8. NoncesInOrder' /\ ReceiptsAreOfTheRun' /\ CodesAreOnChain' /\ RecordedAreOnChain'
  BY <1>3
     DEF BroadcastInv, NoncesInOrder, ReceiptsAreOfTheRun, IsMined, Confirms, Unmined, Unsent, CodesAreOnChain,
         RecordedAreOnChain, CodeAt
<1>9. \A m \in Nonces : pool[m] # NoTx => pool'[m] # NoTx
  BY <1>4, <1>6 DEF another
<1>10. ASSUME NoGap PROVE NoGap'
  <2> SUFFICES ASSUME NEW k \in Nonces, NEW m \in Nonces, Len(mined) <= k, k <= m, pool'[m] # NoTx
               PROVE  pool'[k] # NoTx
    BY <1>3 DEF NoGap
  <2>1. CASE m # nonce
    BY <1>6, <1>9, <1>10, <2>1 DEF NoGap
  <2>2. CASE k = nonce
    BY <1>4, <1>6, <2>2 DEF another
  <2>3. CASE m = nonce /\ k # nonce
    <3>1. k \in Len(mined)..PendingNonce - 1
      BY <1>1, <1>2, <2>3, Sizes, PendingNonceIs
    <3>2. QED
      BY <1>1, <1>9, <3>1, PendingNonceIs
  <2>4. QED
    BY <2>1, <2>2, <2>3
<1>11. ASSUME GapsAreToSend PROVE GapsAreToSend'
  <2>1. \A m \in Len(mined)..next_nonce - 1 : m \in Nonces
    BY <1>1, Sizes DEF BroadcastTypeOK, Nonces
  <2>2. QED
    BY <1>3, <1>9, <1>11, <2>1 DEF GapsAreToSend, Unsent
<1>12. ASSUME AheadIsFree PROVE AheadIsFree'
  BY <1>3, <1>4, <1>6, <1>12 DEF AheadIsFree, Unsent, another
<1>13. PendingInOrder'
  BY <1>3, <1>10, <1>11, <1>12 DEF BroadcastInv, PendingInOrder
<1>14. QED
  BY <1>7, <1>8, <1>13 DEF BroadcastInv

LEMMA DropKeeps == BroadcastInv /\ Drop => BroadcastInv'
<1> SUFFICES ASSUME BroadcastInv, Drop PROVE BroadcastInv'
  OBVIOUS
<1>1. /\ UNCHANGED <<mined, displaced, step, creations, next_nonce, codes, recorded, sessions>>
      /\ dropped' = TRUE /\ pool' \in [Nonces -> Transaction \cup {NoTx}]
  BY DEF Drop, run, vars, BroadcastInv, BroadcastTypeOK
<1>2. BroadcastTypeOK' /\ PendingInOrder'
  BY <1>1 DEF BroadcastInv, BroadcastTypeOK, PendingInOrder
<1>3. QED
  BY <1>1, <1>2
     DEF BroadcastInv, NoncesInOrder, ReceiptsAreOfTheRun, IsMined, Confirms, Unmined, Unsent, CodesAreOnChain,
         RecordedAreOnChain, CodeAt

-----------------------------------------------------------------------------
(* What a run records.                                                     *)

LEMMA NextBroadcast == BroadcastInv /\ [BroadcastNext]_broadcast_vars => BroadcastInv'
<1> SUFFICES ASSUME BroadcastInv, [BroadcastNext]_broadcast_vars PROVE BroadcastInv'
  OBVIOUS
<1>1. sessions \in Nat
  BY DEF BroadcastInv, BroadcastTypeOK
<1>2. CASE StartRun
  <2>1. /\ step = "off" /\ step' = "plan" /\ sessions' = sessions + 1
        /\ UNCHANGED <<chain, creations, next_nonce, codes, recorded>>
    BY <1>2 DEF StartRun, StartSession
  <2>2. QED
    BY <1>1, <2>1, QuietKeeps
<1>3. CASE AskPassword \/ TypePassword \/ Done
  <2>1. UNCHANGED <<chain, creations, next_nonce, codes, recorded, step, sessions>>
    BY <1>3 DEF AskPassword, TypePassword, Done, Unlock, Attempt, Ended, vars, deploy_vars, run
  <2>2. QED
    BY <1>1, <2>1, QuietKeeps
<1>4. CASE NoPassword \/ Stop
  <2>1. UNCHANGED <<chain, creations, next_nonce, codes, recorded, sessions>> /\ step # "off" /\ step' = "over"
    BY <1>4 DEF NoPassword, Stop, GiveUp, vars
  <2>2. QED
    BY <1>1, <2>1, QuietKeeps
<1>5. CASE Estimate
  <2>1. UNCHANGED <<chain, creations, next_nonce, codes, recorded, sessions>> /\ step = "plan" /\ step' \in {"send", "over"}
    BY <1>5 DEF Estimate, vars
  <2>2. QED
    BY <1>1, <2>1, QuietKeeps
<1>6. CASE EndRun \/ \E code \in Initcodes : Create(code)
  BY <1>6, EndRunKeeps, CreateKeeps
<1>7. CASE Send \/ AwaitReceipt \/ Prefetch \/ Record
  BY <1>7, SendKeeps, AwaitReceiptKeeps, PrefetchKeeps, RecordKeeps
<1>8. CASE Mine \/ Other \/ Drop
  BY <1>8, MineKeeps, OtherKeeps, DropKeeps
<1>9. CASE UNCHANGED broadcast_vars
  <2>1. UNCHANGED <<chain, creations, next_nonce, codes, recorded, step, sessions>>
    BY <1>9 DEF broadcast_vars, vars, deploy_vars, run
  <2>2. QED
    BY <1>1, <2>1, QuietKeeps
<1>10. QED
  BY <1>2, <1>3, <1>4, <1>5, <1>6, <1>7, <1>8, <1>9 DEF BroadcastNext

(* Between any two steps a run's creations are at the nonces planned, and  *)
(* what it knows of their code is the chain's.                             *)
THEOREM BroadcastHolds == BroadcastSpec => []BroadcastInv
BY InitBroadcast, NextBroadcast, PTL DEF BroadcastSpec

(* Whatever else the sender sends, and whatever is replaced, dropped or    *)
(* sent by a run before, what a run records is where it planned it.        *)
THEOREM RecordedWherePlanned == BroadcastSpec => []DeployedWherePlanned
<1>1. BroadcastInv => DeployedWherePlanned
  BY DEF BroadcastInv, RecordedAreOnChain, DeployedWherePlanned
<1>2. QED
  BY <1>1, BroadcastHolds, PTL

(* A recorded hash is of the code on chain, unless the node was behind for *)
(* the one address when it was asked for that one.                         *)
THEOREM RecordedHashesHold == BroadcastSpec => []HashesAreOfTheCode
<1>1. BroadcastInv => HashesAreOfTheCode
  BY DEF BroadcastInv, RecordedAreOnChain, HashesAreOfTheCode
<1>2. QED
  BY <1>1, BroadcastHolds, PTL

(* No run takes the place of what one before it sent, if the node dropped  *)
(* nothing.                                                                *)
THEOREM NothingDisplaced == BroadcastSpec => []DisplacesNothing
<1>1. BroadcastInv => DisplacesNothing
  BY DEF BroadcastInv, PendingInOrder, DisplacesNothing
<1>2. QED
  BY <1>1, BroadcastHolds, PTL
=============================================================================
