------------------------------ MODULE Broadcast ------------------------------
(***************************************************************************)
(* broadcast.py, with the keystore each `cast` is given the password of:   *)
(* every creation is planned at a nonce of its own before the first is     *)
(* sent, then all are sent, then the receipts are waited for, and the code *)
(* that came of them is hashed.  The sender may have other transactions,   *)
(* its pending ones may be replaced or dropped, and a run that stops may   *)
(* be followed by another that knows nothing of it.                        *)
(***************************************************************************)
EXTENDS Keystore

CONSTANTS
    Initcodes,     \* what is deployed
    Fickle,        \* those whose constructor may revert when mined
    MaxCreations,  \* bound on a run's creations
    MaxNonce,      \* bound on the sender's nonces
    MaxOthers,     \* bound on the sender's other transactions
    MaxMishaps     \* bound on drops, unheard sends and stale reads

ASSUME FickleAssumption == Fickle \subseteq Initcodes
ASSUME BroadcastBounds  == {MaxCreations, MaxNonce, MaxOthers, MaxMishaps} \subseteq Nat

VARIABLES
    mined,       \* chain: the sender's transactions in nonce order, from nonce 0
    pool,        \* node: nonce |-> the pending transaction, or NoTx
    eth_from,    \* the sender is known without the keystore
    step,        \* of the run
    creations,   \* the run's
    next_nonce,  \* -1 before the first create
    codes,       \* _codes: the code known, by address
    recorded,    \* the ledger: what the last run to finish recorded
    others, mishaps,
    dropped, displaced   \* the node dropped a transaction; one of ours displaced another of ours

chain  == <<mined, pool, dropped, displaced>>
run    == <<step, creations, next_nonce, codes>>
bounds == <<others, mishaps>>
deploy_vars == <<chain, eth_from, run, recorded, bounds>>
broadcast_vars == <<vars, deploy_vars>>

Nonces == 0..MaxNonce
NoTx == [session |-> -1, code |-> "none", ok |-> FALSE]
Others == [session |-> 0, code |-> "none", ok |-> TRUE]
Tx(code) == [session |-> sessions, code |-> code, ok |-> TRUE]

(* `cast nonce --block pending`: past the pending ones there is no gap in. *)
PendingNonce == CHOOSE n \in Nonces \cup {MaxNonce + 1} :
    /\ n >= Len(mined) /\ (n \in Nonces => pool[n] = NoTx)
    /\ \A m \in Len(mined)..n - 1 : pool[m] # NoTx

(* Mutant of FirstNonce: the nonce of what is mined.                        *)
FirstNonceMined == Len(mined)

(* What _start asks for.                                                    *)
FirstNonce == PendingNonce

Mishap == mishaps < MaxMishaps /\ mishaps' = mishaps + 1

BroadcastInit ==
    /\ Init /\ eth_from \in BOOLEAN
    /\ mined = <<>> /\ pool = [n \in Nonces |-> NoTx] /\ dropped = FALSE /\ displaced = FALSE
    /\ step = "off" /\ creations = <<>> /\ next_nonce = -1 /\ codes = {}
    /\ recorded = {} /\ others = 0 /\ mishaps = 0

-----------------------------------------------------------------------------
(* The keystore session, which is the run's.                                *)
StartRun ==
    /\ StartSession /\ step = "off"
    /\ step' = "plan"
    /\ UNCHANGED <<chain, eth_from, creations, next_nonce, codes, recorded, bounds>>

(* cast_password is called: by _start, or by the first send.                *)
Asks == \/ step = "plan" /\ next_nonce = -1 /\ ~eth_from
        \/ step = "send"

AskPassword == Asks /\ Unlock /\ UNCHANGED deploy_vars

TypePassword == (\E password \in Passwords : Attempt(password)) /\ UNCHANGED deploy_vars

(* Without a password, or stopped, a run is over.                           *)
NoPassword ==
    /\ GiveUp /\ step # "off" /\ step' = "over"
    /\ UNCHANGED <<chain, eth_from, creations, next_nonce, codes, recorded, bounds>>

EndRun ==
    /\ step = "over" /\ EndSession /\ step' = "off"
    /\ creations' = <<>> /\ next_nonce' = -1 /\ codes' = {}
    /\ UNCHANGED <<chain, eth_from, recorded, bounds>>

(* The user, or a crash, at any time.                                       *)
Stop ==
    /\ step \in {"plan", "send", "wait"} /\ session # "unlocking" /\ step' = "over"
    /\ UNCHANGED <<vars, chain, eth_from, creations, next_nonce, codes, recorded, bounds>>

-----------------------------------------------------------------------------
Create(code) ==
    /\ step = "plan" /\ Len(creations) < MaxCreations
    /\ IF next_nonce = -1 /\ ~eth_from THEN Cast ELSE session # "unlocking" /\ UNCHANGED vars
    /\ LET nonce == IF next_nonce = -1 THEN FirstNonce ELSE next_nonce
       IN  /\ nonce \in Nonces
           /\ next_nonce' = nonce + 1
           /\ creations' = Append(creations, [nonce |-> nonce, code |-> code, sent |-> FALSE, mined |-> FALSE, ok |-> FALSE])
    /\ UNCHANGED <<chain, eth_from, step, codes, recorded, bounds>>

(* _gas: a constructor that reverts is found before anything is sent.       *)
Estimate ==
    /\ step = "plan" /\ creations # <<>> /\ session # "unlocking"
    /\ \/ step' = "send"
       \/ step' = "over" /\ \E i \in DOMAIN creations : creations[i].code \in Fickle
    /\ UNCHANGED <<vars, chain, eth_from, creations, next_nonce, codes, recorded, bounds>>

Unsent == {i \in DOMAIN creations : ~creations[i].sent}
Next1(S) == CHOOSE i \in S : \A j \in S : i <= j

(* One `cast send --async --nonce`.  The node takes it, over a pending one  *)
(* with a lower fee; or refuses it; or takes it and is not heard.           *)
Send ==
    /\ step = "send" /\ Unsent # {} /\ Cast
    /\ LET i == Next1(Unsent)
           nonce == creations[i].nonce
           takes == /\ nonce >= Len(mined)
                    /\ pool' = [pool EXCEPT ![nonce] = Tx(creations[i].code)]
                    /\ displaced' = (displaced \/ pool[nonce].session > 0)
       IN  \/ /\ takes /\ creations' = [creations EXCEPT ![i].sent = TRUE]
              /\ step' = IF Unsent = {i} THEN "wait" ELSE "send"
              /\ UNCHANGED bounds
           \/ /\ nonce < Len(mined) \/ pool[nonce] # NoTx
              /\ step' = "over" /\ UNCHANGED <<pool, displaced, creations, bounds>>
           \/ takes /\ Mishap /\ step' = "over" /\ UNCHANGED <<creations, others>>
    /\ UNCHANGED <<mined, dropped, eth_from, next_nonce, codes, recorded>>

Unmined == {i \in DOMAIN creations : ~creations[i].mined}

(* The transaction of creation i, once it is in a block.                    *)
IsMined(i) ==
    /\ creations[i].nonce < Len(mined)
    /\ LET tx == mined[creations[i].nonce + 1] IN tx.session = sessions /\ tx.code = creations[i].code

(* Mutant of Confirms: a receipt is enough.                                 *)
ConfirmsAnyReceipt(tx) == TRUE

(* The receipt's status.                                                    *)
Confirms(tx) == tx.ok

(* Mutant of AwaitReceipt: the loop stays where a deployment failed.        *)
AwaitReceiptAgain ==
    /\ step = "wait"
    /\ LET i == Next1(Unmined)
           ok == Confirms(mined[creations[i].nonce + 1])
       IN  /\ IsMined(i)
           /\ creations' = [creations EXCEPT ![i].mined = ok, ![i].ok = ok]
           /\ step' = IF Unmined # {i} \/ ~ok THEN "wait" ELSE "hash"
    /\ UNCHANGED <<vars, chain, eth_from, next_nonce, codes, recorded, bounds>>

(* `cast receipt`, one creation after another; a failed one ends the run    *)
(* once all are known.                                                      *)
AwaitReceipt ==
    /\ step = "wait"
    /\ LET i == Next1(Unmined)
           ok == Confirms(mined[creations[i].nonce + 1])
       IN  /\ IsMined(i)
           /\ creations' = [creations EXCEPT ![i].mined = TRUE, ![i].ok = ok]
           /\ step' = IF Unmined # {i} THEN "wait"
                      ELSE IF ok /\ \A j \in DOMAIN creations \ {i} : creations[j].ok THEN "hash" ELSE "over"
    /\ UNCHANGED <<vars, chain, eth_from, next_nonce, codes, recorded, bounds>>

-----------------------------------------------------------------------------
(* The code at the new addresses, read from a node that may be behind.      *)
CodeAt(address) ==
    IF address < Len(mined) /\ mined[address + 1].ok THEN mined[address + 1].code ELSE "none"

Created == {creations[i].nonce : i \in DOMAIN creations}

(* What the node says of addresses, when it is behind for some.             *)
CodesRead(addresses, behind) ==
    {[address |-> a, code |-> IF a \in behind THEN "none" ELSE CodeAt(a)] : a \in addresses}

(* Mutant of Kept: what is read is kept, code or not.                       *)
KeptAnyway(read) == read

(* _keep_code: no code is not kept.                                         *)
Kept(read) == {r \in read : r.code # "none"}

(* prefetch_code, in one batch, which may fail.                             *)
Prefetch ==
    /\ step = "hash" /\ step' = "record"
    /\ \/ codes' = Kept(CodesRead(Created, {})) /\ UNCHANGED mishaps
       \/ Mishap /\ (codes' = {} \/ \E behind \in SUBSET Created : codes' = Kept(CodesRead(Created, behind)))
    /\ UNCHANGED <<vars, chain, eth_from, creations, next_nonce, recorded, others>>

(* code_hash of each, from what is known or else from the node, and the     *)
(* ledger is written.                                                       *)
Record ==
    /\ step = "record" /\ step' = "over"
    /\ LET unknown == Created \ {r.address : r \in codes}
       IN  \E behind \in SUBSET unknown :
             LET hashed == codes \cup CodesRead(unknown, behind)
             IN  /\ IF behind = {} THEN UNCHANGED mishaps ELSE Mishap
                 /\ recorded' =
                      {[address |-> creations[i].nonce, planned |-> creations[i].code,
                        hash |-> (CHOOSE r \in hashed : r.address = creations[i].nonce).code,
                        late |-> creations[i].nonce \in behind] : i \in DOMAIN creations}
    /\ UNCHANGED <<vars, chain, eth_from, creations, next_nonce, codes, others>>

-----------------------------------------------------------------------------
(* The chain and its node.                                                  *)
Mine ==
    /\ Len(mined) \in Nonces /\ pool[Len(mined)] # NoTx
    /\ \E ok \in IF pool[Len(mined)].code \in Fickle THEN BOOLEAN ELSE {TRUE} :
         mined' = Append(mined, [pool[Len(mined)] EXCEPT !.ok = ok])
    /\ pool' = [pool EXCEPT ![Len(mined)] = NoTx]
    /\ UNCHANGED <<vars, dropped, displaced, eth_from, run, recorded, bounds>>

(* The sender's other transactions, new or over a pending one.              *)
Other ==
    /\ others < MaxOthers /\ others' = others + 1
    /\ \E nonce \in Nonces : nonce >= Len(mined) /\ nonce <= PendingNonce /\ pool' = [pool EXCEPT ![nonce] = Others]
    /\ UNCHANGED <<vars, mined, dropped, displaced, eth_from, run, recorded, mishaps>>

Drop ==
    /\ Mishap /\ dropped' = TRUE
    /\ \E nonce \in Nonces : pool[nonce] # NoTx /\ pool' = [pool EXCEPT ![nonce] = NoTx]
    /\ UNCHANGED <<vars, mined, displaced, eth_from, run, recorded, others>>

Done == Ended /\ step = "off" /\ UNCHANGED deploy_vars

BroadcastNext ==
    \/ StartRun \/ AskPassword \/ TypePassword \/ NoPassword \/ EndRun \/ Stop \/ Done
    \/ \E code \in Initcodes : Create(code)
    \/ Estimate \/ Send \/ AwaitReceipt \/ Prefetch \/ Record
    \/ Mine \/ Other \/ Drop

(* Blocks are made, and a run waits for as long as it takes.                *)
BroadcastSpec ==
    /\ BroadcastInit /\ [][BroadcastNext]_broadcast_vars
    /\ WF_broadcast_vars(Mine) /\ WF_broadcast_vars(AwaitReceipt)

-----------------------------------------------------------------------------
(* Whatever else the sender sends, and whatever is replaced, dropped or     *)
(* sent by a run before, what a run records is where it planned it.         *)
DeployedWherePlanned == \A r \in recorded : CodeAt(r.address) = r.planned

(* The code hashes a run records are those of the code on chain: a node     *)
(* that was behind once, when asked for many, does not count.               *)
HashesAreOfTheCode == \A r \in recorded : r.hash = CodeAt(r.address) \/ r.late

(* A run never takes the place of what one before it sent and did not see   *)
(* mined, unless the node dropped something of the sender's.                *)
DisplacesNothing == displaced => dropped

(* The run waits for a transaction that cannot be mined any more: another   *)
(* took its nonce, it is dropped, or one before it is.                      *)
Lost ==
    \E i \in Unmined :
      \/ ~IsMined(i) /\ pool[creations[i].nonce] # Tx(creations[i].code)
      \/ \E m \in Len(mined)..creations[i].nonce - 1 : pool[m] = NoTx

(* Waiting ends, unless a transaction was lost.                             *)
WaitEnds == step = "wait" ~> (step # "wait" \/ Lost)
(***************************************************************************)
(* An inductive invariant.  A run's creations are at the nonces from the   *)
(* first to next_nonce, in order; what it took for mined is; what it knows *)
(* of code is the chain's.                                                 *)
(***************************************************************************)
Transaction == [session : Nat, code : Initcodes \cup {"none"}, ok : BOOLEAN]
Creation    == [nonce : Nonces, code : Initcodes, sent : BOOLEAN, mined : BOOLEAN, ok : BOOLEAN]

BroadcastTypeOK ==
    /\ sessions \in Nat
    /\ mined \in Seq(Transaction) /\ Len(mined) <= MaxNonce + 1
    /\ pool \in [Nonces -> Transaction \cup {NoTx}]
    /\ dropped \in BOOLEAN /\ displaced \in BOOLEAN
    /\ step \in {"off", "plan", "send", "wait", "hash", "record", "over"}
    /\ creations \in Seq(Creation)
    /\ next_nonce \in -1..MaxNonce + 1

NoncesInOrder ==
    /\ step = "off" => next_nonce = -1
    /\ next_nonce = -1 => creations = <<>>
    /\ \A i \in DOMAIN creations : creations[i].nonce < next_nonce
    /\ \A i, j \in DOMAIN creations : i < j => creations[i].nonce < creations[j].nonce

ReceiptsAreOfTheRun ==
    /\ \A i \in DOMAIN creations : creations[i].mined =>
         creations[i].sent /\ IsMined(i) /\ (creations[i].ok => Confirms(mined[creations[i].nonce + 1]))
    /\ step = "wait" => Unmined # {} /\ Unsent = {}
    /\ step \in {"hash", "record"} => \A i \in DOMAIN creations : creations[i].mined /\ creations[i].ok

CodesAreOnChain ==
    \A r \in codes : r.address \in Nonces /\ r.address < Len(mined) /\ r.code = CodeAt(r.address)

RecordedAreOnChain ==
    \A r \in recorded :
      /\ r.address \in Nonces /\ r.address < Len(mined)
      /\ CodeAt(r.address) = r.planned
      /\ r.hash = CodeAt(r.address) \/ r.late

(* While nothing was dropped, the pending transactions leave no gap, and    *)
(* none to come: those before a run's next nonce are pending or its own to  *)
(* send, and no run's is where it is still to send, or after that.          *)
NoGap ==
    \A k, m \in Nonces : Len(mined) <= k /\ k <= m /\ pool[m] # NoTx => pool[k] # NoTx

GapsAreToSend ==
    \A m \in Len(mined)..next_nonce - 1 : pool[m] # NoTx \/ \E i \in Unsent : creations[i].nonce = m

AheadIsFree ==
    \A m \in Nonces :
      m >= next_nonce \/ (\E i \in Unsent : creations[i].nonce = m) => pool[m].session <= 0

PendingInOrder ==
    ~dropped => ~displaced /\ NoGap /\ (step \in {"plan", "send"} /\ next_nonce # -1 => GapsAreToSend /\ AheadIsFree)

BroadcastInv ==
    /\ BroadcastTypeOK /\ NoncesInOrder /\ ReceiptsAreOfTheRun
    /\ CodesAreOnChain /\ RecordedAreOnChain /\ PendingInOrder
=============================================================================
