------------------------------ MODULE Keystore ------------------------------
(***************************************************************************)
(* signer.py: with a keystore, every `cast` that signs needs its password.  *)
(* A keystore session asks for it once, keeps it in a file without a name,  *)
(* and gives each `cast` the file as its stdin.  A password is a sequence   *)
(* of characters, so that one written over a longer one shows.              *)
(***************************************************************************)
EXTENDS Integers, Sequences

CONSTANTS Passwords,    \* what may be typed at the prompt
          MaxSessions,  \* bound on the sessions
          MaxCasts      \* bound on the casts of a session

ASSUME PasswordsAssumption == \A p \in Passwords : p \in Seq(STRING)
ASSUME BoundsAssumption    == MaxSessions \in Nat \ {0} /\ MaxCasts \in Nat \ {0}

ATTEMPTS == 3

VARIABLES
    keystore,     \* the password that decrypts it
    shares,       \* a cast's /dev/stdin moves the file's offset, as on macOS
    session,      \* "closed", "open", "unlocking", "unlocked"
    attempts,     \* prompts so far, while unlocking
    file,         \* what the file holds
    offset,       \* where reading it starts, when that is shared
    descriptors,  \* how many such files are open
    refused,      \* the passwords `cast` refused, while unlocking
    given,        \* what the last cast that signed was given
    sessions, casts

env  == <<keystore, shares>>
vars == <<env, session, attempts, file, offset, descriptors, refused, given, sessions, casts>>

Init ==
    /\ keystore \in Passwords /\ shares \in BOOLEAN
    /\ session = "closed" /\ attempts = 0
    /\ file = <<>> /\ offset = 0 /\ descriptors = 0
    /\ refused = {} /\ given = keystore
    /\ sessions = 0 /\ casts = 0

StartSession ==
    /\ session = "closed" /\ sessions < MaxSessions
    /\ session' = "open" /\ sessions' = sessions + 1
    /\ UNCHANGED <<env, attempts, file, offset, descriptors, refused, given, casts>>

(* The first cast_password of a session.                                    *)
Unlock ==
    /\ session = "open"
    /\ session' = "unlocking" /\ attempts' = 0
    /\ file' = <<>> /\ offset' = 0 /\ descriptors' = descriptors + 1
    /\ UNCHANGED <<env, refused, given, sessions, casts>>

(* Mutant of Written: the file is not cut to nothing first.                 *)
WrittenOver(password) == password \o SubSeq(file, Len(password) + 1, Len(file))

(* ftruncate, then pwrite at the start.                                     *)
Written(password) == password

(* lseek, before every cast.                                                *)
Rewound == 0

(* What a cast reads of the file's contents: to the end.                    *)
Reads(contents) == SubSeq(contents, (IF shares THEN Rewound ELSE 0) + 1, Len(contents))

(* One prompt, and `cast wallet address` with what was typed.               *)
Attempt(password) ==
    /\ session = "unlocking" /\ attempts < ATTEMPTS
    /\ file' = Written(password) /\ offset' = Len(file')
    /\ IF Reads(file') = keystore
         THEN session' = "unlocked" /\ attempts' = 0 /\ refused' = {}
         ELSE attempts' = attempts + 1 /\ refused' = refused \cup {password} /\ UNCHANGED session
    /\ UNCHANGED <<env, descriptors, given, sessions, casts>>

(* Mutant of GiveUp: the file stays open.                                   *)
GiveUpOpen ==
    /\ session = "unlocking"
    /\ session' = "open" /\ attempts' = 0 /\ refused' = {}
    /\ UNCHANGED <<env, file, offset, descriptors, given, sessions, casts>>

(* _unlock raises: after the last attempt, at the prompt, or because `cast` *)
(* failed otherwise.  The session may still unlock again.                   *)
GiveUp ==
    /\ session = "unlocking"
    /\ session' = "open" /\ descriptors' = descriptors - 1
    /\ file' = <<>> /\ offset' = 0 /\ attempts' = 0 /\ refused' = {}
    /\ UNCHANGED <<env, given, sessions, casts>>

(* A later cast_password: no prompt.                                        *)
Cast ==
    /\ session = "unlocked" /\ casts < MaxCasts
    /\ casts' = casts + 1
    /\ given' = Reads(file) /\ offset' = Len(file)
    /\ UNCHANGED <<env, session, attempts, file, descriptors, refused, sessions>>

EndSession ==
    /\ session \in {"open", "unlocked"}
    /\ session' = "closed"
    /\ descriptors' = IF session = "unlocked" THEN descriptors - 1 ELSE descriptors
    /\ file' = <<>> /\ offset' = 0 /\ casts' = 0
    /\ UNCHANGED <<env, attempts, refused, given, sessions>>

Ended == session = "closed" /\ sessions = MaxSessions /\ UNCHANGED vars

Next ==
    \/ StartSession \/ Unlock \/ GiveUp \/ Cast \/ EndSession \/ Ended
    \/ \E password \in Passwords : Attempt(password)

Spec == Init /\ [][Next]_vars

-----------------------------------------------------------------------------
(* The right password is never refused, whatever was tried before it, and   *)
(* every cast that signs is given it.                                       *)
PasswordGetsThrough == keystore \notin refused /\ given = keystore

(* "Nothing is left behind": one file at most, and none outside a session,  *)
(* whichever way unlocking it ended.                                        *)
NothingLeftOpen == descriptors = IF session \in {"unlocking", "unlocked"} THEN 1 ELSE 0
(***************************************************************************)
(* An inductive invariant: a session that is unlocked holds the password.  *)
(***************************************************************************)
KeystoreTypeOK ==
    /\ keystore \in Passwords /\ shares \in BOOLEAN
    /\ session \in {"closed", "open", "unlocking", "unlocked"}
    /\ refused \in SUBSET Passwords

KeystoreInv ==
    /\ KeystoreTypeOK /\ PasswordGetsThrough /\ NothingLeftOpen
    /\ session = "unlocked" => file = keystore
=============================================================================
