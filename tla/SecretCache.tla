----------------------------- MODULE SecretCache -----------------------------
(***************************************************************************)
(* The derived secrets of one entry of the credential store, shared by the *)
(* threads of a session: coder_secret_get looks the secret up, derives it  *)
(* from the password and stores it, each under the lock of the entry; the  *)
(* internal thread replaces the password and purges the old derivation     *)
(* (coder.c, auth-basic.c, cyber.c).  ChallengeSession takes each of these *)
(* for one step; this module opens them.                                   *)
(*                                                                         *)
(* The lock comes from a library and is modelled from its use: a read waits*)
(* for another thread's write, a write is asked for without waiting, and   *)
(* _rwlock_write goes on whether it was granted or not; the thread that    *)
(* holds the write may read.  A read lock is held around a search of the   *)
(* list only, which is one step here.                                      *)
(***************************************************************************)
EXTENDS Integers, Sequences, SequencesExt

CONSTANTS User,      \* the threads that only encrypt or decrypt
          Internal,  \* the internal thread
          MaxPwd     \* bound: passwords of the entry

Thread == User \union {Internal}
Nobody == "nobody"
Nothing == 0

ASSUME CacheAssumption == Nobody \notin Thread /\ MaxPwd \in Nat \ {0}

VARIABLES
    pwd,        \* the current password, counted from 1
    secrets,    \* auth->secrets: for each item its address and its password
    fresh,      \* the next address
    writer,     \* holder of the write lock
    pc,         \* pc[t]: where t is
    key,        \* key[t]: password of the key that t derived
    found,      \* found[t]: address of the secret t holds, or Nothing
    raced,      \* the password was replaced while a thread had derived a key
    contended,  \* a write lock was not granted
    fault       \* a freed secret was used

vars == <<pwd, secrets, fresh, writer, pc, key, found, raced, contended, fault>>

Secret == [at : Nat, from : 1 .. MaxPwd]

TypeOK ==
    /\ pwd \in 1 .. MaxPwd
    /\ secrets \in Seq(Secret) /\ fresh \in Nat
    /\ writer \in Thread \union {Nobody}
    /\ pc \in [Thread -> {"idle", "get", "derive", "write", "check", "store", "use",
                          "purge", "lock", "free"}]
    /\ key \in [Thread -> 0 .. MaxPwd] /\ found \in [Thread -> Nat]
    /\ {raced, contended, fault} \subseteq BOOLEAN

Init ==
    /\ pwd = 1 /\ secrets = <<>> /\ fresh = 1
    /\ writer = Nobody
    /\ pc = [t \in Thread |-> "idle"]
    /\ key = [t \in Thread |-> 0]
    /\ found = [t \in Thread |-> Nothing]
    /\ raced = FALSE /\ contended = FALSE /\ fault = FALSE

-----------------------------------------------------------------------------
(* The lock, and the list.                                                 *)

CanRead(t) == writer \in {Nobody, t}

\* The writer after t asked for the write lock, and whether it was granted.
Granted(t) == writer = Nobody
rwlock_write_nowait(t) ==
    /\ writer' = IF Granted(t) THEN t ELSE writer
    /\ contended' = (contended \/ ~Granted(t))

rwlock_release(t) == writer' = IF writer = t THEN Nobody ELSE writer

Addresses == {secrets[i].at : i \in DOMAIN secrets}

\* All the secrets are of the one cipher of the session: the first is found.
auth_secret_find == IF secrets = <<>> THEN Nothing ELSE Head(secrets).at

Goto(t, label) == pc' = [pc EXCEPT ![t] = label]

-----------------------------------------------------------------------------
(* coder_secret_get, in coder_decrypt, coder_encrypt and Challenge_encode. *)

Ask(t) ==
    /\ pc[t] = "idle"
    /\ Goto(t, "get")
    /\ UNCHANGED <<pwd, secrets, fresh, writer, key, found, raced, contended, fault>>

auth_secret_get(t) ==
    /\ pc[t] = "get" /\ CanRead(t)
    /\ found' = [found EXCEPT ![t] = auth_secret_find]
    /\ Goto(t, IF secrets = <<>> THEN "derive" ELSE "use")
    /\ UNCHANGED <<pwd, secrets, fresh, writer, key, raced, contended, fault>>

\* The password is read without the lock.
Derive(t) ==
    /\ pc[t] = "derive"
    /\ key' = [key EXCEPT ![t] = pwd]
    /\ Goto(t, "write")
    /\ UNCHANGED <<pwd, secrets, fresh, writer, found, raced, contended, fault>>

\* auth_secret_add_or_update: the write lock,
AddLocks(t) ==
    /\ pc[t] = "write"
    /\ rwlock_write_nowait(t)
    /\ Goto(t, "check")
    /\ UNCHANGED <<pwd, secrets, fresh, key, found, raced, fault>>

\* Mutant: the list is not searched before the insertion.
AddFinds_Never(t) ==
    /\ pc[t] = "check" /\ CanRead(t)
    /\ found' = [found EXCEPT ![t] = Nothing]
    /\ Goto(t, "store")
    /\ UNCHANGED <<pwd, secrets, fresh, writer, key, raced, contended, fault>>

\* a search under the read lock nested in it,
AddFinds(t) ==
    /\ pc[t] = "check" /\ CanRead(t)
    /\ found' = [found EXCEPT ![t] = auth_secret_find]
    /\ Goto(t, "store")
    /\ UNCHANGED <<pwd, secrets, fresh, writer, key, raced, contended, fault>>

\* Mutant: the lock is kept.
AddStores_KeepsLock(t) ==
    /\ pc[t] = "store" /\ found[t] = Nothing
    /\ secrets' = Append(secrets, [at |-> fresh, from |-> key[t]])
    /\ fresh' = fresh + 1
    /\ found' = [found EXCEPT ![t] = fresh]
    /\ Goto(t, "use")
    /\ UNCHANGED <<pwd, writer, key, raced, contended, fault>>

\* and the insertion, or the update of the secret found.
AddStores(t) ==
    /\ pc[t] = "store"
    /\ \/ /\ found[t] = Nothing
          /\ secrets' = Append(secrets, [at |-> fresh, from |-> key[t]])
          /\ fresh' = fresh + 1
          /\ found' = [found EXCEPT ![t] = fresh]
          /\ UNCHANGED fault
       \/ /\ found[t] # Nothing
          /\ secrets' = [i \in DOMAIN secrets |->
                            IF secrets[i].at = found[t] THEN [secrets[i] EXCEPT !.from = key[t]]
                            ELSE secrets[i]]
          /\ fault' = (fault \/ found[t] \notin Addresses)
          /\ UNCHANGED <<fresh, found>>
    /\ rwlock_release(t)
    /\ Goto(t, "use")
    /\ UNCHANGED <<pwd, key, raced, contended>>

\* coder_cipher_encrypt or coder_cipher_decrypt with the secret, no lock held.
Use(t) ==
    /\ pc[t] = "use"
    /\ fault' = (fault \/ found[t] \notin Addresses)
    /\ Goto(t, "idle")
    /\ UNCHANGED <<pwd, secrets, fresh, writer, key, found, raced, contended>>

-----------------------------------------------------------------------------
(* The internal thread replaces the password and purges the derivation.    *)

\* auth_set_pwd_b64 or auth_switch_to_new_pwd.
Renew ==
    /\ pc[Internal] = "idle" /\ pwd < MaxPwd
    /\ pwd' = pwd + 1
    /\ raced' = (raced \/ \E u \in User : pc[u] \in {"write", "check", "store"})
    /\ Goto(Internal, "purge")
    /\ UNCHANGED <<secrets, fresh, writer, key, found, contended, fault>>

\* auth_secret_delete_by_key: the search,
DeleteFinds ==
    /\ pc[Internal] = "purge" /\ CanRead(Internal)
    /\ found' = [found EXCEPT ![Internal] = auth_secret_find]
    /\ Goto(Internal, IF secrets = <<>> THEN "idle" ELSE "lock")
    /\ UNCHANGED <<pwd, secrets, fresh, writer, key, raced, contended, fault>>

\* the write lock,
DeleteLocks ==
    /\ pc[Internal] = "lock"
    /\ rwlock_write_nowait(Internal)
    /\ Goto(Internal, "free")
    /\ UNCHANGED <<pwd, secrets, fresh, key, found, raced, fault>>

\* Mutant: the secret is unlinked by nobody.
DeleteFrees_Keeps ==
    /\ pc[Internal] = "free"
    /\ Goto(Internal, "idle")
    /\ UNCHANGED <<pwd, secrets, fresh, writer, key, found, raced, contended, fault>>

\* and the secret is freed; the lock is never released.
DeleteFrees ==
    /\ pc[Internal] = "free"
    /\ \E i \in DOMAIN secrets :
          secrets[i].at = found[Internal] /\ secrets' = RemoveAt(secrets, i)
    /\ Goto(Internal, "idle")
    /\ UNCHANGED <<pwd, fresh, writer, key, found, raced, contended, fault>>

Get(t) == auth_secret_get(t) \/ Derive(t) \/ AddLocks(t) \/ AddFinds(t) \/ AddStores(t) \/ Use(t)

Purge == DeleteFinds \/ DeleteLocks \/ DeleteFrees

\* Nothing is said of a process that has used freed memory.
Next == ~fault /\ (Renew \/ Purge \/ \E t \in Thread : Ask(t) \/ Get(t))

Spec == Init /\ [][Next]_vars

\* The threads are scheduled; nothing makes them ask or renew.
Fairness ==
    /\ WF_vars(~fault /\ Purge)
    /\ \A t \in Thread : WF_vars(~fault /\ Get(t))

FairSpec == Spec /\ Fairness

-----------------------------------------------------------------------------
(* Properties.                                                             *)

\* The internal thread left the lock with a purge (auth_secret_delete_by_key).
LeftHeld == writer = Internal /\ pc[Internal] \in {"idle", "purge", "get", "use"}

\* After a purge no secret of a replaced password is left, unless a thread was
\* between its derivation and its store when the password was replaced.
CurrentUnlessRaced ==
    ~raced /\ ~contended /\ pc[Internal] \notin {"purge", "lock", "free"} =>
        \A i \in DOMAIN secrets : secrets[i].from = pwd

\* Two threads that derive at once store one secret, not two of which a purge
\* would free the first: as long as every write lock was granted.
OneSecretUnlessContended == ~contended => Len(secrets) <= 1

\* What the cache promises in every state: no secret of a replaced password, and
\* no second one, but in the races the two parts name (coder_secret_get).
CacheIsCurrent == TypeOK /\ CurrentUnlessRaced /\ OneSecretUnlessContended

\* Why they are: an item has an address, a purge unlinks an item of the list, as
\* nothing else does, and a key is derived from a password that was current.
Linked ==
    /\ fresh > 0 /\ \A i \in DOMAIN secrets : secrets[i].at > 0
    /\ pc[Internal] \in {"lock", "free"} => found[Internal] \in Addresses
Deriving == {t \in Thread : pc[t] \in {"write", "check", "store"}}
Derived ==
    /\ \A t \in Deriving : key[t] > 0
    /\ ~raced => \A t \in Deriving : key[t] = pwd

\* As long as every write lock was granted, one thread at a time is between its
\* search and its store or its purge, and what it found is what there is.
Locked ==
    ~contended =>
        /\ \A t \in Thread : pc[t] \in {"check", "store"} => writer = t
        /\ pc[Internal] = "free" => writer = Internal
        /\ \A t \in Thread : pc[t] = "store" => found[t] = auth_secret_find
        /\ pc[Internal] \in {"lock", "free"} =>
               secrets # <<>> /\ found[Internal] = auth_secret_find

CacheInv == CacheIsCurrent /\ Linked /\ Derived /\ Locked

\* A thread that asks for a secret gets one, in spite of the locks nested in
\* each other, except behind a purge, which keeps its lock.
SecretIsGiven ==
    \A t \in Thread : (pc[t] = "get") ~> (pc[t] = "use" \/ LeftHeld \/ fault)

\* cyber.c:1681, "purge de l'ancienne derivation": after it, no derivation of
\* the old password is in the cache.
OldDerivationPurged ==
    pc[Internal] \notin {"purge", "lock", "free"} =>
        \A i \in DOMAIN secrets : secrets[i].from = pwd
=============================================================================
