------------------------- MODULE Credentials_proofs -------------------------
(***************************************************************************)
(* Proofs about a password that changes.  The cached secrets, for any      *)
(* number of threads and passwords: but in the races that CacheIsCurrent   *)
(* names, the cache holds at most one secret and none of a replaced        *)
(* password.  The file, for any entries, passwords and lengths of them:    *)
(* whatever lines overwrite each other, and wherever the process ends, it  *)
(* is read as FileIsFaithful says.                                         *)
(***************************************************************************)
EXTENDS MCCredentials, SequenceTheorems, WellFoundedInduction, TLAPS

(* What inserting, updating and unlinking do to the list.                  *)
LEMMA Inserted ==
  ASSUME NEW S, NEW s \in Seq(S), NEW x \in S
  PROVE  /\ Append(s, x) \in Seq(S) /\ Len(Append(s, x)) = Len(s) + 1
         /\ Append(s, x)[Len(s) + 1] = x
         /\ \A i \in 1 .. Len(s) : Append(s, x)[i] = s[i]
BY AppendProperties

LEMMA Unlinked ==
  ASSUME NEW S, NEW s \in Seq(S), NEW i \in DOMAIN s
  PROVE  /\ RemoveAt(s, i) \in Seq(S) /\ Len(RemoveAt(s, i)) = Len(s) - 1
         /\ \A j \in DOMAIN RemoveAt(s, i) : \E k \in DOMAIN s : RemoveAt(s, i)[j] = s[k]
<1> DEFINE a == SubSeq(s, 1, i - 1)
           b == SubSeq(s, i + 1, Len(s))
<1>1. Len(s) \in Nat /\ DOMAIN s = 1 .. Len(s) /\ i \in 1 .. Len(s) /\ \A k \in 1 .. Len(s) : s[k] \in S
  BY LenProperties
<1>2. /\ a \in Seq(S) /\ Len(a) = i - 1
      /\ \A k \in 1 .. i - 1 : a[k] = s[k]
  <2>1. \A k \in 1 .. i - 1 : s[k] \in S
    BY <1>1
  <2>2. /\ SubSeq(s, 1, i - 1) \in Seq(S)
        /\ Len(SubSeq(s, 1, i - 1)) = IF 1 <= i - 1 THEN (i - 1) - 1 + 1 ELSE 0
        /\ \A k \in 1 .. (i - 1) - 1 + 1 : SubSeq(s, 1, i - 1)[k] = s[1 + k - 1]
    BY <1>1, <2>1, SubSeqProperties
  <2> QED BY <1>1, <2>2
<1>3. /\ b \in Seq(S) /\ Len(b) = Len(s) - i
      /\ \A k \in 1 .. Len(s) - i : b[k] = s[i + k]
  <2>1. \A k \in i + 1 .. Len(s) : s[k] \in S
    BY <1>1
  <2>2. /\ SubSeq(s, i + 1, Len(s)) \in Seq(S)
        /\ Len(SubSeq(s, i + 1, Len(s))) = IF i + 1 <= Len(s) THEN Len(s) - (i + 1) + 1 ELSE 0
        /\ \A k \in 1 .. Len(s) - (i + 1) + 1 : SubSeq(s, i + 1, Len(s))[k] = s[(i + 1) + k - 1]
    BY <1>1, <2>1, SubSeqProperties
  <2>3. Len(b) = Len(s) - i
    BY <1>1, <2>2
  <2>4. ASSUME NEW k \in 1 .. Len(s) - i PROVE b[k] = s[i + k]
    <3>1. k \in 1 .. Len(s) - (i + 1) + 1 /\ (i + 1) + k - 1 = i + k
      BY <1>1
    <3>2. SubSeq(s, i + 1, Len(s))[k] = s[(i + 1) + k - 1]
      BY <2>2, <3>1
    <3> QED BY <3>1, <3>2
  <2> QED BY <2>2, <2>3, <2>4
<1>4. RemoveAt(s, i) = a \o b
  BY DEF RemoveAt
<1> HIDE DEF a, b
<1>5. /\ a \o b \in Seq(S) /\ Len(a \o b) = Len(a) + Len(b)
      /\ \A k \in 1 .. Len(a) + Len(b) : (a \o b)[k] = IF k <= Len(a) THEN a[k] ELSE b[k - Len(a)]
  BY <1>2, <1>3, ConcatProperties
<1>6. DOMAIN (a \o b) = 1 .. Len(s) - 1 /\ Len(a \o b) = Len(s) - 1
  <2>1. Len(a) + Len(b) = Len(s) - 1
    BY <1>1, <1>2, <1>3
  <2>2. DOMAIN (a \o b) = 1 .. Len(a \o b)
    BY <1>5, LenProperties
  <2> QED BY <1>5, <2>1, <2>2
<1>7. ASSUME NEW j \in 1 .. Len(s) - 1 PROVE \E k \in 1 .. Len(s) : (a \o b)[j] = s[k]
  <2>1. CASE j <= i - 1
    BY <1>1, <1>2, <1>3, <1>5, <2>1
  <2>2. CASE j > i - 1
    <3>1. (a \o b)[j] = b[j - (i - 1)] /\ j - (i - 1) \in 1 .. Len(s) - i
      BY <1>1, <1>2, <1>3, <1>5, <2>2
    <3>2. b[j - (i - 1)] = s[i + (j - (i - 1))]
      BY <1>3, <3>1
    <3>3. i + (j - (i - 1)) \in 1 .. Len(s)
      BY <1>1, <3>1
    <3> QED BY <3>1, <3>2, <3>3
  <2>3. j <= i - 1 \/ j > i - 1
    BY <1>1
  <2> QED BY <2>1, <2>2, <2>3
<1> QED BY <1>1, <1>4, <1>5, <1>6, <1>7

(* The list is empty when the search finds nothing: an address is not 0.   *)
LEMMA Finds ==
  ASSUME TypeOK, Linked
  PROVE  /\ Len(secrets) \in Nat /\ DOMAIN secrets = 1 .. Len(secrets)
         /\ \A i \in DOMAIN secrets : secrets[i] \in Secret
         /\ secrets = <<>> <=> Len(secrets) = 0
         /\ auth_secret_find = Nothing <=> secrets = <<>>
         /\ secrets # <<>> => auth_secret_find = secrets[1].at /\ 1 \in DOMAIN secrets
         /\ auth_secret_find \in Nat
         /\ secrets # <<>> => auth_secret_find \in Addresses
<1>1. /\ Len(secrets) \in Nat /\ DOMAIN secrets = 1 .. Len(secrets)
      /\ \A i \in 1 .. Len(secrets) : secrets[i] \in Secret
      /\ secrets = <<>> <=> Len(secrets) = 0
  BY LenProperties, EmptySeq DEF TypeOK
<1>2. secrets # <<>> => auth_secret_find = secrets[1].at /\ 1 \in DOMAIN secrets
  BY <1>1 DEF auth_secret_find
<1>3. secrets = <<>> => auth_secret_find = Nothing
  BY DEF auth_secret_find
<1>4. secrets # <<>> => auth_secret_find \in Nat /\ auth_secret_find # Nothing
  BY <1>1, <1>2 DEF Linked, Secret, Nothing
<1>5. secrets # <<>> => auth_secret_find \in Addresses
  BY <1>2 DEF Addresses
<1> QED BY <1>1, <1>2, <1>3, <1>4, <1>5 DEF Nothing

LEMMA CacheStart == Init => CacheInv
<1> USE CacheAssumption
<1> SUFFICES ASSUME Init PROVE CacheInv
  OBVIOUS
<1>1. <<>> \in Seq(Secret) /\ Len(<<>>) = 0 /\ DOMAIN <<>> = {}
  BY EmptySeq
<1>2. TypeOK
  <2>1. pwd \in 1 .. MaxPwd /\ secrets \in Seq(Secret) /\ fresh \in Nat
    BY <1>1 DEF Init
  <2>2. key \in [Thread -> 0 .. MaxPwd] /\ found \in [Thread -> Nat]
    BY DEF Init, Nothing
  <2>3. /\ pc \in [Thread -> {"idle", "get", "derive", "write", "check", "store", "use",
                              "purge", "lock", "free"}]
        /\ writer \in Thread \union {Nobody} /\ {raced, contended, fault} \subseteq BOOLEAN
    BY DEF Init
  <2> QED BY <2>1, <2>2, <2>3 DEF TypeOK
<1>3. CurrentUnlessRaced /\ OneSecretUnlessContended
  BY <1>1 DEF Init, CurrentUnlessRaced, OneSecretUnlessContended
<1>4. Linked /\ Derived /\ Locked
  BY <1>1 DEF Init, Linked, Derived, Locked, Deriving, Thread
<1> QED BY <1>2, <1>3, <1>4 DEF CacheInv, CacheIsCurrent

-----------------------------------------------------------------------------
(* The steps that leave the list alone.                                    *)
LEMMA ListSame ==
  ASSUME CacheInv, UNCHANGED <<pwd, secrets, fresh>>, TypeOK', Derived', Locked',
         contended' = FALSE => contended = FALSE, UNCHANGED raced,
         pc'[Internal] \in {"lock", "free"} => found'[Internal] \in Addresses,
         pc[Internal] \in {"purge", "lock", "free"} =>
             pc'[Internal] \in {"purge", "lock", "free"} \/ secrets = <<>>
  PROVE  CacheInv'
<1> USE DEF CacheInv, CacheIsCurrent
<1>1. Linked'
  BY DEF Linked, Addresses
<1>2. OneSecretUnlessContended'
  BY DEF OneSecretUnlessContended, TypeOK
<1>3. secrets = <<>> => DOMAIN secrets = {}
  BY EmptySeq
<1>4. CurrentUnlessRaced'
  BY <1>3 DEF CurrentUnlessRaced, TypeOK
<1> QED BY <1>1, <1>2, <1>4

(* A step of t to another place of coder_secret_get that neither locks nor *)
(* stores.                                                                 *)
LEMMA CacheAsk ==
  ASSUME CacheInv, NEW t \in Thread, Ask(t)
  PROVE  CacheInv'
<1> USE DEF CacheInv, CacheIsCurrent
<1>1. /\ pc[t] = "idle" /\ pc' = [pc EXCEPT ![t] = "get"]
      /\ UNCHANGED <<pwd, secrets, fresh, writer, key, found, raced, contended, fault>>
  BY DEF Ask, Goto
<1>2. TypeOK'
  BY <1>1 DEF TypeOK
<1>3. Derived' /\ Locked'
  BY <1>1 DEF Derived, Deriving, Locked, TypeOK, auth_secret_find
<1>4. /\ pc'[Internal] \in {"lock", "free"} => found'[Internal] \in Addresses
      /\ pc[Internal] \in {"purge", "lock", "free"} => pc'[Internal] \in {"purge", "lock", "free"}
  BY <1>1 DEF TypeOK, Linked, Thread
<1> HIDE DEF CacheInv
<1> QED BY <1>1, <1>2, <1>3, <1>4, ListSame

LEMMA CacheGet ==
  ASSUME CacheInv, NEW t \in Thread, auth_secret_get(t)
  PROVE  CacheInv'
<1> USE DEF CacheInv, CacheIsCurrent
<1>0. auth_secret_find \in Nat
  BY Finds
<1>1. /\ pc[t] = "get" /\ found' = [found EXCEPT ![t] = auth_secret_find]
      /\ UNCHANGED <<pwd, secrets, fresh, writer, key, raced, contended, fault>>
  BY DEF auth_secret_get
<1>2. PICK l \in {"derive", "use"} : pc' = [pc EXCEPT ![t] = l]
  BY DEF auth_secret_get, Goto
<1>3. TypeOK'
  BY <1>0, <1>1, <1>2 DEF TypeOK
<1>4. Derived' /\ Locked'
  BY <1>1, <1>2 DEF Derived, Deriving, Locked, TypeOK, auth_secret_find
<1>5. /\ pc'[Internal] \in {"lock", "free"} => found'[Internal] \in Addresses
      /\ pc[Internal] \in {"purge", "lock", "free"} => pc'[Internal] \in {"purge", "lock", "free"}
  BY <1>1, <1>2 DEF TypeOK, Linked, Thread
<1> HIDE DEF CacheInv
<1> QED BY <1>1, <1>3, <1>4, <1>5, ListSame

LEMMA CacheDerive ==
  ASSUME CacheInv, NEW t \in Thread, Derive(t)
  PROVE  CacheInv'
<1> USE DEF CacheInv, CacheIsCurrent
<1>1. /\ pc[t] = "derive" /\ pc' = [pc EXCEPT ![t] = "write"] /\ key' = [key EXCEPT ![t] = pwd]
      /\ UNCHANGED <<pwd, secrets, fresh, writer, found, raced, contended, fault>>
  BY DEF Derive, Goto
<1>2. TypeOK'
  BY <1>1 DEF TypeOK
<1>3. Derived'
  BY <1>1 DEF Derived, Deriving, TypeOK
<1>4. Locked'
  BY <1>1 DEF Locked, TypeOK, auth_secret_find
<1>5. /\ pc'[Internal] \in {"lock", "free"} => found'[Internal] \in Addresses
      /\ pc[Internal] \in {"purge", "lock", "free"} => pc'[Internal] \in {"purge", "lock", "free"}
  BY <1>1 DEF TypeOK, Linked, Thread
<1> HIDE DEF CacheInv
<1> QED BY <1>1, <1>2, <1>3, <1>4, <1>5, ListSame

(* A write lock that is granted was held by nobody.                        *)
LEMMA CacheAddLocks ==
  ASSUME CacheInv, NEW t \in Thread, AddLocks(t)
  PROVE  CacheInv'
<1> USE CacheAssumption DEF CacheInv, CacheIsCurrent
<1>1. /\ pc[t] = "write" /\ pc' = [pc EXCEPT ![t] = "check"]
      /\ UNCHANGED <<pwd, secrets, fresh, key, found, raced, fault>>
      /\ contended' \in BOOLEAN
      /\ ~contended' => ~contended /\ writer = Nobody /\ writer' = t
      /\ writer' \in {writer, t}
  BY DEF AddLocks, Goto, rwlock_write_nowait, Granted, TypeOK
<1>2. TypeOK'
  BY <1>1 DEF TypeOK
<1>3. Derived'
  BY <1>1 DEF Derived, Deriving, TypeOK
<1>4. Locked'
  BY <1>1 DEF Locked, TypeOK, auth_secret_find, Thread
<1>5. /\ pc'[Internal] \in {"lock", "free"} => found'[Internal] \in Addresses
      /\ pc[Internal] \in {"purge", "lock", "free"} => pc'[Internal] \in {"purge", "lock", "free"}
  BY <1>1 DEF TypeOK, Linked, Thread
<1> HIDE DEF CacheInv
<1> QED BY <1>1, <1>2, <1>3, <1>4, <1>5, ListSame DEF CacheInv, CacheIsCurrent, TypeOK

LEMMA CacheAddFinds ==
  ASSUME CacheInv, NEW t \in Thread, AddFinds(t)
  PROVE  CacheInv'
<1> USE DEF CacheInv, CacheIsCurrent
<1>0. auth_secret_find \in Nat
  BY Finds
<1>1. /\ pc[t] = "check" /\ pc' = [pc EXCEPT ![t] = "store"]
      /\ found' = [found EXCEPT ![t] = auth_secret_find]
      /\ UNCHANGED <<pwd, secrets, fresh, writer, key, raced, contended, fault>>
  BY DEF AddFinds, Goto
<1>2. TypeOK'
  BY <1>0, <1>1 DEF TypeOK
<1>3. Derived'
  BY <1>1 DEF Derived, Deriving, TypeOK
<1>4. auth_secret_find' = auth_secret_find
  BY <1>1 DEF auth_secret_find
<1>5. Locked'
  BY <1>1, <1>4 DEF Locked, TypeOK
<1>6. /\ pc'[Internal] \in {"lock", "free"} => found'[Internal] \in Addresses
      /\ pc[Internal] \in {"purge", "lock", "free"} => pc'[Internal] \in {"purge", "lock", "free"}
  BY <1>1 DEF TypeOK, Linked, Thread
<1> HIDE DEF CacheInv
<1> QED BY <1>1, <1>2, <1>3, <1>5, <1>6, ListSame

LEMMA CacheUse ==
  ASSUME CacheInv, NEW t \in Thread, Use(t)
  PROVE  CacheInv'
<1> USE DEF CacheInv, CacheIsCurrent
<1>1. /\ pc[t] = "use" /\ pc' = [pc EXCEPT ![t] = "idle"] /\ fault' \in BOOLEAN
      /\ UNCHANGED <<pwd, secrets, fresh, writer, key, found, raced, contended>>
  BY DEF Use, Goto, TypeOK
<1>2. TypeOK'
  BY <1>1 DEF TypeOK
<1>3. Derived' /\ Locked'
  BY <1>1 DEF Derived, Deriving, Locked, TypeOK, auth_secret_find
<1>4. /\ pc'[Internal] \in {"lock", "free"} => found'[Internal] \in Addresses
      /\ pc[Internal] \in {"purge", "lock", "free"} => pc'[Internal] \in {"purge", "lock", "free"}
  BY <1>1 DEF TypeOK, Linked, Thread
<1> HIDE DEF CacheInv
<1> QED BY <1>1, <1>2, <1>3, <1>4, ListSame

-----------------------------------------------------------------------------
(* Storing.  What the two ways have in common: the thread leaves the lock, *)
(* and when it was granted no other thread is about to store or to purge.  *)
LEMMA AddLeaves ==
  ASSUME CacheInv, NEW t \in Thread, AddStores(t)
  PROVE  /\ pc[t] = "store" /\ pc' = [pc EXCEPT ![t] = "use"]
         /\ UNCHANGED <<pwd, key, raced, contended>>
         /\ writer' = IF writer = t THEN Nobody ELSE writer
         /\ key[t] \in 1 .. MaxPwd /\ (~raced => key[t] = pwd)
         /\ ~contended =>
              /\ found[t] = auth_secret_find
              /\ \A u \in Thread : u # t => pc[u] \notin {"check", "store"}
              /\ pc[Internal] # "free"
         /\ Derived'
<1> USE DEF CacheInv, CacheIsCurrent
<1>1. /\ pc[t] = "store" /\ pc' = [pc EXCEPT ![t] = "use"]
      /\ UNCHANGED <<pwd, key, raced, contended>>
      /\ writer' = IF writer = t THEN Nobody ELSE writer
  BY DEF AddStores, Goto, rwlock_release
<1>2. t \in Deriving
  BY <1>1 DEF Deriving
<1>3. key[t] \in 1 .. MaxPwd /\ (~raced => key[t] = pwd)
  BY <1>2 DEF Derived, TypeOK
<1>4. ~contended => /\ found[t] = auth_secret_find
                    /\ \A u \in Thread : u # t => pc[u] \notin {"check", "store"}
                    /\ pc[Internal] # "free"
  BY <1>1 DEF Locked
<1>5. Derived'
  BY <1>1 DEF Derived, Deriving, TypeOK
<1> HIDE DEF CacheInv
<1> QED BY <1>1, <1>3, <1>4, <1>5

(* A first secret.                                                         *)
LEMMA CacheInserts ==
  ASSUME CacheInv, NEW t \in Thread, AddStores(t), found[t] = Nothing
  PROVE  CacheInv'
<1> DEFINE x == [at |-> fresh, from |-> key[t]]
<1>1. /\ pc[t] = "store" /\ pc' = [pc EXCEPT ![t] = "use"]
      /\ UNCHANGED <<pwd, key, raced, contended>>
      /\ writer' = IF writer = t THEN Nobody ELSE writer
      /\ key[t] \in 1 .. MaxPwd /\ (~raced => key[t] = pwd)
      /\ ~contended => /\ found[t] = auth_secret_find
                       /\ \A u \in Thread : u # t => pc[u] \notin {"check", "store"}
                       /\ pc[Internal] # "free"
      /\ Derived'
  BY AddLeaves
<1>2. /\ secrets' = Append(secrets, x) /\ fresh' = fresh + 1
      /\ found' = [found EXCEPT ![t] = fresh] /\ UNCHANGED fault
  BY DEF AddStores
<1> USE DEF CacheInv, CacheIsCurrent
<1>3. x \in Secret /\ x.at = fresh /\ x.from = key[t] /\ fresh > 0 /\ fresh \in Nat
  BY <1>1 DEF Secret, TypeOK, Linked
<1> HIDE DEF x
<1>4. /\ Len(secrets) \in Nat /\ DOMAIN secrets = 1 .. Len(secrets)
      /\ secrets = <<>> <=> Len(secrets) = 0
      /\ auth_secret_find = Nothing <=> secrets = <<>>
  BY Finds
<1>5. /\ secrets' \in Seq(Secret) /\ Len(secrets') = Len(secrets) + 1
      /\ DOMAIN secrets' = 1 .. Len(secrets) + 1
      /\ secrets'[Len(secrets) + 1] = x
      /\ \A i \in 1 .. Len(secrets) : secrets'[i] = secrets[i]
  BY <1>2, <1>3, Inserted, LenProperties DEF TypeOK
<1>6. \A i \in DOMAIN secrets' : secrets'[i] = x \/ \E k \in DOMAIN secrets : secrets'[i] = secrets[k]
  <2>1. \A i \in DOMAIN secrets' : i = Len(secrets) + 1 \/ i \in DOMAIN secrets
    BY <1>4, <1>5
  <2> QED BY <1>4, <1>5, <2>1
<1>7. \A a \in Addresses : \E i \in DOMAIN secrets' : secrets'[i].at = a
  <2>1. ASSUME NEW k \in DOMAIN secrets PROVE k \in DOMAIN secrets' /\ secrets'[k] = secrets[k]
    BY <1>4, <1>5
  <2> QED BY <2>1 DEF Addresses
<1>8. TypeOK'
  BY <1>1, <1>2, <1>3, <1>5 DEF TypeOK
<1>9. ~contended => secrets = <<>> /\ pc[Internal] \notin {"lock", "free"}
  BY <1>1, <1>4 DEF Locked
<1>10. pc'[Internal] \in {"lock", "free"} => pc[Internal] \in {"lock", "free"} /\ t # Internal
  BY <1>1 DEF TypeOK, Thread
<1>11. Linked'
  <2>1. fresh' > 0 /\ \A i \in DOMAIN secrets' : secrets'[i].at > 0
    BY <1>2, <1>3, <1>6 DEF Linked
  <2>2. pc'[Internal] \in {"lock", "free"} => found'[Internal] \in Addresses'
    BY <1>2, <1>7, <1>10 DEF Linked, Addresses, TypeOK, Thread
  <2> QED BY <2>1, <2>2 DEF Linked
<1>12. Locked'
  BY <1>1, <1>9, <1>10 DEF Locked, TypeOK
<1>13. OneSecretUnlessContended'
  BY <1>1, <1>4, <1>5, <1>9 DEF OneSecretUnlessContended
<1>14. CurrentUnlessRaced'
  <2>1. pc[Internal] \in {"purge", "lock", "free"} => pc'[Internal] = pc[Internal]
    BY <1>1 DEF TypeOK, Thread
  <2>2. SUFFICES ASSUME ~raced, ~contended, pc[Internal] \notin {"purge", "lock", "free"},
                        NEW i \in DOMAIN secrets'
                 PROVE  secrets'[i].from = pwd
    BY <1>1, <2>1 DEF CurrentUnlessRaced
  <2> QED BY <1>1, <1>3, <1>6, <2>2 DEF CurrentUnlessRaced
<1> HIDE DEF CacheInv
<1> QED BY <1>1, <1>8, <1>11, <1>12, <1>13, <1>14 DEF CacheInv, CacheIsCurrent

(* The secret found is given another derivation.                           *)
LEMMA CacheUpdates ==
  ASSUME CacheInv, NEW t \in Thread, AddStores(t), found[t] # Nothing
  PROVE  CacheInv'
<1>1. /\ pc[t] = "store" /\ pc' = [pc EXCEPT ![t] = "use"]
      /\ UNCHANGED <<pwd, key, raced, contended>>
      /\ writer' = IF writer = t THEN Nobody ELSE writer
      /\ key[t] \in 1 .. MaxPwd /\ (~raced => key[t] = pwd)
      /\ ~contended => /\ found[t] = auth_secret_find
                       /\ \A u \in Thread : u # t => pc[u] \notin {"check", "store"}
                       /\ pc[Internal] # "free"
      /\ Derived'
  BY AddLeaves
<1> USE DEF CacheInv, CacheIsCurrent
<1>2. /\ secrets' = [i \in DOMAIN secrets |->
                        IF secrets[i].at = found[t] THEN [secrets[i] EXCEPT !.from = key[t]]
                        ELSE secrets[i]]
      /\ UNCHANGED <<fresh, found>> /\ fault' \in BOOLEAN
  BY DEF AddStores, TypeOK
<1>3. /\ Len(secrets) \in Nat /\ DOMAIN secrets = 1 .. Len(secrets)
      /\ \A i \in DOMAIN secrets : secrets[i] \in Secret
      /\ secrets = <<>> <=> Len(secrets) = 0
      /\ secrets # <<>> => auth_secret_find = secrets[1].at /\ 1 \in DOMAIN secrets
  BY Finds
<1>4. /\ DOMAIN secrets' = DOMAIN secrets
      /\ \A i \in DOMAIN secrets : /\ secrets'[i] \in Secret /\ secrets'[i].at = secrets[i].at
                                   /\ secrets'[i].from \in {secrets[i].from, key[t]}
  BY <1>1, <1>2, <1>3 DEF Secret
<1>5. secrets' \in Seq(Secret) /\ Len(secrets') = Len(secrets)
  <2>1. secrets' \in [1 .. Len(secrets) -> Secret]
    BY <1>2, <1>3, <1>4
  <2> QED BY <1>3, <2>1
<1>6. TypeOK'
  BY <1>1, <1>2, <1>5 DEF TypeOK
<1>7. Addresses' = Addresses
  BY <1>4 DEF Addresses
<1>8. auth_secret_find' = auth_secret_find /\ (secrets' = <<>> <=> secrets = <<>>)
  <2>1. secrets' = <<>> <=> secrets = <<>>
    BY <1>3, <1>5, EmptySeq
  <2>2. secrets # <<>> => secrets'[1].at = secrets[1].at
    BY <1>3, <1>4
  <2>3. secrets' # <<>> => Head(secrets') = secrets'[1]
    BY <1>5
  <2>4. secrets # <<>> => Head(secrets) = secrets[1]
    BY DEF TypeOK
  <2> QED BY <2>1, <2>2, <2>3, <2>4 DEF auth_secret_find
<1>9. pc'[Internal] \in {"lock", "free"} => pc[Internal] = pc'[Internal]
  BY <1>1 DEF TypeOK, Thread
<1>10. Linked'
  BY <1>2, <1>4, <1>7, <1>9 DEF Linked
<1>11. Locked'
  BY <1>1, <1>2, <1>8, <1>9 DEF Locked, TypeOK
<1>12. OneSecretUnlessContended'
  BY <1>1, <1>5 DEF OneSecretUnlessContended
<1>13. CurrentUnlessRaced'
  <2>1. pc[Internal] \in {"purge", "lock", "free"} => pc'[Internal] = pc[Internal]
    BY <1>1 DEF TypeOK, Thread
  <2> QED BY <1>1, <1>4, <2>1 DEF CurrentUnlessRaced
<1> HIDE DEF CacheInv
<1> QED BY <1>1, <1>6, <1>10, <1>11, <1>12, <1>13 DEF CacheInv, CacheIsCurrent

-----------------------------------------------------------------------------
(* The internal thread.  A password is replaced behind the back of a       *)
(* thread that has derived a key, or of none.                              *)
LEMMA CacheRenew ==
  ASSUME CacheInv, Renew
  PROVE  CacheInv'
<1> USE CacheAssumption DEF CacheInv, CacheIsCurrent
<1>1. /\ pc[Internal] = "idle" /\ pc' = [pc EXCEPT ![Internal] = "purge"] /\ Internal \in Thread
      /\ pwd < MaxPwd /\ pwd' = pwd + 1
      /\ UNCHANGED <<secrets, fresh, writer, key, found, contended, fault>>
  BY DEF Renew, Goto, Thread
<1>2. raced' \in BOOLEAN /\ (~raced' => ~raced /\ Deriving = {})
  BY <1>1 DEF Renew, Deriving, Thread, TypeOK
<1>3. TypeOK'
  BY <1>1, <1>2 DEF TypeOK
<1>4. Deriving' = Deriving
  BY <1>1 DEF Deriving, TypeOK
<1>5. Derived'
  BY <1>1, <1>2, <1>4 DEF Derived
<1>6. Linked' /\ Locked'
  BY <1>1 DEF Linked, Locked, Addresses, auth_secret_find, TypeOK
<1>7. CurrentUnlessRaced' /\ OneSecretUnlessContended'
  BY <1>1 DEF CurrentUnlessRaced, OneSecretUnlessContended, TypeOK
<1> HIDE DEF CacheInv
<1> QED BY <1>3, <1>5, <1>6, <1>7 DEF CacheInv, CacheIsCurrent

LEMMA CacheDeleteFinds ==
  ASSUME CacheInv, DeleteFinds
  PROVE  CacheInv'
<1> USE DEF CacheInv, CacheIsCurrent
<1>0. auth_secret_find \in Nat /\ (secrets # <<>> => auth_secret_find \in Addresses)
  BY Finds
<1>1. /\ pc[Internal] = "purge" /\ found' = [found EXCEPT ![Internal] = auth_secret_find]
      /\ UNCHANGED <<pwd, secrets, fresh, writer, key, raced, contended, fault>>
      /\ Internal \in Thread
  BY DEF DeleteFinds, Thread
<1>2. PICK l \in {"idle", "lock"} : /\ pc' = [pc EXCEPT ![Internal] = l]
                                    /\ l = "idle" <=> secrets = <<>>
  BY DEF DeleteFinds, Goto
<1>3. TypeOK'
  BY <1>0, <1>1, <1>2 DEF TypeOK
<1>4. Derived'
  BY <1>1, <1>2 DEF Derived, Deriving, TypeOK
<1>5. auth_secret_find' = auth_secret_find
  BY <1>1 DEF auth_secret_find
<1>6. Locked'
  BY <1>1, <1>2, <1>5 DEF Locked, TypeOK
<1>7. /\ pc'[Internal] \in {"lock", "free"} => found'[Internal] \in Addresses
      /\ pc'[Internal] \in {"purge", "lock", "free"} \/ secrets = <<>>
  BY <1>0, <1>1, <1>2 DEF TypeOK
<1> HIDE DEF CacheInv
<1> QED BY <1>1, <1>3, <1>4, <1>6, <1>7, ListSame

LEMMA CacheDeleteLocks ==
  ASSUME CacheInv, DeleteLocks
  PROVE  CacheInv'
<1> USE CacheAssumption DEF CacheInv, CacheIsCurrent
<1>1. /\ pc[Internal] = "lock" /\ pc' = [pc EXCEPT ![Internal] = "free"] /\ Internal \in Thread
      /\ UNCHANGED <<pwd, secrets, fresh, key, found, raced, fault>>
      /\ contended' \in BOOLEAN
      /\ ~contended' => ~contended /\ writer = Nobody /\ writer' = Internal
      /\ writer' \in {writer, Internal}
  BY DEF DeleteLocks, Goto, rwlock_write_nowait, Granted, TypeOK, Thread
<1>2. TypeOK'
  BY <1>1 DEF TypeOK
<1>3. Derived'
  BY <1>1 DEF Derived, Deriving, TypeOK
<1>4. auth_secret_find' = auth_secret_find
  BY <1>1 DEF auth_secret_find
<1>5. Locked'
  BY <1>1, <1>4 DEF Locked, TypeOK
<1>6. pc'[Internal] = "free" /\ found'[Internal] \in Addresses
  BY <1>1 DEF TypeOK, Linked
<1> HIDE DEF CacheInv
<1> QED BY <1>1, <1>2, <1>3, <1>5, <1>6, ListSame DEF CacheInv, CacheIsCurrent, TypeOK

(* The purge unlinks the one secret there is.                              *)
LEMMA CacheDeleteFrees ==
  ASSUME CacheInv, DeleteFrees
  PROVE  CacheInv'
<1> USE DEF CacheInv, CacheIsCurrent
<1>1. /\ pc[Internal] = "free" /\ pc' = [pc EXCEPT ![Internal] = "idle"] /\ Internal \in Thread
      /\ UNCHANGED <<pwd, fresh, writer, key, found, raced, contended, fault>>
  BY DEF DeleteFrees, Goto, Thread
<1>2. PICK i \in DOMAIN secrets : secrets' = RemoveAt(secrets, i)
  BY DEF DeleteFrees
<1>3. /\ secrets' \in Seq(Secret) /\ Len(secrets') = Len(secrets) - 1
      /\ \A j \in DOMAIN secrets' : \E k \in DOMAIN secrets : secrets'[j] = secrets[k]
  BY <1>2, Unlinked DEF TypeOK
<1>4. TypeOK'
  BY <1>1, <1>3 DEF TypeOK
<1>5. ~contended => DOMAIN secrets' = {} /\ Len(secrets') = 0
  <2>1. ~contended => Len(secrets) <= 1
    BY DEF OneSecretUnlessContended
  <2>2. Len(secrets) \in Nat /\ Len(secrets') \in Nat /\ DOMAIN secrets' = 1 .. Len(secrets')
    BY <1>3, LenProperties DEF TypeOK
  <2> QED BY <1>3, <2>1, <2>2
<1>6. Derived'
  BY <1>1 DEF Derived, Deriving, TypeOK
<1>7. Linked'
  BY <1>1, <1>3 DEF Linked, TypeOK
<1>8. Locked'
  BY <1>1 DEF Locked, TypeOK
<1>9. CurrentUnlessRaced' /\ OneSecretUnlessContended'
  BY <1>1, <1>5 DEF CurrentUnlessRaced, OneSecretUnlessContended
<1> HIDE DEF CacheInv
<1> QED BY <1>4, <1>6, <1>7, <1>8, <1>9 DEF CacheInv, CacheIsCurrent

(* Each step keeps the invariant.                                          *)
LEMMA CacheStep == CacheInv /\ [Next]_vars => CacheInv'
<1> SUFFICES ASSUME CacheInv, [Next]_vars PROVE CacheInv'
  OBVIOUS
<1>1. CASE UNCHANGED vars
  BY <1>1 DEF vars, CacheInv, CacheIsCurrent, TypeOK, CurrentUnlessRaced,
     OneSecretUnlessContended, Linked, Addresses, Derived, Deriving, Locked, auth_secret_find
<1>2. CASE Renew \/ Purge
  BY <1>2, CacheRenew, CacheDeleteFinds, CacheDeleteLocks, CacheDeleteFrees DEF Purge
<1>3. ASSUME NEW t \in Thread, Ask(t) \/ Get(t) PROVE CacheInv'
  BY <1>3, CacheAsk, CacheGet, CacheDerive, CacheAddLocks, CacheAddFinds, CacheInserts,
     CacheUpdates, CacheUse DEF Get
<1> QED BY <1>1, <1>2, <1>3 DEF Next

(* The cache is current in every interleaving of any number of threads, as *)
(* long as no password was replaced behind a derivation and no write lock  *)
(* refused: at most one secret, derived from the current password once     *)
(* auth_secret_delete_by_key is over.                                      *)
THEOREM CacheStaysCurrent == Spec => []CacheIsCurrent
<1>1. CacheInv => CacheIsCurrent
  BY DEF CacheInv
<1> QED BY <1>1, CacheStart, CacheStep, PTL DEF Spec

-----------------------------------------------------------------------------
(* The file: what CHOOSE finds.  A non-empty set of naturals has a least.  *)
LEMMA Least ==
  ASSUME NEW T \in SUBSET Nat, T # {}
  PROVE  \E x \in T : \A y \in T : x <= y
<1> DEFINE R == OpToRel(<, Nat)
<1>1. IsWellFoundedOn(R, Nat)
  BY NatLessThanWellFounded
<1>2. \A x, y \in Nat : y < x => <<y, x>> \in R
  BY DEF OpToRel
<1> HIDE DEF R
<1>3. PICK x \in T : \A y \in T : ~(<<y, x>> \in R)
  BY <1>1, WFMin
<1>4. \A y \in T : ~(y < x) /\ x \in Nat /\ y \in Nat
  BY <1>2, <1>3
<1>5. \A y \in T : x <= y
  BY <1>4
<1> QED BY <1>5

LEMMA Least_Min ==
  ASSUME NEW T \in SUBSET Nat, T # {}
  PROVE  Min(T) \in T /\ \A y \in T : Min(T) <= y
<1>1. \E x \in T : \A y \in T : x <= y
  BY Least
<1> QED BY <1>1 DEF Min

(* A non-empty set of records of a file has a last one.                    *)
LEMMA LatestExists ==
  ASSUME NEW n \in Nat, NEW S, NEW T \in SUBSET ((1 .. n) \X S), T # {}
  PROVE  Latest(T) \in T /\ \A q \in T : q[1] <= Latest(T)[1]
<1> DEFINE U == {u \in Nat : \A q \in T : q[1] <= u}
<1>0. \A q \in T : q[1] \in 1 .. n
  OBVIOUS
<1>1. n \in U
  BY <1>0
<1>2. PICK u \in U : \A v \in U : u <= v
  BY <1>1, Least
<1>3. \E q \in T : q[1] = u
  <2>1. SUFFICES ASSUME \A q \in T : q[1] # u PROVE FALSE
    OBVIOUS
  <2>2. PICK y \in T : TRUE
    OBVIOUS
  <2>3. u - 1 \in Nat /\ \A q \in T : q[1] <= u - 1
    BY <1>0, <2>1, <2>2
  <2>4. u - 1 \in U
    BY <2>3
  <2> QED BY <1>2, <2>4
<1>4. \E r \in T : \A q \in T : q[1] <= r[1]
  BY <1>3
<1> QED BY <1>4 DEF Latest

-----------------------------------------------------------------------------
(* The shape of a line.                                                    *)

LEMMA Joined ==
  ASSUME NEW S, NEW s \in Seq(S), NEW t \in Seq(S)
  PROVE  /\ s \o t \in Seq(S) /\ Len(s \o t) = Len(s) + Len(t)
         /\ \A i \in 1 .. Len(s) : (s \o t)[i] = s[i]
         /\ \A i \in Len(s) + 1 .. Len(s) + Len(t) : (s \o t)[i] = t[i - Len(s)]
<1>1. Len(s) \in Nat /\ Len(t) \in Nat
  BY LenProperties
<1>2. /\ s \o t \in Seq(S) /\ Len(s \o t) = Len(s) + Len(t)
      /\ \A i \in 1 .. Len(s) + Len(t) : (s \o t)[i] = IF i <= Len(s) THEN s[i] ELSE t[i - Len(s)]
  BY ConcatProperties
<1> QED BY <1>1, <1>2

LEMMA CellFacts ==
  /\ EndOfLine \in Cell /\ EndOfLine.column = "end"
  /\ \A e \in Entry : Key(e) \in Cell /\ Key(e).column = "key" /\ Key(e).entry = e
BY DEF Cell, EndOfLine, Key

LEMMA CellsShape ==
  ASSUME NEW p \in Pwd, NEW column \in {"pwd", "new"}
  PROVE  /\ Cells(column, p) \in Seq(Cell) /\ Len(Cells(column, p)) = Size[p]
         /\ Size[p] \in Nat \ {0}
         /\ \A i \in 1 .. Size[p] : Cells(column, p)[i].column = column /\ Cells(column, p)[i].pwd = p
<1>1. Size[p] \in Nat \ {0}
  BY FileAssumption
<1>2. \A i \in 1 .. Size[p] : [column |-> column, pwd |-> p, part |-> i] \in Cell
  BY DEF Cell
<1> DEFINE s == [i \in 1 .. Size[p] |-> [column |-> column, pwd |-> p, part |-> i]]
<1>3. s \in Seq(Cell)
  BY <1>1, <1>2
<1>4. Len(s) = Size[p]
  BY <1>1, <1>3
<1> QED BY <1>1, <1>3, <1>4 DEF Cells

(* What auth_write writes: the key, the password, the new one, the end.    *)
LEMMA WriteShape ==
  ASSUME NEW e \in Entry, NEW c \in Credential
  PROVE  /\ auth_write(e, c) \in Seq(Cell) /\ Size[c.pwd] \in Nat \ {0}
         /\ Len(auth_write(e, c)) \in Nat /\ Len(auth_write(e, c)) >= Size[c.pwd] + 2
         /\ auth_write(e, c)[1] = Key(e)
         /\ auth_write(e, c)[Len(auth_write(e, c))] = EndOfLine
         /\ \A i \in 2 .. Size[c.pwd] + 1 :
                auth_write(e, c)[i].column = "pwd" /\ auth_write(e, c)[i].pwd = c.pwd
         /\ \A i \in Size[c.pwd] + 2 .. Len(auth_write(e, c)) - 1 :
                auth_write(e, c)[i].column = "new" /\ auth_write(e, c)[i].pwd = c.new
         /\ c.new # None <=> Len(auth_write(e, c)) > Size[c.pwd] + 2
<1> DEFINE a == Cells("pwd", c.pwd)
           b == IF c.new = None THEN <<>> ELSE Cells("new", c.new)
           n == IF c.new = None THEN 0 ELSE Size[c.new]
           k == <<Key(e)>>
           z == <<EndOfLine>>
<1>0. c.pwd \in Pwd /\ c.new \in Pwd \union {None}
  BY DEF Credential
<1>1. /\ a \in Seq(Cell) /\ Len(a) = Size[c.pwd] /\ Size[c.pwd] \in Nat \ {0}
      /\ \A i \in 1 .. Size[c.pwd] : a[i].column = "pwd" /\ a[i].pwd = c.pwd
  BY <1>0, CellsShape
<1>2. /\ b \in Seq(Cell) /\ Len(b) = n /\ n \in Nat /\ (c.new # None <=> n > 0)
      /\ \A i \in 1 .. n : b[i].column = "new" /\ b[i].pwd = c.new
  <2>1. CASE c.new = None
    BY <2>1
  <2>2. CASE c.new # None
    <3>1. /\ Cells("new", c.new) \in Seq(Cell) /\ Len(Cells("new", c.new)) = Size[c.new]
          /\ Size[c.new] \in Nat \ {0}
          /\ \A i \in 1 .. Size[c.new] : Cells("new", c.new)[i].column = "new" /\ Cells("new", c.new)[i].pwd = c.new
      BY <1>0, <2>2, CellsShape
    <3> QED BY <2>2, <3>1
  <2> QED BY <2>1, <2>2
<1>3. k \in Seq(Cell) /\ Len(k) = 1 /\ k[1] = Key(e) /\ z \in Seq(Cell) /\ Len(z) = 1 /\ z[1] = EndOfLine
  BY CellFacts
<1>w. auth_write(e, c) = ((k \o a) \o b) \o z
  BY DEF auth_write
<1> DEFINE m == Size[c.pwd]
           ka == k \o a
           kab == ka \o b
           w == kab \o z
<1> HIDE DEF a, b, n, k, z, m, ka, kab, w
<1>m. m \in Nat \ {0} /\ n \in Nat /\ Len(a) = m /\ Len(b) = n
  BY <1>1, <1>2 DEF m
<1>ka. /\ ka \in Seq(Cell) /\ Len(ka) = 1 + m
       /\ \A i \in 1 .. 1 : ka[i] = k[i]
       /\ \A i \in 1 + 1 .. 1 + m : ka[i] = a[i - 1]
  <2>1. /\ k \o a \in Seq(Cell) /\ Len(k \o a) = Len(k) + Len(a)
        /\ \A i \in 1 .. Len(k) : (k \o a)[i] = k[i]
        /\ \A i \in Len(k) + 1 .. Len(k) + Len(a) : (k \o a)[i] = a[i - Len(k)]
    BY <1>1, <1>3, Joined
  <2> QED BY <2>1, <1>3, <1>m DEF ka
<1>kab. /\ kab \in Seq(Cell) /\ Len(kab) = 1 + m + n
        /\ \A i \in 1 .. 1 + m : kab[i] = ka[i]
        /\ \A i \in (1 + m) + 1 .. (1 + m) + n : kab[i] = b[i - (1 + m)]
  <2>1. /\ ka \o b \in Seq(Cell) /\ Len(ka \o b) = Len(ka) + Len(b)
        /\ \A i \in 1 .. Len(ka) : (ka \o b)[i] = ka[i]
        /\ \A i \in Len(ka) + 1 .. Len(ka) + Len(b) : (ka \o b)[i] = b[i - Len(ka)]
    BY <1>2, <1>ka, Joined
  <2> QED BY <2>1, <1>ka, <1>m DEF kab
<1>kabz. /\ w \in Seq(Cell) /\ Len(w) = (1 + m + n) + 1
         /\ \A i \in 1 .. 1 + m + n : w[i] = kab[i]
         /\ \A i \in (1 + m + n) + 1 .. (1 + m + n) + 1 : w[i] = z[i - (1 + m + n)]
  <2>1. /\ kab \o z \in Seq(Cell) /\ Len(kab \o z) = Len(kab) + Len(z)
        /\ \A i \in 1 .. Len(kab) : (kab \o z)[i] = kab[i]
        /\ \A i \in Len(kab) + 1 .. Len(kab) + Len(z) : (kab \o z)[i] = z[i - Len(kab)]
    BY <1>3, <1>kab, Joined
  <2> QED BY <2>1, <1>3, <1>kab, <1>m DEF w
<1>4. w \in Seq(Cell) /\ Len(w) = m + n + 2 /\ w[1] = k[1] /\ w[m + n + 2] = z[1]
  <2>1. w[1] = k[1]
    <3>1. 1 \in 1 .. 1 /\ 1 \in 1 .. 1 + m /\ 1 \in 1 .. 1 + m + n
      BY <1>m
    <3> QED BY <1>ka, <1>kab, <1>kabz, <3>1
  <2>2. m + n + 2 \in (1 + m + n) + 1 .. (1 + m + n) + 1 /\ (m + n + 2) - (1 + m + n) = 1
    BY <1>m
  <2>3. w[m + n + 2] = z[(m + n + 2) - (1 + m + n)]
    BY <1>kabz, <2>2
  <2> QED BY <1>kabz, <1>m, <2>1, <2>2, <2>3
<1>5. ASSUME NEW i \in 2 .. m + 1 PROVE w[i] = a[i - 1]
  <2>1. i \in 1 .. 1 + m /\ i \in 1 .. 1 + m + n /\ i \in 1 + 1 .. 1 + m
    BY <1>m
  <2> QED BY <1>ka, <1>kab, <1>kabz, <2>1
<1>6. ASSUME NEW i \in m + 2 .. m + n + 1 PROVE w[i] = b[i - (m + 1)]
  <2>1. i \in (1 + m) + 1 .. (1 + m) + n /\ i \in 1 .. 1 + m + n /\ i - (1 + m) = i - (m + 1)
    BY <1>m
  <2> QED BY <1>kab, <1>kabz, <2>1
<1>e. auth_write(e, c) = w
  BY <1>w DEF w, ka, kab
<1>7. w[1] = Key(e) /\ w[Len(w)] = EndOfLine /\ Len(w) \in Nat /\ Len(w) >= m + 2
  BY <1>3, <1>4, <1>m
<1>8. ASSUME NEW i \in 2 .. m + 1 PROVE w[i].column = "pwd" /\ w[i].pwd = c.pwd
  <2>1. w[i] = a[i - 1] /\ i - 1 \in 1 .. m
    BY <1>5, <1>m
  <2> QED BY <1>1, <2>1 DEF m
<1>9. ASSUME NEW i \in m + 2 .. Len(w) - 1 PROVE w[i].column = "new" /\ w[i].pwd = c.new
  <2>1. w[i] = b[i - (m + 1)] /\ i - (m + 1) \in 1 .. n
    <3>1. i \in m + 2 .. m + n + 1
      BY <1>4, <1>m
    <3> QED BY <1>6, <1>m, <3>1
  <2> QED BY <1>2, <2>1
<1>10. c.new # None <=> Len(w) > m + 2
  BY <1>2, <1>4, <1>m
<1> QED BY <1>m, <1>4, <1>7, <1>8, <1>9, <1>10, <1>e DEF m

LEMMA HandShape ==
  ASSUME NEW e \in Entry
  PROVE  /\ HandWritten(e) \in Seq(Cell) /\ Len(HandWritten(e)) = 3
         /\ HandWritten(e)[1] = Key(e) /\ HandWritten(e)[2].column = "text"
         /\ HandWritten(e)[3] = EndOfLine
<1>1. [column |-> "text", pwd |-> First[e]] \in Cell
  BY FileAssumption DEF Cell
<1> QED BY <1>1, CellFacts DEF HandWritten

(* A line of the file: a key, then passwords, then the end.                *)
LEMMA LineShape ==
  ASSUME NEW e \in Entry, NEW c \in Credential, NEW line \in LinesOf(e, c)
  PROVE  /\ line \in Seq(Cell) /\ Len(line) \in Nat /\ Len(line) >= 3
         /\ line[1] = Key(e) /\ line[Len(line)] = EndOfLine
         /\ \A i \in 2 .. Len(line) - 1 : line[i].column \in {"pwd", "new", "text"}
<1>1. line = auth_write(e, c) \/ line = HandWritten(e)
  BY DEF LinesOf
<1>2. CASE line = auth_write(e, c)
  <2>1. /\ line \in Seq(Cell) /\ Size[c.pwd] \in Nat \ {0}
        /\ Len(line) \in Nat /\ Len(line) >= Size[c.pwd] + 2
        /\ line[1] = Key(e) /\ line[Len(line)] = EndOfLine
        /\ \A i \in 2 .. Size[c.pwd] + 1 : line[i].column = "pwd"
        /\ \A i \in Size[c.pwd] + 2 .. Len(line) - 1 : line[i].column = "new"
    BY <1>2, WriteShape
  <2> DEFINE m == Size[c.pwd]
  <2> HIDE DEF m
  <2>2. /\ m \in Nat \ {0} /\ Len(line) >= m + 2
        /\ \A i \in 2 .. m + 1 : line[i].column = "pwd"
        /\ \A i \in m + 2 .. Len(line) - 1 : line[i].column = "new"
    BY <2>1 DEF m
  <2>3. \A i \in 2 .. Len(line) - 1 : i \in 2 .. m + 1 \/ i \in m + 2 .. Len(line) - 1
    BY <2>1, <2>2
  <2>4. \A i \in 2 .. Len(line) - 1 : line[i].column \in {"pwd", "new", "text"}
    BY <2>2, <2>3
  <2>5. Len(line) >= 3
    BY <2>1, <2>2
  <2> QED BY <2>1, <2>4, <2>5
<1>3. CASE line = HandWritten(e)
  <2>1. /\ line \in Seq(Cell) /\ Len(line) = 3 /\ line[1] = Key(e)
        /\ line[2].column = "text" /\ line[3] = EndOfLine
    BY <1>3, HandShape
  <2>2. \A i \in 2 .. Len(line) - 1 : i = 2
    BY <2>1
  <2> QED BY <2>1, <2>2
<1> QED BY <1>1, <1>2, <1>3

(* A line stands for one entry and one credential.                         *)
LEMMA WriteOnce ==
  ASSUME NEW e \in Entry, NEW c \in Credential, NEW d \in Credential,
         auth_write(e, c) = auth_write(e, d)
  PROVE  c = d
<1> DEFINE line == auth_write(e, c)
           m == Size[c.pwd]
<1>1. /\ m \in Nat \ {0} /\ Len(line) \in Nat /\ Len(line) >= m + 2
      /\ \A i \in 2 .. m + 1 : line[i].pwd = c.pwd
      /\ \A i \in m + 2 .. Len(line) - 1 : line[i].pwd = c.new
      /\ c.new # None <=> Len(line) > m + 2
  BY WriteShape
<1>2. /\ Size[d.pwd] \in Nat \ {0}
      /\ \A i \in 2 .. Size[d.pwd] + 1 : line[i].pwd = d.pwd
      /\ \A i \in Size[d.pwd] + 2 .. Len(line) - 1 : line[i].pwd = d.new
      /\ d.new # None <=> Len(line) > Size[d.pwd] + 2
  BY WriteShape
<1>3. c.pwd = d.pwd
  <2>1. line[2].pwd = c.pwd
    BY <1>1
  <2>2. line[2].pwd = d.pwd
    BY <1>2
  <2> QED BY <2>1, <2>2
<1>4. /\ \A i \in m + 2 .. Len(line) - 1 : line[i].pwd = d.new
      /\ d.new # None <=> Len(line) > m + 2
  BY <1>2, <1>3
<1> HIDE DEF m, line
<1>5. c.new = d.new
  <2>1. CASE Len(line) > m + 2
    <3>1. m + 2 \in m + 2 .. Len(line) - 1
      BY <1>1, <2>1
    <3> QED BY <1>1, <1>4, <3>1
  <2>2. CASE ~(Len(line) > m + 2)
    BY <1>1, <1>4, <2>2
  <2> QED BY <2>1, <2>2
<1>6. c = [pwd |-> c.pwd, new |-> c.new] /\ d = [pwd |-> d.pwd, new |-> d.new]
  BY DEF Credential
<1> QED BY <1>3, <1>5, <1>6

LEMMA WriteIsNotHand ==
  ASSUME NEW e \in Entry, NEW c \in Credential, auth_write(e, c) = HandWritten(e)
  PROVE  FALSE
<1>1. HandWritten(e)[2].column = "text"
  BY HandShape
<1>2. Size[c.pwd] \in Nat \ {0} /\ \A i \in 2 .. Size[c.pwd] + 1 : auth_write(e, c)[i].column = "pwd"
  BY WriteShape
<1>3. 2 \in 2 .. Size[c.pwd] + 1
  BY <1>2
<1>4. auth_write(e, c)[2].column = "pwd"
  BY <1>2, <1>3
<1> QED BY <1>1, <1>4

LEMMA LineMeansOne ==
  ASSUME NEW e \in Entry, NEW c \in Credential, NEW x \in Entry, NEW d \in Credential,
         NEW line \in LinesOf(e, c), line \in LinesOf(x, d)
  PROVE  x = e /\ d = c
<1>1. x = e
  <2>1. line[1] = Key(e)
    BY LineShape
  <2>2. line[1] = Key(x)
    BY LineShape
  <2>3. Key(e).entry = e /\ Key(x).entry = x
    BY CellFacts
  <2> QED BY <2>1, <2>2, <2>3
<1>2. /\ line = auth_write(e, c) \/ (c = [pwd |-> First[e], new |-> None] /\ line = HandWritten(e))
      /\ line = auth_write(e, d) \/ (d = [pwd |-> First[e], new |-> None] /\ line = HandWritten(e))
  BY <1>1 DEF LinesOf
<1>3. CASE line = auth_write(e, c) /\ line = auth_write(e, d)
  BY <1>1, <1>3, WriteOnce
<1>4. CASE ~(line = auth_write(e, c) /\ line = auth_write(e, d))
  BY <1>1, <1>2, <1>4, WriteIsNotHand
<1> QED BY <1>3, <1>4

-----------------------------------------------------------------------------
(* Where the lines of a file are.                                          *)

Begins(f, i) == i = 0 \/ i \in Ends(f)
Found(f, i, line) ==
    i + Len(line) <= Len(f) /\ \A k \in 1 .. Len(line) : f[i + k] = line[k]

(* A record comes from a line that says it, after the end of another.      *)
LEMMA RecordShape ==
  ASSUME NEW f \in Seq(Cell), NEW e \in Entry, NEW r \in Records(f, e)
  PROVE  \E c \in Credential : \E line \in LinesOf(e, c) : \E i \in Nat :
            /\ auth_pwd_decode(c.pwd) /\ Begins(f, i) /\ Found(f, i, line)
            /\ r = <<i + Len(line), c>>
<1>1. PICK l \in Lines(f) :
         r \in {<<l[2], d[2]>> : d \in {x \in Decode(SubSeq(f, l[1], l[2])) : x[1] = e}}
  BY DEF Records
<1>2. PICK d \in Decode(SubSeq(f, l[1], l[2])) : d[1] = e /\ r = <<l[2], d[2]>>
  BY <1>1
<1> DEFINE a == l[1]
           b == l[2]
           c == d[2]
           line == SubSeq(f, a, b)
<1>3. c \in Credential /\ line \in LinesOf(e, c) /\ auth_pwd_decode(c.pwd)
  BY <1>2 DEF Decode
<1>f. Len(f) \in Nat /\ DOMAIN f = 1 .. Len(f) /\ \A k \in 1 .. Len(f) : f[k] \in Cell
  BY LenProperties
<1>4. a \in 1 .. Len(f) /\ b \in 1 .. Len(f) /\ a <= b /\ (a = 1 \/ a - 1 \in Ends(f))
  BY <1>f DEF Lines, Ends
<1>r. r = <<b, c>>
  BY <1>2
<1> HIDE DEF a, b, c
<1>5. Len(line) = b - a + 1 /\ \A k \in 1 .. b - a + 1 : line[k] = f[a + k - 1]
  <2>1. \A k \in a .. b : f[k] \in Cell
    BY <1>f, <1>4
  <2>2. /\ Len(SubSeq(f, a, b)) = IF a <= b THEN b - a + 1 ELSE 0
        /\ \A k \in 1 .. b - a + 1 : SubSeq(f, a, b)[k] = f[a + k - 1]
    BY <1>4, <2>1, SubSeqProperties
  <2> QED BY <1>4, <2>2
<1> HIDE DEF line
<1>6. a - 1 \in Nat /\ Begins(f, a - 1) /\ (a - 1) + Len(line) = b
  BY <1>4, <1>5 DEF Begins
<1>7. Found(f, a - 1, line)
  <2>1. ASSUME NEW k \in 1 .. Len(line) PROVE f[(a - 1) + k] = line[k]
    <3>1. k \in 1 .. b - a + 1 /\ (a - 1) + k = a + k - 1
      BY <1>4, <1>5
    <3> QED BY <1>5, <3>1
  <2> QED BY <1>4, <1>6, <2>1 DEF Found
<1> QED BY <1>3, <1>6, <1>7, <1>r

(* The converse.                                                           *)
LEMMA RecordFound ==
  ASSUME NEW f \in Seq(Cell), NEW e \in Entry, NEW c \in Credential,
         NEW line \in LinesOf(e, c), NEW i \in Nat,
         auth_pwd_decode(c.pwd), Begins(f, i), Found(f, i, line)
  PROVE  <<i + Len(line), c>> \in Records(f, e)
<1> DEFINE a == i + 1
           b == i + Len(line)
<1>f. Len(f) \in Nat /\ DOMAIN f = 1 .. Len(f) /\ \A k \in 1 .. Len(f) : f[k] \in Cell
  BY LenProperties
<1>1. /\ line \in Seq(Cell) /\ Len(line) \in Nat /\ Len(line) >= 3
      /\ line[1] = Key(e) /\ line[Len(line)] = EndOfLine
      /\ \A k \in 2 .. Len(line) - 1 : line[k].column \in {"pwd", "new", "text"}
  BY LineShape
<1>2. i + Len(line) <= Len(f) /\ \A k \in 1 .. Len(line) : f[i + k] = line[k]
  BY DEF Found
<1>3. a \in DOMAIN f /\ b \in DOMAIN f /\ a <= b
  BY <1>f, <1>1, <1>2
<1>4. b \in Ends(f)
  BY <1>1, <1>2, <1>3 DEF Ends
<1>5. ASSUME NEW k \in a .. b - 1 PROVE k \notin Ends(f)
  <2>1. k - i \in 1 .. Len(line) - 1 /\ k - i \in 1 .. Len(line) /\ i + (k - i) = k
    BY <1>1
  <2>2. f[k] = line[k - i]
    BY <1>2, <2>1
  <2>3. line[k - i].column # "end"
    <3>1. CASE k - i = 1
      BY <3>1, <1>1, CellFacts
    <3>2. CASE k - i # 1
      <4>1. k - i \in 2 .. Len(line) - 1
        BY <2>1, <3>2, <1>1
      <4> QED BY <1>1, <4>1
    <3> QED BY <3>1, <3>2
  <2> QED BY <2>2, <2>3, CellFacts DEF Ends
<1>6. a = 1 \/ a - 1 \in Ends(f)
  BY DEF Begins
<1>7. SubSeq(f, a, b) = line
  <2>1. \A k \in a .. b : f[k] \in Cell
    BY <1>f, <1>3
  <2>2. /\ SubSeq(f, a, b) \in Seq(Cell)
        /\ Len(SubSeq(f, a, b)) = IF a <= b THEN b - a + 1 ELSE 0
        /\ \A k \in 1 .. b - a + 1 : SubSeq(f, a, b)[k] = f[a + k - 1]
    BY <1>3, <1>f, <2>1, SubSeqProperties
  <2>3. Len(SubSeq(f, a, b)) = Len(line)
    BY <1>1, <2>2
  <2>4. ASSUME NEW k \in 1 .. Len(line) PROVE SubSeq(f, a, b)[k] = line[k]
    <3>1. k \in 1 .. b - a + 1 /\ a + k - 1 = i + k
      BY <1>1
    <3> QED BY <1>2, <2>2, <3>1
  <2> QED BY <1>1, <2>2, <2>3, <2>4, SeqEqual
<1> HIDE DEF a, b
<1> DEFINE l == <<a, b>>
<1>8. l \in Lines(f) /\ l[1] = a /\ l[2] = b
  BY <1>3, <1>4, <1>5, <1>6 DEF Lines
<1>9. <<e, c>> \in Decode(SubSeq(f, l[1], l[2]))
  BY <1>7, <1>8 DEF Decode
<1> HIDE DEF l
<1>10. <<b, c>> \in {<<l[2], d[2]>> : d \in {x \in Decode(SubSeq(f, l[1], l[2])) : x[1] = e}}
  BY <1>8, <1>9
<1>11. <<b, c>> \in Records(f, e)
  BY <1>8, <1>10 DEF Records
<1> QED BY <1>11 DEF b

(* Where a record may be, and what it may be.                              *)
LEMMA RecordType ==
  ASSUME NEW f \in Seq(Cell), NEW e \in Entry
  PROVE  Records(f, e) \in SUBSET ((1 .. Len(f)) \X Credential)
<1>1. SUFFICES ASSUME NEW r \in Records(f, e) PROVE r \in (1 .. Len(f)) \X Credential
  OBVIOUS
<1>a. PICK c \in Credential : \E line \in LinesOf(e, c) : \E i \in Nat :
         Found(f, i, line) /\ r = <<i + Len(line), c>>
  BY RecordShape
<1>2. PICK line \in LinesOf(e, c), i \in Nat : Found(f, i, line) /\ r = <<i + Len(line), c>>
  BY <1>a
<1>3. Len(line) \in Nat /\ Len(line) >= 3
  BY LineShape
<1>4. Len(f) \in Nat
  BY LenProperties
<1>5. i + Len(line) \in 1 .. Len(f)
  BY <1>2, <1>3, <1>4 DEF Found
<1> QED BY <1>2, <1>5

-----------------------------------------------------------------------------
(* What a line written over a file does to its records.                    *)

Over(f, at, line, g) ==
    /\ Len(g) >= at + Len(line) /\ Len(g) >= Len(f)
    /\ \A i \in 1 .. at : g[i] = f[i]
    /\ \A i \in 1 .. Len(line) : g[at + i] = line[i]
    /\ \A i \in at + Len(line) + 1 .. Len(g) : i <= Len(f) /\ g[i] = f[i]

LEMMA OverwrittenIs ==
  ASSUME NEW f \in Seq(Cell), NEW line \in Seq(Cell), NEW at \in Nat, at <= Len(f)
  PROVE  Overwritten(f, at, line) \in Seq(Cell) /\ Over(f, at, line, Overwritten(f, at, line))
<1>1. /\ Len(f) \in Nat /\ Len(line) \in Nat
      /\ \A i \in 1 .. Len(f) : f[i] \in Cell
      /\ \A i \in 1 .. Len(line) : line[i] \in Cell
  BY LenProperties
<1> DEFINE n == IF at + Len(line) > Len(f) THEN at + Len(line) ELSE Len(f)
           G(i) == IF i \in at + 1 .. at + Len(line) THEN line[i - at] ELSE f[i]
           g == [i \in 1 .. n |-> G(i)]
<1>2. n \in Nat /\ n >= at + Len(line) /\ n >= Len(f) /\ (n > at + Len(line) => n = Len(f))
  BY <1>1
<1>3. /\ \A i \in 1 .. at : G(i) = f[i]
      /\ \A i \in 1 .. Len(line) : G(at + i) = line[i]
      /\ \A i \in at + Len(line) + 1 .. n : i <= Len(f) /\ G(i) = f[i]
  <2>1. \A i \in 1 .. at : i \notin at + 1 .. at + Len(line)
    BY <1>1
  <2>2. \A i \in 1 .. Len(line) : at + i \in at + 1 .. at + Len(line) /\ (at + i) - at = i
    BY <1>1
  <2>3. \A i \in at + Len(line) + 1 .. n : i \notin at + 1 .. at + Len(line) /\ i <= Len(f)
    BY <1>1, <1>2
  <2> QED BY <2>1, <2>2, <2>3
<1>4. \A i \in 1 .. n : G(i) \in Cell
  <2>1. TAKE i \in 1 .. n
  <2>2. CASE i \in at + 1 .. at + Len(line)
    <3>1. i - at \in 1 .. Len(line)
      BY <1>1, <2>2
    <3> QED BY <1>1, <2>2, <3>1
  <2>3. CASE i \notin at + 1 .. at + Len(line)
    <3>1. i \in 1 .. Len(f)
      BY <1>1, <1>2, <2>3
    <3> QED BY <1>1, <2>3, <3>1
  <2> QED BY <2>2, <2>3
<1>5. Overwritten(f, at, line) = g
  BY DEF Overwritten
<1> HIDE DEF n, G
<1>6. g \in Seq(Cell) /\ Len(g) = n /\ \A i \in 1 .. n : g[i] = G(i)
  BY <1>2, <1>4
<1> HIDE DEF g
<1>7. \A i \in 1 .. at : g[i] = f[i]
  <2>1. \A i \in 1 .. at : i \in 1 .. n
    BY <1>1, <1>2
  <2> QED BY <1>3, <1>6, <2>1
<1>8. \A i \in 1 .. Len(line) : g[at + i] = line[i]
  <2>1. \A i \in 1 .. Len(line) : at + i \in 1 .. n
    BY <1>1, <1>2
  <2> QED BY <1>3, <1>6, <2>1
<1>9. \A i \in at + Len(line) + 1 .. n : i <= Len(f) /\ g[i] = f[i]
  <2>1. \A i \in at + Len(line) + 1 .. n : i \in 1 .. n
    BY <1>1, <1>2
  <2> QED BY <1>3, <1>6, <2>1
<1> QED BY <1>2, <1>5, <1>6, <1>7, <1>8, <1>9 DEF Over

(* The ends before the line stay, and its own is added.                    *)
LEMMA OverEnds ==
  ASSUME NEW f \in Seq(Cell), NEW g \in Seq(Cell), NEW at \in Nat, at <= Len(f),
         NEW e \in Entry, NEW c \in Credential, NEW line \in LinesOf(e, c), Over(f, at, line, g)
  PROVE  /\ \A i \in 0 .. at : Begins(g, i) <=> Begins(f, i)
         /\ at + Len(line) \in Ends(g)
         /\ \A i \in at + 1 .. at + Len(line) - 1 : i \notin Ends(g)
         /\ \A i \in at + 2 .. at + Len(line) : i \in 1 .. Len(g) /\ g[i].column # "key"
<1>1. /\ Len(line) \in Nat /\ Len(line) >= 3
      /\ line[1] = Key(e) /\ line[Len(line)] = EndOfLine
      /\ \A i \in 2 .. Len(line) - 1 : line[i].column \in {"pwd", "new", "text"}
  BY LineShape
<1>2. /\ Len(f) \in Nat /\ Len(g) \in Nat /\ DOMAIN f = 1 .. Len(f) /\ DOMAIN g = 1 .. Len(g)
  BY LenProperties
<1>3. /\ Len(g) >= at + Len(line) /\ Len(g) >= Len(f)
      /\ \A i \in 1 .. at : g[i] = f[i]
      /\ \A i \in 1 .. Len(line) : g[at + i] = line[i]
  BY DEF Over
<1>4. ASSUME NEW i \in 0 .. at PROVE Begins(g, i) <=> Begins(f, i)
  <2>1. CASE i = 0
    BY <2>1 DEF Begins
  <2>2. CASE i # 0
    <3>1. i \in 1 .. at /\ i \in 1 .. Len(f) /\ i \in 1 .. Len(g)
      BY <1>2, <1>3, <2>2
    <3> QED BY <1>2, <1>3, <2>2, <3>1 DEF Begins, Ends
  <2> QED BY <2>1, <2>2
<1>5. at + Len(line) \in Ends(g)
  <2>1. Len(line) \in 1 .. Len(line) /\ at + Len(line) \in 1 .. Len(g)
    BY <1>1, <1>2, <1>3
  <2> QED BY <1>1, <1>2, <1>3, <2>1 DEF Ends
<1>6. \A i \in 1 .. Len(line) - 1 : line[i].column # "end"
  <2>1. line[1].column = "key"
    BY <1>1, CellFacts
  <2>2. \A i \in 1 .. Len(line) - 1 : i = 1 \/ i \in 2 .. Len(line) - 1
    BY <1>1
  <2> QED BY <1>1, <2>1, <2>2
<1>7. \A i \in 2 .. Len(line) : line[i].column # "key"
  <2>1. line[Len(line)].column = "end"
    BY <1>1, CellFacts
  <2>2. \A i \in 2 .. Len(line) : i = Len(line) \/ i \in 2 .. Len(line) - 1
    BY <1>1
  <2> QED BY <1>1, <2>1, <2>2
<1>8. ASSUME NEW i \in at + 1 .. at + Len(line) - 1 PROVE i \notin Ends(g)
  <2>1. i - at \in 1 .. Len(line) - 1 /\ i - at \in 1 .. Len(line) /\ at + (i - at) = i
    BY <1>1
  <2>2. g[i] = line[i - at]
    BY <1>3, <2>1
  <2> QED BY <1>6, <2>1, <2>2, CellFacts DEF Ends
<1>9. ASSUME NEW i \in at + 2 .. at + Len(line) PROVE i \in 1 .. Len(g) /\ g[i].column # "key"
  <2>1. i - at \in 2 .. Len(line) /\ i - at \in 1 .. Len(line) /\ at + (i - at) = i
    BY <1>1
  <2>2. g[i] = line[i - at]
    BY <1>3, <2>1
  <2>3. i \in 1 .. Len(g)
    BY <1>1, <1>2, <1>3
  <2> QED BY <1>7, <2>1, <2>2, <2>3
<1> QED BY <1>4, <1>5, <1>8, <1>9

(* After the line, the keys are still first: the rest of what it overwrote *)
(* begins with none, or with the key of the next line.                     *)
LEMMA OverKeys ==
  ASSUME NEW f \in Seq(Cell), NEW g \in Seq(Cell), NEW at \in Nat, at <= Len(f),
         NEW e \in Entry, NEW c \in Credential, NEW line \in LinesOf(e, c), Over(f, at, line, g),
         Begins(f, at), KeysFirst(f)
  PROVE  KeysFirst(g)
<1>1. SUFFICES ASSUME NEW i \in DOMAIN g, g[i].column = "key", i # 1 PROVE i - 1 \in Ends(g)
  BY DEF KeysFirst
<1>2. Len(f) \in Nat /\ Len(g) \in Nat /\ DOMAIN f = 1 .. Len(f) /\ DOMAIN g = 1 .. Len(g)
  BY LenProperties
<1>3. Len(line) \in Nat /\ Len(line) >= 3
  BY LineShape
<1>4. /\ \A k \in 0 .. at : Begins(g, k) <=> Begins(f, k)
      /\ at + Len(line) \in Ends(g)
      /\ \A k \in at + 2 .. at + Len(line) : g[k].column # "key"
  BY OverEnds
<1>5. /\ Len(g) >= at + Len(line) /\ Len(g) >= Len(f)
      /\ \A k \in 1 .. at : g[k] = f[k]
      /\ \A k \in at + Len(line) + 1 .. Len(g) : k <= Len(f) /\ g[k] = f[k]
  BY DEF Over
<1>6. i \in 2 .. Len(g)
  BY <1>1, <1>2
<1>7. CASE i <= at
  <2>1. i \in 1 .. at /\ i \in 1 .. Len(f) /\ i - 1 \in 0 .. at /\ i - 1 # 0
    BY <1>2, <1>6, <1>7
  <2>2. i - 1 \in Ends(f)
    BY <1>1, <1>2, <1>5, <2>1 DEF KeysFirst
  <2> QED BY <1>4, <2>1, <2>2 DEF Begins
<1>8. CASE i = at + 1
  <2>1. at \in 0 .. at /\ at # 0 /\ i - 1 = at
    BY <1>6, <1>8
  <2> QED BY <1>4, <2>1 DEF Begins
<1>9. CASE i > at + Len(line)
  <2>1. i \in at + Len(line) + 1 .. Len(g)
    BY <1>2, <1>3, <1>6, <1>9
  <2>2. i \in 1 .. Len(f) /\ f[i].column = "key"
    BY <1>1, <1>2, <1>5, <1>6, <2>1
  <2>3. i - 1 \in Ends(f)
    BY <1>1, <1>2, <2>2 DEF KeysFirst
  <2>4. CASE i - 1 = at + Len(line)
    BY <1>4, <2>4
  <2>5. CASE i - 1 # at + Len(line)
    <3>1. i - 1 \in at + Len(line) + 1 .. Len(g) /\ i - 1 \in 1 .. Len(g)
      BY <1>2, <1>3, <1>6, <1>9, <2>5
    <3> QED BY <1>2, <1>5, <2>3, <3>1 DEF Ends
  <2> QED BY <2>4, <2>5
<1>10. i <= at \/ i = at + 1 \/ i \in at + 2 .. at + Len(line) \/ i > at + Len(line)
  BY <1>3, <1>6
<1> QED BY <1>1, <1>4, <1>7, <1>8, <1>9, <1>10

(* The records up to the offset stay, and the line adds its own.           *)
LEMMA OverKept ==
  ASSUME NEW f \in Seq(Cell), NEW g \in Seq(Cell), NEW at \in Nat, at <= Len(f),
         NEW e \in Entry, NEW c \in Credential, NEW line \in LinesOf(e, c), Over(f, at, line, g),
         NEW x \in Entry, NEW r \in Records(f, x), r[1] <= at
  PROVE  r \in Records(g, x)
<1>1. PICK d \in Credential : \E l \in LinesOf(x, d) : \E i \in Nat :
         /\ auth_pwd_decode(d.pwd) /\ Begins(f, i) /\ Found(f, i, l)
         /\ r = <<i + Len(l), d>>
  BY RecordShape
<1>2. PICK l \in LinesOf(x, d), i \in Nat :
         /\ auth_pwd_decode(d.pwd) /\ Begins(f, i) /\ Found(f, i, l)
         /\ r = <<i + Len(l), d>>
  BY <1>1
<1>3. Len(l) \in Nat /\ Len(l) >= 3 /\ Len(line) \in Nat /\ Len(line) >= 3
  BY LineShape
<1>4. Len(f) \in Nat /\ Len(g) \in Nat
  BY LenProperties
<1>5. i + Len(l) <= at
  BY <1>2
<1>6. Begins(g, i)
  <2>1. i \in 0 .. at
    BY <1>3, <1>5
  <2> QED BY <1>2, <2>1, OverEnds
<1>7. Found(g, i, l)
  <2>1. ASSUME NEW k \in 1 .. Len(l) PROVE g[i + k] = l[k]
    <3>1. i + k \in 1 .. at
      BY <1>3, <1>5
    <3> QED BY <1>2, <3>1 DEF Found, Over
  <2>2. i + Len(l) <= Len(g)
    BY <1>3, <1>4, <1>5 DEF Over
  <2> QED BY <2>1, <2>2 DEF Found
<1> QED BY <1>2, <1>6, <1>7, RecordFound

LEMMA OverNew ==
  ASSUME NEW f \in Seq(Cell), NEW g \in Seq(Cell), NEW at \in Nat, at <= Len(f),
         NEW e \in Entry, NEW c \in Credential, NEW line \in LinesOf(e, c), Over(f, at, line, g),
         Begins(f, at), auth_pwd_decode(c.pwd)
  PROVE  <<at + Len(line), c>> \in Records(g, e)
<1>1. Begins(g, at)
  <2>1. at \in 0 .. at
    OBVIOUS
  <2> QED BY <2>1, OverEnds
<1>2. Found(g, at, line)
  BY DEF Found, Over
<1> QED BY <1>1, <1>2, RecordFound

(* Nothing else appears: a record of the new file is the line's own, or one *)
(* that was in the old file before the line or after it.                   *)
LEMMA OverSource ==
  ASSUME NEW f \in Seq(Cell), NEW g \in Seq(Cell), NEW at \in Nat, at <= Len(f),
         NEW e \in Entry, NEW c \in Credential, NEW line \in LinesOf(e, c), Over(f, at, line, g),
         Begins(f, at), KeysFirst(f), NEW x \in Entry, NEW r \in Records(g, x)
  PROVE  \/ x = e /\ r = <<at + Len(line), c>>
         \/ r \in Records(f, x) /\ (r[1] <= at \/ r[1] > at + Len(line))
<1>1. PICK d \in Credential : \E l \in LinesOf(x, d) : \E i \in Nat :
         /\ auth_pwd_decode(d.pwd) /\ Begins(g, i) /\ Found(g, i, l)
         /\ r = <<i + Len(l), d>>
  BY RecordShape
<1>2. PICK l \in LinesOf(x, d), i \in Nat :
         /\ auth_pwd_decode(d.pwd) /\ Begins(g, i) /\ Found(g, i, l)
         /\ r = <<i + Len(l), d>>
  BY <1>1
<1>3. /\ Len(l) \in Nat /\ Len(l) >= 3 /\ Len(line) \in Nat /\ Len(line) >= 3
      /\ l \in Seq(Cell) /\ line \in Seq(Cell)
      /\ l[1] = Key(x) /\ l[Len(l)] = EndOfLine
      /\ \A k \in 2 .. Len(l) - 1 : l[k].column \in {"pwd", "new", "text"}
  BY LineShape
<1>4. Len(f) \in Nat /\ Len(g) \in Nat /\ DOMAIN f = 1 .. Len(f) /\ DOMAIN g = 1 .. Len(g)
  BY LenProperties
<1>5. /\ \A k \in 0 .. at : Begins(g, k) <=> Begins(f, k)
      /\ at + Len(line) \in Ends(g)
      /\ \A k \in at + 1 .. at + Len(line) - 1 : k \notin Ends(g)
  BY OverEnds
<1>6. /\ Len(g) >= at + Len(line) /\ Len(g) >= Len(f)
      /\ \A k \in 1 .. at : g[k] = f[k]
      /\ \A k \in 1 .. Len(line) : g[at + k] = line[k]
      /\ \A k \in at + Len(line) + 1 .. Len(g) : k <= Len(f) /\ g[k] = f[k]
  BY DEF Over
<1>7. i + Len(l) <= Len(g) /\ \A k \in 1 .. Len(l) : g[i + k] = l[k]
  BY <1>2 DEF Found
<1>8. \A k \in i + 1 .. i + Len(l) - 1 : k \notin Ends(g)
  <2>1. TAKE k \in i + 1 .. i + Len(l) - 1
  <2>2. k - i \in 1 .. Len(l) /\ i + (k - i) = k /\ (k - i = 1 \/ k - i \in 2 .. Len(l) - 1)
    BY <1>3
  <2>3. g[k] = l[k - i]
    BY <1>7, <2>2
  <2>4. l[k - i].column # "end"
    BY <1>3, <2>2, CellFacts
  <2> QED BY <2>3, <2>4, CellFacts DEF Ends
<1>9. CASE i < at
  <2>1. i + Len(l) <= at
    <3>1. SUFFICES ASSUME i + Len(l) > at PROVE FALSE
      BY <1>3
    <3>2. at \in i + 1 .. i + Len(l) - 1 /\ at \in 0 .. at /\ at # 0
      BY <1>3, <1>9, <3>1
    <3>3. at \in Ends(g)
      BY <1>5, <3>2 DEF Begins
    <3> QED BY <1>8, <3>2, <3>3
  <2>2. Begins(f, i)
    <3>1. i \in 0 .. at
      BY <1>9
    <3> QED BY <1>2, <1>5, <3>1
  <2>3. Found(f, i, l)
    <3>1. ASSUME NEW k \in 1 .. Len(l) PROVE f[i + k] = l[k]
      <4>1. i + k \in 1 .. at
        BY <1>3, <2>1
      <4> QED BY <1>6, <1>7, <4>1
    <3>2. i + Len(l) <= Len(f)
      BY <1>3, <1>4, <2>1
    <3> QED BY <3>1, <3>2 DEF Found
  <2>4. r \in Records(f, x)
    BY <1>2, <2>2, <2>3, RecordFound
  <2> QED BY <1>2, <2>1, <2>4
<1>10. CASE i = at
  <2>1. Len(l) = Len(line)
    <3>1. CASE Len(l) < Len(line)
      <4>1. at + Len(l) \in at + 1 .. at + Len(line) - 1 /\ Len(l) \in 1 .. Len(l) /\ at + Len(l) \in 1 .. Len(g)
        BY <1>3, <1>4, <1>6, <3>1
      <4>2. g[at + Len(l)] = EndOfLine
        BY <1>3, <1>7, <1>10, <4>1
      <4> QED BY <1>4, <1>5, <4>1, <4>2 DEF Ends
    <3>2. CASE Len(l) > Len(line)
      <4>1. at + Len(line) \in i + 1 .. i + Len(l) - 1
        BY <1>3, <1>10, <3>2
      <4> QED BY <1>5, <1>8, <4>1
    <3> QED BY <1>3, <3>1, <3>2
  <2>2. \A k \in 1 .. Len(l) : l[k] = line[k]
    BY <1>6, <1>7, <1>10, <2>1
  <2>3. l = line
    BY <1>3, <2>1, <2>2, SeqEqual
  <2>4. x = e /\ d = c
    BY <2>3, LineMeansOne
  <2> QED BY <1>2, <1>10, <2>1, <2>4
<1>11. CASE i > at
  <2>1. i \in Ends(g)
    BY <1>2, <1>11 DEF Begins
  <2>2. i >= at + Len(line)
    <3>1. SUFFICES ASSUME i < at + Len(line) PROVE FALSE
      BY <1>3
    <3>2. i \in at + 1 .. at + Len(line) - 1
      BY <1>3, <1>11, <3>1
    <3> QED BY <1>5, <2>1, <3>2
  <2>3. ASSUME NEW k \in 1 .. Len(l) PROVE i + k \in 1 .. Len(f) /\ f[i + k] = l[k]
    <3>1. i + k \in at + Len(line) + 1 .. Len(g)
      BY <1>3, <1>4, <1>7, <2>2
    <3>2. i + k <= Len(f) /\ g[i + k] = f[i + k]
      BY <1>6, <3>1
    <3> QED BY <1>3, <1>4, <1>7, <3>1, <3>2
  <2>4. Found(f, i, l)
    <3>1. Len(l) \in 1 .. Len(l)
      BY <1>3
    <3>2. i + Len(l) <= Len(f)
      BY <1>4, <2>3, <3>1
    <3> QED BY <2>3, <3>2 DEF Found
  <2>5. Begins(f, i)
    <3>1. 1 \in 1 .. Len(l)
      BY <1>3
    <3>2. i + 1 \in 1 .. Len(f) /\ f[i + 1].column = "key"
      BY <1>3, <2>3, <3>1, CellFacts
    <3>3. i + 1 # 1 /\ (i + 1) - 1 = i
      BY <1>11
    <3> QED BY <1>4, <3>2, <3>3 DEF KeysFirst, Begins
  <2>6. r \in Records(f, x)
    BY <1>2, <2>4, <2>5, RecordFound
  <2>7. r[1] > at + Len(line)
    BY <1>2, <1>3, <2>2
  <2> QED BY <2>6, <2>7
<1> QED BY <1>9, <1>10, <1>11

-----------------------------------------------------------------------------
(* What a start reads.                                                     *)

LEMMA LoadedComesFrom ==
  ASSUME NEW f \in Seq(Cell), NEW e \in Entry, Records(f, e) # {}
  PROVE  /\ Loaded(Records(f, e)) \in Credential
         /\ \E r \in Records(f, e) : Loaded(Records(f, e)).pwd = r[2].pwd
         /\ \/ Loaded(Records(f, e)).new = None
            \/ \E r \in Records(f, e) : Loaded(Records(f, e)).new = r[2].new
<1> DEFINE R == Records(f, e)
           P == {r \in R : r[2].new # None /\ auth_pwd_decode(r[2].new)}
<1>1. R \in SUBSET ((1 .. Len(f)) \X Credential) /\ R # {} /\ Len(f) \in Nat
  BY RecordType, LenProperties
<1>2. Loaded(R) = [pwd |-> Latest(R)[2].pwd, new |-> IF P = {} THEN None ELSE Latest(P)[2].new]
  BY DEF Loaded
<1> HIDE DEF R
<1>3. Latest(R) \in R
  BY <1>1, LatestExists
<1>4. P # {} => Latest(P) \in P
  <2>1. P \in SUBSET ((1 .. Len(f)) \X Credential)
    BY <1>1
  <2> QED BY <1>1, <2>1, LatestExists
<1>5. \A r \in R : r[2] \in Credential /\ r[2].pwd \in Pwd /\ r[2].new \in Pwd \union {None}
  BY <1>1 DEF Credential
<1> HIDE DEF P
<1>6. Loaded(R).pwd = Latest(R)[2].pwd
  BY <1>2
<1>7. Loaded(R).new = IF P = {} THEN None ELSE Latest(P)[2].new
  BY <1>2
<1>8. P \subseteq R
  BY DEF P
<1>9. Loaded(R).new = None \/ \E r \in R : Loaded(R).new = r[2].new
  BY <1>4, <1>7, <1>8
<1>10. Loaded(R) \in Credential
  <2>1. Latest(R)[2].pwd \in Pwd
    BY <1>3, <1>5
  <2>2. Loaded(R).new \in Pwd \union {None}
    BY <1>5, <1>9
  <2> QED BY <1>2, <1>7, <2>1, <2>2 DEF Credential
<1> QED BY <1>3, <1>6, <1>9, <1>10 DEF R

LEMMA LoadedExact ==
  ASSUME NEW f \in Seq(Cell), NEW e \in Entry, Records(f, e) # {},
         NEW c \in Credential, \A r \in Records(f, e) : r[2] = c,
         c.new = None \/ auth_pwd_decode(c.new)
  PROVE  Loaded(Records(f, e)) = c
<1> DEFINE R == Records(f, e)
           P == {r \in R : r[2].new # None /\ auth_pwd_decode(r[2].new)}
<1>1. R \in SUBSET ((1 .. Len(f)) \X Credential) /\ R # {} /\ Len(f) \in Nat
      /\ \A r \in R : r[2] = c
  BY RecordType, LenProperties
<1>2. Loaded(R) = [pwd |-> Latest(R)[2].pwd, new |-> IF P = {} THEN None ELSE Latest(P)[2].new]
  BY DEF Loaded
<1> HIDE DEF R
<1>3. Latest(R) \in R
  BY <1>1, LatestExists
<1>4. P # {} => Latest(P) \in P
  <2>1. P \in SUBSET ((1 .. Len(f)) \X Credential)
    BY <1>1
  <2> QED BY <1>1, <2>1, LatestExists
<1>5. Latest(R)[2] = c
  BY <1>1, <1>3
<1>6. (IF P = {} THEN None ELSE Latest(P)[2].new) = c.new
  <2>1. CASE c.new = None
    <3>1. P = {}
      BY <1>1, <2>1
    <3> QED BY <2>1, <3>1
  <2>2. CASE c.new # None
    <3>1. P = R
      BY <1>1, <2>2
    <3> QED BY <1>1, <1>5, <3>1
  <2> QED BY <2>1, <2>2
<1>7. c = [pwd |-> c.pwd, new |-> c.new]
  BY DEF Credential
<1> HIDE DEF P
<1>8. Loaded(R) = c
  BY <1>2, <1>5, <1>6, <1>7
<1> QED BY <1>8 DEF R

LEMMA ReadDomain ==
  ASSUME NEW f
  PROVE  /\ DOMAIN auth_unserialize_from_file(f) = {x \in Entry : Records(f, x) # {}}
         /\ \A x \in Entry : Records(f, x) # {} => auth_unserialize_from_file(f)[x] = Loaded(Records(f, x))
BY DEF auth_unserialize_from_file

(* A file whose records all agree with a store is read as this store.      *)
LEMMA ReadExact ==
  ASSUME NEW f \in Seq(Cell), NEW D \in SUBSET Entry, NEW store \in [D -> Credential],
         \A x \in Entry : Records(f, x) # {} <=> x \in D,
         \A x \in D : \A r \in Records(f, x) : r[2] = store[x],
         \A x \in D : store[x].new = None \/ auth_pwd_decode(store[x].new)
  PROVE  auth_unserialize_from_file(f) = store
<1> DEFINE g == [x \in {y \in Entry : Records(f, y) # {}} |-> Loaded(Records(f, x))]
<1>1. {y \in Entry : Records(f, y) # {}} = D
  OBVIOUS
<1>2. \A x \in D : Loaded(Records(f, x)) = store[x]
  <2>1. TAKE x \in D
  <2>2. x \in Entry /\ Records(f, x) # {} /\ store[x] \in Credential
    OBVIOUS
  <2> QED BY <2>2, LoadedExact
<1>3. g = store
  BY <1>1, <1>2
<1> QED BY <1>3 DEF auth_unserialize_from_file

-----------------------------------------------------------------------------
(* The file written by hand.                                               *)

LEMMA OrderFacts ==
  /\ Len(Order) \in Nat /\ \A k \in 1 .. Len(Order) : Order[k] \in Entry
  /\ \A e \in Entry : \E k \in 1 .. Len(Order) : Order[k] = e
<1>1. Order \in Seq(Entry) /\ Range(Order) = Entry
  BY FileAssumption
<1>2. Len(Order) \in Nat /\ DOMAIN Order = 1 .. Len(Order) /\ \A k \in 1 .. Len(Order) : Order[k] \in Entry
  BY <1>1, LenProperties
<1> QED BY <1>1, <1>2 DEF Range

LEMMA OrdersFacts ==
  ASSUME NEW o \in Orders
  PROVE  /\ Len(o) = Len(Order) /\ DOMAIN o = 1 .. Len(Order) /\ \A k \in 1 .. Len(Order) : o[k] \in Entry
         /\ \A e \in Entry : \E k \in 1 .. Len(Order) : o[k] = e
<1>1. Len(Order) \in Nat /\ DOMAIN Order = 1 .. Len(Order)
  BY FileAssumption, LenProperties
<1>2. o \in [1 .. Len(Order) -> Entry] /\ Range(o) = Entry
  BY <1>1 DEF Orders
<1>3. Len(o) = Len(Order)
  BY <1>1, <1>2
<1> QED BY <1>2, <1>3 DEF Range

LEMMA OrderIsAnOrder == Order \in Orders
<1>1. Order \in Seq(Entry) /\ IsInjective(Order) /\ Range(Order) = Entry
  BY FileAssumption
<1>2. Order \in [DOMAIN Order -> Entry]
  BY <1>1, LenProperties
<1> QED BY <1>1, <1>2 DEF Orders

LEMMA Thirds ==
  ASSUME NEW n \in Nat, NEW i \in 1 .. 3 * n
  PROVE  /\ (i + 2) \div 3 \in 1 .. n /\ ((i + 2) % 3) + 1 \in 1 .. 3
         /\ i = 3 * ((i + 2) \div 3 - 1) + (((i + 2) % 3) + 1)
OBVIOUS

LEMMA ThirdsBack ==
  ASSUME NEW k \in Nat \ {0}, NEW j \in 1 .. 3
  PROVE  ((3 * (k - 1) + j) + 2) \div 3 = k /\ (((3 * (k - 1) + j) + 2) % 3) + 1 = j
OBVIOUS

LEMMA HandFile ==
  /\ HandWrittenFile \in Seq(Cell) /\ Len(HandWrittenFile) = 3 * Len(Order)
  /\ \A k \in 1 .. Len(Order) : \A j \in 1 .. 3 :
        3 * (k - 1) + j \in 1 .. 3 * Len(Order) /\ HandWrittenFile[3 * (k - 1) + j] = HandWritten(Order[k])[j]
<1> DEFINE n == Len(Order)
           K(i) == (i + 2) \div 3
           J(i) == ((i + 2) % 3) + 1
           C(i) == HandWritten(Order[K(i)])[J(i)]
           g == [i \in 1 .. 3 * n |-> C(i)]
<1>1. n \in Nat /\ \A k \in 1 .. n : Order[k] \in Entry
  BY OrderFacts
<1>2. \A i \in 1 .. 3 * n : K(i) \in 1 .. n /\ J(i) \in 1 .. 3
  BY <1>1, Thirds
<1>3. \A e \in Entry : \A j \in 1 .. 3 : HandWritten(e)[j] \in Cell
  <2>1. TAKE e \in Entry
  <2>2. HandWritten(e) \in Seq(Cell) /\ Len(HandWritten(e)) = 3
    BY HandShape
  <2> QED BY <2>2, LenProperties
<1>4. \A k \in 1 .. n : \A j \in 1 .. 3 :
         3 * (k - 1) + j \in 1 .. 3 * n /\ K(3 * (k - 1) + j) = k /\ J(3 * (k - 1) + j) = j
  <2>1. TAKE k \in 1 .. n
  <2>2. TAKE j \in 1 .. 3
  <2>3. k \in Nat \ {0} /\ 3 * (k - 1) + j \in 1 .. 3 * n
    BY <1>1
  <2> QED BY <2>3, ThirdsBack
<1>h. HandWrittenFile = g
  BY DEF HandWrittenFile
<1> HIDE DEF K, J
<1>5. \A i \in 1 .. 3 * n : C(i) \in Cell
  BY <1>1, <1>2, <1>3
<1>6. \A k \in 1 .. n : \A j \in 1 .. 3 : C(3 * (k - 1) + j) = HandWritten(Order[k])[j]
  BY <1>4
<1> HIDE DEF C, n
<1>7. g \in Seq(Cell) /\ Len(g) = 3 * n /\ \A i \in 1 .. 3 * n : g[i] = C(i)
  <2>1. 3 * n \in Nat
    BY <1>1
  <2> DEFINE m == 3 * n
  <2> HIDE DEF m
  <2>2. [i \in 1 .. m |-> C(i)] \in Seq(Cell) /\ Len([i \in 1 .. m |-> C(i)]) = m
    BY <1>5, <2>1 DEF m
  <2> QED BY <2>1, <2>2 DEF m
<1> HIDE DEF g
<1> QED BY <1>4, <1>6, <1>7, <1>h DEF n

LEMMA HandCells ==
  ASSUME NEW i \in 1 .. 3 * Len(Order)
  PROVE  \E k \in 1 .. Len(Order) : \E j \in 1 .. 3 :
            i = 3 * (k - 1) + j /\ HandWrittenFile[i] = HandWritten(Order[k])[j]
<1> DEFINE k == (i + 2) \div 3
           j == ((i + 2) % 3) + 1
<1>1. Len(Order) \in Nat
  BY OrderFacts
<1>2. k \in 1 .. Len(Order) /\ j \in 1 .. 3 /\ i = 3 * (k - 1) + j
  BY <1>1, Thirds
<1> HIDE DEF k, j
<1> QED BY <1>2, HandFile

(* Its lines end at the multiples of three, and its keys follow an end.    *)
LEMMA HandEnds ==
  /\ \A i \in Ends(HandWrittenFile) : \E k \in 1 .. Len(Order) : i = 3 * k
  /\ \A k \in 1 .. Len(Order) : 3 * k \in Ends(HandWrittenFile)
  /\ KeysFirst(HandWrittenFile)
<1> DEFINE f == HandWrittenFile
<1>1. f \in Seq(Cell) /\ Len(f) = 3 * Len(Order) /\ DOMAIN f = 1 .. 3 * Len(Order)
      /\ Len(Order) \in Nat /\ \A k \in 1 .. Len(Order) : Order[k] \in Entry
  BY HandFile, OrderFacts, LenProperties
<1>2. ASSUME NEW i \in DOMAIN f
      PROVE  \E k \in 1 .. Len(Order) :
                \/ i = 3 * (k - 1) + 1 /\ f[i].column = "key"
                \/ i = 3 * (k - 1) + 2 /\ f[i].column = "text"
                \/ i = 3 * k /\ f[i] = EndOfLine /\ f[i].column = "end"
  <2>1. PICK k \in 1 .. Len(Order), j \in 1 .. 3 :
           i = 3 * (k - 1) + j /\ f[i] = HandWritten(Order[k])[j]
    BY <1>1, HandCells
  <2>2. /\ HandWritten(Order[k])[1] = Key(Order[k]) /\ HandWritten(Order[k])[2].column = "text"
        /\ HandWritten(Order[k])[3] = EndOfLine /\ Order[k] \in Entry
    BY <1>1, HandShape
  <2>3. CASE j = 1
    BY <2>1, <2>2, <2>3, CellFacts
  <2>4. CASE j = 2
    BY <2>1, <2>2, <2>4
  <2>5. CASE j = 3
    <3>1. i = 3 * k
      BY <2>1, <2>5
    <3> QED BY <2>1, <2>2, <2>5, <3>1, CellFacts
  <2> QED BY <2>3, <2>4, <2>5
<1>3. ASSUME NEW i \in Ends(f) PROVE \E k \in 1 .. Len(Order) : i = 3 * k
  <2>1. i \in DOMAIN f /\ f[i].column = "end"
    BY CellFacts DEF Ends
  <2> QED BY <1>2, <2>1
<1>4. ASSUME NEW k \in 1 .. Len(Order) PROVE 3 * k \in Ends(f)
  <2>1. 3 * (k - 1) + 3 = 3 * k /\ 3 \in 1 .. 3
    OBVIOUS
  <2>2. 3 * (k - 1) + 3 \in 1 .. 3 * Len(Order) /\ f[3 * (k - 1) + 3] = HandWritten(Order[k])[3]
    BY <2>1, HandFile
  <2>3. HandWritten(Order[k])[3] = EndOfLine
    BY <1>1, HandShape
  <2> QED BY <1>1, <2>1, <2>2, <2>3 DEF Ends
<1>5. ASSUME NEW i \in DOMAIN f, f[i].column = "key", i # 1 PROVE i - 1 \in Ends(f)
  <2>1. PICK k \in 1 .. Len(Order) : i = 3 * (k - 1) + 1
    BY <1>2, <1>5
  <2>2. k - 1 \in 1 .. Len(Order) /\ i - 1 = 3 * (k - 1)
    BY <1>1, <1>5, <2>1
  <2> QED BY <1>4, <2>2
<1> QED BY <1>3, <1>4, <1>5 DEF KeysFirst

LEMMA HandRecords ==
  ASSUME NEW e \in Entry
  PROVE  /\ Records(HandWrittenFile, e) # {}
         /\ \A r \in Records(HandWrittenFile, e) : r[2] = [pwd |-> First[e], new |-> None]
<1> DEFINE f == HandWrittenFile
           c == [pwd |-> First[e], new |-> None]
<1>1. /\ f \in Seq(Cell) /\ Len(f) = 3 * Len(Order) /\ Len(Order) \in Nat
      /\ \A k \in 1 .. Len(Order) : Order[k] \in Entry
  BY HandFile, OrderFacts
<1>2. c \in Credential /\ auth_pwd_decode(c.pwd) /\ HandWritten(e) \in LinesOf(e, c)
  BY FileAssumption DEF Credential, auth_pwd_decode, LinesOf
<1>3. HandWritten(e) \in Seq(Cell) /\ Len(HandWritten(e)) = 3
  BY HandShape
<1>4. PICK k \in 1 .. Len(Order) : Order[k] = e
  BY OrderFacts
<1> DEFINE a == 3 * (k - 1)
<1>5. a \in Nat /\ Begins(f, a)
  <2>1. CASE k = 1
    BY <2>1 DEF Begins
  <2>2. CASE k # 1
    <3>1. k - 1 \in 1 .. Len(Order)
      BY <1>1, <2>2
    <3>2. 3 * (k - 1) \in Ends(HandWrittenFile)
      BY <3>1, HandEnds
    <3> QED BY <3>1, <3>2 DEF Begins
  <2> QED BY <2>1, <2>2
<1>6. Found(f, a, HandWritten(e))
  <2>1. \A j \in 1 .. 3 : a + j \in 1 .. 3 * Len(Order) /\ f[a + j] = HandWritten(e)[j]
    BY <1>4, HandFile
  <2>2. a + 3 <= 3 * Len(Order)
    BY <1>1
  <2> QED BY <1>1, <1>3, <2>1, <2>2 DEF Found
<1> HIDE DEF f, c, a
<1>7. <<a + Len(HandWritten(e)), c>> \in Records(f, e)
  BY <1>1, <1>2, <1>5, <1>6, RecordFound
<1>8. ASSUME NEW r \in Records(f, e) PROVE r[2] = c
  <2>1. PICK d \in Credential : \E line \in LinesOf(e, d) : \E i \in Nat :
           Begins(f, i) /\ Found(f, i, line) /\ r = <<i + Len(line), d>>
    BY <1>1, RecordShape
  <2>2. PICK line \in LinesOf(e, d), i \in Nat :
           Begins(f, i) /\ Found(f, i, line) /\ r = <<i + Len(line), d>>
    BY <2>1
  <2>3. Len(line) \in Nat /\ Len(line) >= 3
    BY LineShape
  <2>4. i + Len(line) <= 3 * Len(Order) /\ \A j \in 1 .. Len(line) : f[i + j] = line[j]
    BY <1>1, <2>2 DEF Found
  <2>5. PICK h \in 1 .. Len(Order) : i = 3 * (h - 1)
    <3>1. CASE i = 0
      <4>1. 1 \in 1 .. Len(Order)
        BY <1>1, <2>3, <2>4, <3>1
      <4> QED BY <3>1, <4>1
    <3>2. CASE i # 0
      <4>1. i \in Ends(HandWrittenFile)
        BY <2>2, <3>2 DEF Begins, f
      <4>2. PICK h \in 1 .. Len(Order) : i = 3 * h
        BY <4>1, HandEnds
      <4>3. h + 1 \in 1 .. Len(Order) /\ i = 3 * ((h + 1) - 1)
        BY <1>1, <2>3, <2>4, <4>2
      <4> QED BY <4>3
    <3> QED BY <3>1, <3>2
  <2>6. line[2].column = "text"
    <3>1. 2 \in 1 .. 3 /\ 2 \in 1 .. Len(line)
      BY <2>3
    <3>2. f[i + 2] = HandWritten(Order[h])[2]
      BY <2>5, <3>1, HandFile DEF f
    <3>3. HandWritten(Order[h])[2].column = "text"
      BY <1>1, HandShape
    <3> QED BY <2>4, <3>1, <3>2, <3>3
  <2>7. line # auth_write(e, d)
    <3>1. /\ Size[d.pwd] \in Nat \ {0}
          /\ \A j \in 2 .. Size[d.pwd] + 1 : auth_write(e, d)[j].column = "pwd"
      BY WriteShape
    <3>2. 2 \in 2 .. Size[d.pwd] + 1
      BY <3>1
    <3>3. auth_write(e, d)[2].column = "pwd"
      BY <3>1, <3>2
    <3> QED BY <2>6, <3>3
  <2>8. d = c
    BY <2>7 DEF LinesOf, c
  <2> QED BY <2>2, <2>8
<1> QED BY <1>7, <1>8 DEF f, c

(* The initial state.                                                      *)
LEMMA FileStart == FileInit => FileInv
<1> SUFFICES ASSUME FileInit PROVE FileInv
  OBVIOUS
<1>i. /\ mem = [e \in Entry |-> [pwd |-> First[e], new |-> None]]
      /\ order = Order /\ file = HandWrittenFile
      /\ up = TRUE /\ save = Ready /\ had = [e \in Entry |-> {First[e]}]
      /\ shorter = FALSE /\ changes = 0 /\ crashes = 0
  BY DEF FileInit
<1>1. DOMAIN mem = Entry /\ mem \in [Entry -> Credential]
      /\ \A e \in Entry : mem[e] = [pwd |-> First[e], new |-> None] /\ mem[e].pwd = First[e] /\ mem[e].new = None
  BY <1>i, FileAssumption DEF Credential
<1>2. had \in [Entry -> SUBSET Pwd] /\ \A e \in Entry : had[e] = {First[e]}
  BY <1>i, FileAssumption
<1>3. save.todo = 0 /\ save.next = 1 /\ save.at = 0
  BY <1>i DEF Ready
<1>4. FileTypeOK
  <2>1. file \in Seq(Cell)
    BY <1>i, HandFile
  <2>2. Len(file) \in Nat
    BY <2>1, LenProperties
  <2>3. save \in [todo : 0 .. 2, next : 1 .. Len(Order) + 1, at : Nat] /\ save.at <= Len(file)
    BY <1>i, <1>3, <2>2, OrderFacts DEF Ready
  <2>4. changes \in 0 .. MaxChanges /\ crashes \in 0 .. MaxCrashes
    BY <1>i, FileAssumption
  <2>5. DOMAIN mem \subseteq Entry /\ mem \in [DOMAIN mem -> Credential]
    BY <1>1
  <2>6. up \in BOOLEAN /\ shorter \in BOOLEAN /\ order \in Orders
    BY <1>i, OrderIsAnOrder
  <2> QED BY <1>2, <2>1, <2>3, <2>4, <2>5, <2>6 DEF FileTypeOK
<1>5. OnlyOwnPasswords
  BY <1>1, <1>2 DEF OnlyOwnPasswords
<1>6. auth_unserialize_from_file(file) = mem
  <2>1. file \in Seq(Cell)
    BY <1>i, HandFile
  <2>2. \A x \in Entry : Records(file, x) # {} /\ \A r \in Records(file, x) : r[2] = mem[x]
    BY <1>i, <1>1, HandRecords
  <2> QED BY <1>1, <2>1, <2>2, ReadExact
<1>7. SameLength
  <2>1. \A e \in To : e \in Entry
    BY DEF Entry
  <2>2. \A e \in From : e \in Entry
    BY DEF Entry
  <2> QED BY <1>1, <1>2, <2>1, <2>2 DEF SameLength
<1>8. KeysFirst(file)
  BY <1>i, HandEnds
<1>9. OwnLines
  <2>1. SUFFICES ASSUME NEW e \in Entry, NEW r \in Records(file, e)
                 PROVE  r[2].pwd \in had[e] /\ r[2].new = None
    BY DEF OwnLines
  <2>2. r[2] = [pwd |-> First[e], new |-> None]
    BY <1>i, HandRecords
  <2> QED BY <1>2, <2>2
<1>10. NoStranger
  BY <1>1 DEF NoStranger
<1> QED BY <1>3, <1>4, <1>5, <1>6, <1>7, <1>8, <1>9, <1>10
        DEF FileInv, FileIsFaithful, ExactUnlessShorter, EntriesKept

-----------------------------------------------------------------------------
(* The steps.                                                              *)

LEMMA TypeFacts ==
  ASSUME FileTypeOK
  PROVE  /\ DOMAIN mem \subseteq Entry /\ mem \in [DOMAIN mem -> Credential]
         /\ \A e \in DOMAIN mem :
               /\ e \in Entry /\ mem[e] \in Credential
               /\ mem[e].pwd \in Pwd /\ mem[e].new \in Pwd \union {None}
         /\ file \in Seq(Cell) /\ Len(file) \in Nat /\ up \in BOOLEAN /\ shorter \in BOOLEAN
         /\ save.todo \in 0 .. 2 /\ save.next \in 1 .. Len(Order) + 1
         /\ save.at \in Nat /\ save.at <= Len(file) /\ Len(Order) \in Nat
         /\ had \in [Entry -> SUBSET Pwd]
         /\ order \in Orders /\ Len(order) = Len(Order)
         /\ \A e \in Entry : \E k \in 1 .. Len(order) : order[k] = e
<1>1. DOMAIN mem \subseteq Entry /\ mem \in [DOMAIN mem -> Credential]
  BY DEF FileTypeOK
<1>2. file \in Seq(Cell) /\ up \in BOOLEAN /\ shorter \in BOOLEAN /\ had \in [Entry -> SUBSET Pwd]
  BY DEF FileTypeOK
<1>3. save \in [todo : 0 .. 2, next : 1 .. Len(Order) + 1, at : Nat] /\ save.at <= Len(file)
  BY DEF FileTypeOK
<1>4. Len(file) \in Nat
  BY <1>2, LenProperties
<1>5. \A e \in DOMAIN mem : e \in Entry /\ mem[e] \in Credential
  BY <1>1
<1>6. \A e \in DOMAIN mem : mem[e].pwd \in Pwd /\ mem[e].new \in Pwd \union {None}
  BY <1>5 DEF Credential
<1>7. order \in Orders
  BY DEF FileTypeOK
<1>8. Len(order) = Len(Order) /\ \A e \in Entry : \E k \in 1 .. Len(order) : order[k] = e
  BY <1>7, OrdersFacts
<1> QED BY <1>1, <1>2, <1>3, <1>4, <1>5, <1>6, <1>7, <1>8, OrderFacts

(* A password changes: the file is still the one of before, and nothing is *)
(* claimed of it until the saves that follow are complete.                 *)
LEMMA FileChange ==
  ASSUME FileInv, NEW e \in DOMAIN mem, NEW c \in Credential, NEW n \in 1 .. 2, Change(e, c, n),
         e \in To => Size[c.pwd] = Size[First[e]] /\ (c.new # None => Size[c.new] = Size[First[e]]),
         e \in From => c.new = None
  PROVE  FileInv'
<1>t. FileTypeOK /\ OnlyOwnPasswords /\ SameLength /\ KeysFirst(file) /\ OwnLines /\ NoStranger
  BY DEF FileInv, FileIsFaithful
<1>1. /\ DOMAIN mem \subseteq Entry /\ mem \in [DOMAIN mem -> Credential] /\ e \in Entry
      /\ file \in Seq(Cell) /\ Len(file) \in Nat /\ had \in [Entry -> SUBSET Pwd]
  BY <1>t, TypeFacts
<1>2. /\ up /\ changes < MaxChanges /\ mem' = [mem EXCEPT ![e] = c]
      /\ had' = [had EXCEPT ![e] = @ \union ({c.pwd, c.new} \ {None})]
      /\ save' = [Ready EXCEPT !.todo = n] /\ changes' = changes + 1
      /\ UNCHANGED <<order, file, up, shorter, crashes>>
  BY DEF Change
<1>3. save'.todo = n /\ save'.next = 1 /\ save'.at = 0
      /\ save' \in [todo : 0 .. 2, next : 1 .. Len(Order) + 1, at : Nat]
  BY <1>2, OrderFacts DEF Ready
<1>4. /\ DOMAIN mem' = DOMAIN mem /\ mem' \in [DOMAIN mem -> Credential]
      /\ mem'[e] = c /\ \A x \in DOMAIN mem : x # e => mem'[x] = mem[x]
  BY <1>1, <1>2
<1>c. c.pwd \in Pwd /\ c.new \in Pwd \union {None} /\ None \notin Pwd
  BY FileAssumption DEF Credential
<1>5. /\ had' \in [Entry -> SUBSET Pwd]
      /\ had'[e] = had[e] \union ({c.pwd, c.new} \ {None})
      /\ \A x \in Entry : x # e => had'[x] = had[x]
  <2>1. had[e] \union ({c.pwd, c.new} \ {None}) \in SUBSET Pwd
    BY <1>1, <1>c
  <2> QED BY <1>1, <1>2, <2>1
<1>6. \A x \in Entry : had[x] \subseteq had'[x]
  BY <1>5
<1>7. FileTypeOK'
  <2>1. changes' \in 0 .. MaxChanges /\ crashes' \in 0 .. MaxCrashes
    BY <1>t, <1>2, FileAssumption DEF FileTypeOK
  <2>2. (up \in BOOLEAN /\ shorter \in BOOLEAN /\ order \in Orders)'
    BY <1>t, <1>2 DEF FileTypeOK
  <2> QED BY <1>1, <1>2, <1>3, <1>4, <1>5, <2>1, <2>2 DEF FileTypeOK
<1>8. OnlyOwnPasswords'
  <2>1. SUFFICES ASSUME NEW x \in DOMAIN mem
                 PROVE  mem'[x].pwd \in had'[x] /\ mem'[x].new \in had'[x] \union {None}
    BY <1>4 DEF OnlyOwnPasswords
  <2>2. CASE x = e
    BY <1>4, <1>5, <1>c, <2>2
  <2>3. CASE x # e
    BY <1>t, <1>1, <1>4, <1>5, <2>3 DEF OnlyOwnPasswords
  <2> QED BY <2>2, <2>3
<1>9. SameLength'
  <2>1. ASSUME NEW x \in To, NEW p \in had'[x] PROVE Size[p] = Size[First[x]]
    <3>1. x \in Entry
      BY DEF Entry
    <3>2. p \in had[x] => Size[p] = Size[First[x]]
      BY <1>t DEF SameLength
    <3>3. CASE x = e
      BY <1>5, <3>2, <3>3
    <3>4. CASE x # e
      BY <1>5, <3>1, <3>2, <3>4
    <3> QED BY <3>3, <3>4
  <2>2. ASSUME NEW x \in From \intersect DOMAIN mem PROVE mem'[x].new = None
    BY <1>t, <1>4 DEF SameLength
  <2> QED BY <1>4, <2>1, <2>2 DEF SameLength
<1>10. OwnLines'
  <2>1. SUFFICES ASSUME NEW x \in Entry, NEW r \in Records(file, x)
                 PROVE  /\ r[2].pwd \in had'[x] /\ r[2].new \in had'[x] \union {None}
                        /\ x \in From => r[2].new = None
    BY <1>2 DEF OwnLines
  <2>2. /\ r[2].pwd \in had[x] /\ r[2].new \in had[x] \union {None}
        /\ x \in From => r[2].new = None
    BY <1>t DEF OwnLines
  <2> QED BY <1>6, <2>2
<1>11. NoStranger' /\ KeysFirst(file)'
  BY <1>t, <1>2, <1>4 DEF NoStranger, KeysFirst, Ends
<1>12. Written'
  <2>1. \A x \in Entry : \A r \in Records(file, x) : ~(r[1] <= 0)
    BY <1>1, RecordType
  <2> QED BY <1>2, <1>3, <2>1 DEF Written
<1> QED BY <1>3, <1>7, <1>8, <1>9, <1>10, <1>11, <1>12
        DEF FileInv, FileIsFaithful, ExactUnlessShorter, EntriesKept

(* The operations of the base "to", whose new passwords have the length of *)
(* the old, and of the base "from", whose entries have no new password.    *)
LEMMA FileGetNew ==
  ASSUME FileInv, NEW e \in To, e \in DOMAIN mem, auth_get_new_pwd_b64(e)
  PROVE  FileInv'
<1>t. FileTypeOK /\ OnlyOwnPasswords /\ SameLength
  BY DEF FileInv, FileIsFaithful
<1>1. /\ mem[e] \in Credential /\ mem[e].pwd \in Pwd /\ mem[e].new \in Pwd \union {None}
      /\ e \notin From /\ None \notin Pwd
  BY <1>t, TypeFacts, FileAssumption
<1>2. Size[mem[e].pwd] = Size[First[e]] /\ (mem[e].new # None => Size[mem[e].new] = Size[First[e]])
  BY <1>t DEF OnlyOwnPasswords, SameLength
<1>3. CASE mem[e].new # None /\ Change(e, mem[e], 1)
  BY <1>1, <1>2, <1>3, FileChange
<1>4. ASSUME NEW p \in Pwd, Size[p] = Size[mem[e].pwd], Change(e, [mem[e] EXCEPT !.new = p], 1)
      PROVE  FileInv'
  <2> DEFINE c == [mem[e] EXCEPT !.new = p]
  <2>1. c \in Credential /\ c.pwd = mem[e].pwd /\ c.new = p
    BY <1>1 DEF Credential
  <2>2. Size[c.pwd] = Size[First[e]] /\ Size[c.new] = Size[First[e]]
    BY <1>2, <1>4, <2>1
  <2>3. Change(e, c, 1)
    BY <1>4
  <2> HIDE DEF c
  <2> QED BY <1>1, <2>1, <2>2, <2>3, FileChange
<1> QED BY <1>3, <1>4 DEF auth_get_new_pwd_b64

LEMMA FileSwitch ==
  ASSUME FileInv, NEW e \in To, e \in DOMAIN mem, auth_switch_to_new_pwd(e)
  PROVE  FileInv'
<1>t. FileTypeOK /\ OnlyOwnPasswords /\ SameLength
  BY DEF FileInv, FileIsFaithful
<1>1. /\ mem[e] \in Credential /\ mem[e].pwd \in Pwd /\ mem[e].new \in Pwd \union {None}
      /\ e \notin From /\ None \notin Pwd
  BY <1>t, TypeFacts, FileAssumption
<1> DEFINE c == [pwd |-> mem[e].new, new |-> None]
<1>2. mem[e].new # None /\ Change(e, c, 1)
  BY DEF auth_switch_to_new_pwd
<1>3. Size[mem[e].new] = Size[First[e]]
  BY <1>t, <1>2 DEF OnlyOwnPasswords, SameLength
<1>4. c \in Credential /\ c.pwd = mem[e].new /\ c.new = None
  BY <1>1, <1>2 DEF Credential
<1> HIDE DEF c
<1> QED BY <1>1, <1>2, <1>3, <1>4, FileChange

LEMMA FileSet ==
  ASSUME FileInv, NEW e \in From, e \in DOMAIN mem, auth_set_pwd_b64(e)
  PROVE  FileInv'
<1>t. FileTypeOK /\ OnlyOwnPasswords /\ SameLength
  BY DEF FileInv, FileIsFaithful
<1>1. mem[e] \in Credential /\ e \notin To
  BY <1>t, TypeFacts, FileAssumption
<1>2. PICK p \in Pwd : Change(e, [mem[e] EXCEPT !.pwd = p], 2)
  BY DEF auth_set_pwd_b64
<1> DEFINE c == [mem[e] EXCEPT !.pwd = p]
<1>3. c \in Credential /\ c.new = mem[e].new
  BY <1>1 DEF Credential
<1>4. mem[e].new = None
  BY <1>t DEF SameLength
<1>5. Change(e, c, 2)
  BY <1>2
<1> HIDE DEF c
<1> QED BY <1>1, <1>3, <1>4, <1>5, FileChange

(* The line of the next entry: the file up to its end is the store, as far *)
(* as it is written, and what follows it are lines that were there.        *)
LEMMA FileWrite ==
  ASSUME FileInv, WriteLine
  PROVE  FileInv'
<1>t. /\ FileTypeOK /\ OnlyOwnPasswords /\ SameLength /\ KeysFirst(file) /\ OwnLines /\ NoStranger
      /\ save.todo > 0 /\ Written
  BY DEF FileInv, FileIsFaithful, WriteLine
<1>1. /\ DOMAIN mem \subseteq Entry /\ mem \in [DOMAIN mem -> Credential]
      /\ \A x \in DOMAIN mem : mem[x] \in Credential
      /\ file \in Seq(Cell) /\ Len(file) \in Nat
      /\ save.todo \in 0 .. 2 /\ save.next \in 1 .. Len(Order) + 1
      /\ save.at \in Nat /\ save.at <= Len(file) /\ Len(Order) \in Nat /\ Len(order) = Len(Order)
      /\ save \in [todo : 0 .. 2, next : 1 .. Len(Order) + 1, at : Nat]
  BY <1>t, TypeFacts DEF FileTypeOK
<1> DEFINE k0 == Min(Unwritten)
           e == order[k0]
           c == mem[e]
           line == auth_write(e, c)
           at == save.at
           g == Overwritten(file, at, line)
<1>2. /\ k0 \in save.next .. Len(order) /\ e \in DOMAIN mem
      /\ \A k \in save.next .. k0 - 1 : order[k] \notin DOMAIN mem
  <2>1. Unwritten \in SUBSET Nat /\ Unwritten # {}
    BY <1>1 DEF Unwritten, WriteLine
  <2>2. k0 \in Unwritten /\ \A y \in Unwritten : k0 <= y
    BY <2>1, Least_Min
  <2> HIDE DEF k0
  <2>3. k0 \in save.next .. Len(order) /\ order[k0] \in DOMAIN mem
    BY <2>2 DEF Unwritten
  <2>4. ASSUME NEW k \in save.next .. k0 - 1, order[k] \in DOMAIN mem PROVE FALSE
    <3>1. k \in Unwritten
      BY <1>1, <2>3, <2>4 DEF Unwritten
    <3> QED BY <1>1, <2>2, <2>3, <3>1
  <2> QED BY <2>3, <2>4
<1>3. /\ file' = g
      /\ save' = [save EXCEPT !.next = k0 + 1, !.at = @ + Len(line)]
      /\ UNCHANGED <<mem, order, up, had, shorter, changes, crashes>>
  BY DEF WriteLine
<1> HIDE DEF k0
<1>4. e \in Entry /\ c \in Credential /\ line \in LinesOf(e, c)
  BY <1>1, <1>2 DEF LinesOf
<1> HIDE DEF e, c
<1>5. line \in Seq(Cell) /\ Len(line) \in Nat /\ Len(line) >= 3
  BY <1>4, LineShape
<1> HIDE DEF line
<1>6. g \in Seq(Cell) /\ Over(file, at, line, g) /\ at \in Nat /\ at <= Len(file) /\ Begins(file, at)
  <2>1. at \in Nat /\ at <= Len(file)
    BY <1>1
  <2>2. Begins(file, at)
    BY <1>t DEF Written, Begins
  <2> HIDE DEF at
  <2>3. Overwritten(file, at, line) \in Seq(Cell) /\ Over(file, at, line, Overwritten(file, at, line))
    BY <1>1, <1>5, <2>1, OverwrittenIs
  <2> QED BY <2>1, <2>2, <2>3
<1>7. save'.todo = save.todo /\ save'.next = k0 + 1 /\ save'.at = at + Len(line)
      /\ save' \in [todo : 0 .. 2, next : 1 .. Len(Order) + 1, at : Nat]
  <2>1. k0 + 1 \in 1 .. Len(Order) + 1
    BY <1>1, <1>2
  <2>2. save.at + Len(line) \in Nat
    BY <1>1, <1>5
  <2> QED BY <1>1, <1>3, <2>1, <2>2
<1>8. save'.at <= Len(g)
  BY <1>6, <1>7 DEF Over
<1> HIDE DEF g, at
<1>9. ASSUME NEW x \in Entry, NEW r \in Records(g, x)
      PROVE  \/ x = e /\ r = <<at + Len(line), c>>
             \/ r \in Records(file, x) /\ (r[1] <= at \/ r[1] > at + Len(line))
  BY <1>t, <1>1, <1>4, <1>6, OverSource
<1>10. FileTypeOK'
  <2>1. (file \in Seq(Cell))' /\ (up \in BOOLEAN /\ shorter \in BOOLEAN /\ order \in Orders)'
    BY <1>t, <1>3, <1>6 DEF FileTypeOK
  <2>2. (had \in [Entry -> SUBSET Pwd] /\ changes \in 0 .. MaxChanges /\ crashes \in 0 .. MaxCrashes)'
    BY <1>t, <1>3 DEF FileTypeOK
  <2>3. (DOMAIN mem \subseteq Entry /\ mem \in [DOMAIN mem -> Credential])'
    BY <1>1, <1>3
  <2> QED BY <1>3, <1>7, <1>8, <2>1, <2>2, <2>3 DEF FileTypeOK
<1>11. OnlyOwnPasswords' /\ SameLength'
  BY <1>t, <1>3 DEF OnlyOwnPasswords, SameLength
<1>12. KeysFirst(file)'
  <2>1. KeysFirst(g)
    BY <1>t, <1>1, <1>4, <1>6, OverKeys
  <2> QED BY <1>3, <2>1
<1>13. OwnLines'
  <2>1. SUFFICES ASSUME NEW x \in Entry, NEW r \in Records(g, x)
                 PROVE  /\ r[2].pwd \in had[x] /\ r[2].new \in had[x] \union {None}
                        /\ x \in From => r[2].new = None
    BY <1>3 DEF OwnLines
  <2>2. CASE x = e /\ r = <<at + Len(line), c>>
    <3>1. c.pwd \in had[e] /\ c.new \in had[e] \union {None} /\ (e \in From => c.new = None)
      BY <1>t, <1>2 DEF OnlyOwnPasswords, SameLength, c
    <3> QED BY <2>2, <3>1
  <2>3. CASE r \in Records(file, x)
    BY <1>t, <2>3 DEF OwnLines
  <2> QED BY <1>9, <2>2, <2>3
<1>14. NoStranger'
  <2>1. ASSUME NEW x \in Entry, NEW r \in Records(g, x) PROVE x \in DOMAIN mem
    <3>1. CASE x = e
      BY <1>2, <3>1
    <3>2. CASE r \in Records(file, x)
      BY <1>t, <3>2 DEF NoStranger
    <3> QED BY <1>9, <3>1, <3>2
  <2> QED BY <1>3, <2>1 DEF NoStranger
<1>15. Written'
  <2>1. save'.at \in Ends(g)
    BY <1>1, <1>4, <1>6, <1>7, OverEnds
  <2>2. ASSUME NEW x \in Entry, NEW r \in Records(g, x), r[1] <= at + Len(line) PROVE r[2] = mem[x]
    <3>1. CASE x = e /\ r = <<at + Len(line), c>>
      BY <3>1 DEF c
    <3>2. CASE r \in Records(file, x) /\ (r[1] <= at \/ r[1] > at + Len(line))
      <4>1. r[1] \in Nat
        BY <1>1, <3>2, RecordType
      <4>2. r[1] <= at
        BY <1>5, <1>6, <2>2, <3>2, <4>1
      <4> QED BY <1>t, <3>2, <4>2 DEF Written, at
    <3> QED BY <1>9, <3>1, <3>2
  <2>3. ASSUME NEW k \in 1 .. k0, order[k] \in DOMAIN mem, auth_pwd_decode(mem[order[k]].pwd)
        PROVE  \E r \in Records(g, order[k]) : r[1] <= at + Len(line)
    <3>1. CASE k = k0
      <4>1. auth_pwd_decode(c.pwd)
        BY <2>3, <3>1 DEF e, c
      <4>2. <<at + Len(line), c>> \in Records(g, e)
        BY <1>1, <1>4, <1>6, <4>1, OverNew
      <4> QED BY <1>5, <1>6, <3>1, <4>2 DEF e
    <3>2. CASE k \in 1 .. save.next - 1
      <4>1. PICK r \in Records(file, order[k]) : r[1] <= at
        BY <1>t, <2>3, <3>2 DEF Written, at
      <4>2. order[k] \in Entry
        BY <1>1, <2>3
      <4>3. r \in Records(g, order[k])
        BY <1>1, <1>4, <1>6, <4>1, <4>2, OverKept
      <4>4. r[1] \in Nat
        BY <1>1, <4>1, <4>2, RecordType
      <4> QED BY <1>5, <1>6, <4>1, <4>3, <4>4
    <3>3. CASE k \in save.next .. k0 - 1
      BY <1>2, <2>3, <3>3
    <3> QED BY <1>1, <1>2, <3>1, <3>2, <3>3
  <2>4. save'.next - 1 = k0
    BY <1>1, <1>2, <1>7
  <2> QED BY <1>3, <1>7, <2>1, <2>2, <2>3, <2>4 DEF Written
<1> QED BY <1>t, <1>7, <1>10, <1>11, <1>12, <1>13, <1>14, <1>15
        DEF FileInv, FileIsFaithful, ExactUnlessShorter, EntriesKept

(* A save is complete: every entry has its line, and if the save was as    *)
(* long as the file every line is of this save.                            *)
LEMMA FileClose ==
  ASSUME FileInv, CloseFile
  PROVE  FileInv'
<1>t. /\ FileTypeOK /\ OnlyOwnPasswords /\ SameLength /\ KeysFirst(file) /\ OwnLines /\ NoStranger
      /\ save.todo > 0 /\ Written
  BY DEF FileInv, FileIsFaithful, CloseFile
<1>1. /\ DOMAIN mem \subseteq Entry /\ mem \in [DOMAIN mem -> Credential]
      /\ \A x \in DOMAIN mem : mem[x] \in Credential /\ mem[x].new \in Pwd \union {None}
      /\ file \in Seq(Cell) /\ Len(file) \in Nat
      /\ save.todo \in 0 .. 2 /\ save.next \in 1 .. Len(Order) + 1 /\ save.at \in Nat /\ Len(Order) \in Nat
      /\ shorter \in BOOLEAN /\ Len(order) = Len(Order)
      /\ \A x \in Entry : \E k \in 1 .. Len(order) : order[k] = x
  BY <1>t, TypeFacts
<1>2. /\ Unwritten = {} /\ shorter' = (shorter \/ save.at < Len(file))
      /\ save' = [Ready EXCEPT !.todo = save.todo - 1]
      /\ UNCHANGED <<mem, order, file, up, had, changes, crashes>>
  BY DEF CloseFile
<1>3. save'.todo = save.todo - 1 /\ save'.next = 1 /\ save'.at = 0
      /\ save' \in [todo : 0 .. 2, next : 1 .. Len(Order) + 1, at : Nat]
  BY <1>t, <1>1, <1>2 DEF Ready
<1>4. FileTypeOK'
  <2>1. shorter' \in BOOLEAN
    BY <1>2
  <2> QED BY <1>t, <1>1, <1>2, <1>3, <2>1 DEF FileTypeOK
<1>5. OnlyOwnPasswords' /\ SameLength' /\ NoStranger' /\ OwnLines'
  BY <1>t, <1>2 DEF OnlyOwnPasswords, SameLength, NoStranger, OwnLines
<1>6. KeysFirst(file)'
  BY <1>t, <1>2 DEF KeysFirst, Ends
<1>7. Written'
  <2>1. \A x \in Entry : \A r \in Records(file, x) : ~(r[1] <= 0)
    BY <1>1, RecordType
  <2> QED BY <1>2, <1>3, <2>1 DEF Written
<1>8. ASSUME AllLong PROVE \A x \in Entry : Records(file, x) # {} <=> x \in DOMAIN mem
  <2>1. TAKE x \in Entry
  <2>2. ASSUME x \in DOMAIN mem PROVE Records(file, x) # {}
    <3>1. PICK k \in 1 .. Len(order) : order[k] = x
      BY <1>1
    <3>2. k \in 1 .. save.next - 1
      <4>1. k \in save.next .. Len(order) => k \in Unwritten
        BY <2>2, <3>1 DEF Unwritten
      <4> QED BY <1>1, <1>2, <3>1, <4>1
    <3>3. auth_pwd_decode(mem[x].pwd)
      BY <1>8, <2>2 DEF AllLong
    <3> QED BY <1>t, <2>2, <3>1, <3>2, <3>3 DEF Written
  <2> QED BY <1>t, <2>2 DEF NoStranger
<1>9. ASSUME AllLong, ~(save.at < Len(file)) PROVE auth_unserialize_from_file(file) = mem
  <2>1. \A x \in Entry : Records(file, x) # {} <=> x \in DOMAIN mem
    BY <1>8, <1>9
  <2>2. ASSUME NEW x \in DOMAIN mem, NEW r \in Records(file, x) PROVE r[2] = mem[x]
    <3>1. x \in Entry /\ r[1] \in 1 .. Len(file)
      BY <1>1, RecordType
    <3>2. r[1] <= save.at
      BY <1>1, <1>9, <3>1
    <3> QED BY <1>t, <3>1, <3>2 DEF Written
  <2>3. ASSUME NEW x \in DOMAIN mem, mem[x].new # None PROVE auth_pwd_decode(mem[x].new)
    <3>1. x \in Entry /\ x \notin From
      BY <1>t, <1>1, <2>3 DEF SameLength
    <3>2. x \in To /\ mem[x].new \in had[x]
      BY <1>t, <2>3, <3>1 DEF Entry, OnlyOwnPasswords
    <3>3. Size[mem[x].new] = Size[First[x]]
      BY <1>t, <3>2 DEF SameLength
    <3> QED BY <3>1, <3>3, FileAssumption DEF auth_pwd_decode
  <2> QED BY <1>1, <2>1, <2>2, <2>3, ReadExact
<1>10. ExactUnlessShorter'
  <2>1. SUFFICES ASSUME ~shorter', AllLong' PROVE auth_unserialize_from_file(file)' = mem'
    BY DEF ExactUnlessShorter
  <2>2. AllLong /\ ~(save.at < Len(file))
    BY <1>2, <2>1 DEF AllLong
  <2>3. auth_unserialize_from_file(file) = mem
    BY <1>9, <2>2
  <2> QED BY <1>2, <2>3
<1>11. EntriesKept'
  <2>1. SUFFICES ASSUME AllLong' PROVE (DOMAIN auth_unserialize_from_file(file))' = (DOMAIN mem)'
    BY DEF EntriesKept
  <2>2. AllLong
    BY <1>2, <2>1 DEF AllLong
  <2>3. DOMAIN auth_unserialize_from_file(file) = DOMAIN mem
    BY <1>1, <1>8, <2>2, ReadDomain
  <2> QED BY <1>2, <2>3
<1> QED BY <1>4, <1>5, <1>6, <1>7, <1>10, <1>11 DEF FileInv, FileIsFaithful

(* The end of the process changes nothing of the file.                     *)
LEMMA FileEnd ==
  ASSUME FileInv, EndOfProcess
  PROVE  FileInv'
<1>1. /\ crashes < MaxCrashes /\ up' = FALSE /\ crashes' = crashes + 1
      /\ UNCHANGED <<mem, order, file, save, had, shorter, changes>>
  BY DEF EndOfProcess
<1>2. FileTypeOK'
  <2>1. crashes' \in 0 .. MaxCrashes
    BY <1>1, FileAssumption DEF FileInv, FileIsFaithful, FileTypeOK
  <2> QED BY <1>1, <2>1 DEF FileInv, FileIsFaithful, FileTypeOK
<1>3. (OnlyOwnPasswords /\ ExactUnlessShorter /\ EntriesKept)'
  BY <1>1 DEF FileInv, FileIsFaithful, OnlyOwnPasswords, ExactUnlessShorter, EntriesKept, AllLong
<1>4. (SameLength /\ KeysFirst(file) /\ OwnLines /\ NoStranger)'
  BY <1>1 DEF FileInv, SameLength, KeysFirst, OwnLines, NoStranger, Ends
<1>5. (save.todo > 0 => Written)'
  BY <1>1 DEF FileInv, Written
<1> QED BY <1>2, <1>3, <1>4, <1>5 DEF FileInv, FileIsFaithful

(* A start takes the lines for the store: they hold passwords of their own *)
(* entries, whichever saves they are of.                                   *)
LEMMA FileRestart ==
  ASSUME FileInv, Restart
  PROVE  FileInv'
<1>t. FileTypeOK /\ SameLength /\ KeysFirst(file) /\ OwnLines
  BY DEF FileInv, FileIsFaithful
<1>1. /\ up' = TRUE /\ mem' = auth_unserialize_from_file(file) /\ save' = Ready
      /\ order' \in Orders
      /\ UNCHANGED <<file, had, shorter, changes, crashes>>
  BY DEF Restart, Listed
<1>2. file \in Seq(Cell) /\ Len(file) \in Nat /\ had \in [Entry -> SUBSET Pwd] /\ Len(Order) \in Nat
  BY <1>t, TypeFacts
<1>3. /\ DOMAIN mem' \subseteq Entry
      /\ \A x \in DOMAIN mem' : Records(file, x) # {} /\ mem'[x] = Loaded(Records(file, x))
      /\ \A x \in Entry : Records(file, x) # {} => x \in DOMAIN mem'
  BY <1>1, ReadDomain
<1>4. ASSUME NEW x \in DOMAIN mem'
      PROVE  /\ mem'[x] \in Credential
             /\ mem'[x].pwd \in had[x] /\ mem'[x].new \in had[x] \union {None}
             /\ x \in From => mem'[x].new = None
  <2> DEFINE R == Records(file, x)
  <2>1. x \in Entry /\ R # {} /\ mem'[x] = Loaded(R)
    BY <1>3
  <2>2. /\ Loaded(R) \in Credential
        /\ \E r \in R : Loaded(R).pwd = r[2].pwd
        /\ Loaded(R).new = None \/ \E r \in R : Loaded(R).new = r[2].new
    BY <1>2, <2>1, LoadedComesFrom
  <2>3. \A r \in R : /\ r[2].pwd \in had[x] /\ r[2].new \in had[x] \union {None}
                     /\ x \in From => r[2].new = None
    BY <1>t, <2>1 DEF OwnLines
  <2> HIDE DEF R
  <2> QED BY <2>1, <2>2, <2>3
<1>5. mem' \in [DOMAIN mem' -> Credential]
  <2>1. mem' = [x \in DOMAIN mem' |-> mem'[x]]
    BY <1>1 DEF auth_unserialize_from_file
  <2> QED BY <1>4, <2>1
<1>6. FileTypeOK'
  <2>1. (save \in [todo : 0 .. 2, next : 1 .. Len(Order) + 1, at : Nat] /\ save.at <= Len(file))'
    BY <1>1, <1>2 DEF Ready
  <2> QED BY <1>t, <1>1, <1>3, <1>5, <2>1 DEF FileTypeOK
<1>7. OnlyOwnPasswords'
  BY <1>1, <1>4 DEF OnlyOwnPasswords
<1>8. SameLength'
  BY <1>t, <1>1, <1>4 DEF SameLength
<1>9. (KeysFirst(file) /\ OwnLines /\ NoStranger)'
  BY <1>t, <1>1, <1>3 DEF KeysFirst, Ends, OwnLines, NoStranger
<1>10. save'.todo = 0
  BY <1>1 DEF Ready
<1>11. (ExactUnlessShorter /\ EntriesKept)'
  BY <1>1 DEF ExactUnlessShorter, EntriesKept
<1> QED BY <1>6, <1>7, <1>8, <1>9, <1>10, <1>11 DEF FileInv, FileIsFaithful

LEMMA FileStutters == FileInv /\ UNCHANGED filevars => FileInv'
<1> SUFFICES ASSUME FileInv, UNCHANGED filevars PROVE FileInv'
  OBVIOUS
<1>1. UNCHANGED <<mem, order, file, up, save, had, shorter, changes, crashes>>
  BY DEF filevars
<1>2. FileTypeOK'
  BY <1>1 DEF FileInv, FileIsFaithful, FileTypeOK
<1>3. (OnlyOwnPasswords /\ ExactUnlessShorter /\ EntriesKept)'
  BY <1>1 DEF FileInv, FileIsFaithful, OnlyOwnPasswords, ExactUnlessShorter, EntriesKept, AllLong
<1>4. (SameLength /\ KeysFirst(file) /\ OwnLines /\ NoStranger)'
  BY <1>1 DEF FileInv, SameLength, KeysFirst, OwnLines, NoStranger, Ends
<1>5. (save.todo > 0 => Written)'
  BY <1>1 DEF FileInv, Written
<1> QED BY <1>2, <1>3, <1>4, <1>5 DEF FileInv, FileIsFaithful

LEMMA FileStep == FileInv /\ [FileNext]_filevars => FileInv'
<1> SUFFICES ASSUME FileInv, [FileNext]_filevars PROVE FileInv'
  OBVIOUS
<1>1. CASE \E e \in To : e \in DOMAIN mem /\ (auth_get_new_pwd_b64(e) \/ auth_switch_to_new_pwd(e))
  BY <1>1, FileGetNew, FileSwitch
<1>2. CASE \E e \in From : e \in DOMAIN mem /\ auth_set_pwd_b64(e)
  BY <1>2, FileSet
<1>3. CASE WriteLine
  BY <1>3, FileWrite
<1>4. CASE CloseFile
  BY <1>4, FileClose
<1>5. CASE EndOfProcess
  BY <1>5, FileEnd
<1>6. CASE Restart
  BY <1>6, FileRestart
<1>7. CASE UNCHANGED filevars
  BY <1>7, FileStutters
<1> QED BY <1>1, <1>2, <1>3, <1>4, <1>5, <1>6, <1>7 DEF FileNext

(* The inductive invariant of auth.db: what was written of the save under  *)
(* way, and what remains of earlier ones (auth_serialize_to_file).         *)
THEOREM FileInvariant == FileSpec => []FileInv
BY FileStart, FileStep, PTL DEF FileSpec

(* What a start reads of auth.db, in every execution: each entry has a     *)
(* password it has had, none is lost by a complete save, and as long as no *)
(* save was shorter than the file the store itself is read back.           *)
THEOREM FileStaysFaithful == FileSpec => []FileIsFaithful
<1>1. FileInv => FileIsFaithful
  BY DEF FileInv
<1> QED BY <1>1, FileInvariant, PTL

-----------------------------------------------------------------------------
(* The two together.                                                       *)

(* Without a file there is nothing to read, and the store is empty.        *)
LEMMA NoFileIsFaithful == NoFile => FileInv
<1> SUFFICES ASSUME NoFile PROVE FileInv
  OBVIOUS
<1>i. /\ mem = <<>> /\ order = Order /\ file = <<>> /\ up = FALSE /\ save = Ready
      /\ had = [e \in Entry |-> {}]
      /\ shorter = FALSE /\ changes = 0 /\ crashes = 0
  BY DEF NoFile
<1>1. DOMAIN mem = {} /\ file \in Seq(Cell) /\ Len(file) = 0 /\ DOMAIN file = {}
  BY <1>i
<1>2. \A e \in Entry : Records(file, e) = {}
  <2>1. TAKE e \in Entry
  <2>2. Records(file, e) \in SUBSET ((1 .. 0) \X Credential)
    BY <1>1, RecordType
  <2> QED BY <2>2
<1>3. save.todo = 0 /\ save.at = 0
  BY <1>i DEF Ready
<1>4. FileTypeOK
  <2>1. save \in [todo : 0 .. 2, next : 1 .. Len(Order) + 1, at : Nat] /\ save.at <= Len(file)
    BY <1>i, <1>1, OrderFacts DEF Ready
  <2>2. changes \in 0 .. MaxChanges /\ crashes \in 0 .. MaxCrashes
    BY <1>i, FileAssumption
  <2>3. DOMAIN mem \subseteq Entry /\ mem \in [DOMAIN mem -> Credential]
    BY <1>i, <1>1
  <2>4. had \in [Entry -> SUBSET Pwd] /\ order \in Orders
    BY <1>i, OrderIsAnOrder
  <2> QED BY <1>i, <1>1, <2>1, <2>2, <2>3, <2>4 DEF FileTypeOK
<1>5. auth_unserialize_from_file(file) = mem
  <2>1. mem \in [{} -> Credential]
    BY <1>i, <1>1
  <2>2. {} \in SUBSET Entry /\ \A x \in Entry : Records(file, x) # {} <=> x \in {}
    BY <1>2
  <2> QED BY <1>1, <2>1, <2>2, ReadExact
<1>6. OnlyOwnPasswords
  BY <1>1 DEF OnlyOwnPasswords
<1>7. SameLength
  <2>1. \A e \in To : had[e] = {}
    BY <1>i DEF Entry
  <2> QED BY <1>1, <2>1 DEF SameLength
<1>8. KeysFirst(file) /\ OwnLines /\ NoStranger
  BY <1>1, <1>2 DEF KeysFirst, OwnLines, NoStranger
<1> QED BY <1>3, <1>4, <1>5, <1>6, <1>7, <1>8
        DEF FileInv, FileIsFaithful, ExactUnlessShorter, EntriesKept

(* What the run checks, for any entries, passwords, lengths and threads: a *)
(* password that changes leaves neither a stale secret nor a wrong line.   *)
THEOREM CredentialsStaySound == CredentialsSpec => [](CacheIsCurrent /\ FileIsFaithful)
<1>1. CredentialsInit => CacheInv /\ FileInv
  BY CacheStart, FileStart, NoFileIsFaithful DEF CredentialsInit
<1>2. CacheInv /\ FileInv /\ [CredentialsNext]_allvars => CacheInv' /\ FileInv'
  <2>1. [CredentialsNext]_allvars => [Next]_vars /\ [FileNext]_filevars
    BY DEF CredentialsNext, allvars
  <2> QED BY <2>1, CacheStep, FileStep
<1>3. CacheInv /\ FileInv => CacheIsCurrent /\ FileIsFaithful
  BY DEF CacheInv, FileInv
<1> QED BY <1>1, <1>2, <1>3, PTL DEF CredentialsSpec
=============================================================================
