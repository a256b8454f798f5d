-------------------------- MODULE Handshake_proofs --------------------------
(***************************************************************************)
(* Proof that a negotiation opens both sides on the strongest common       *)
(* cipher, for every table, every choice of enabled ciphers and every      *)
(* other implementation at one side.                                       *)
(***************************************************************************)
EXTENDS Handshake, WellFoundedInduction, TLAPS

-----------------------------------------------------------------------------
(* Least and greatest elements; the walk over the table.                   *)

(* A non-empty set of naturals has a least element.                        *)
LEMMA Least ==
  ASSUME NEW T \in SUBSET Nat, T # {}
  PROVE  \E x \in T : \A y \in T : x <= y
<1> DEFINE R == OpToRel(<, Nat)
<1>1. IsWellFoundedOn(R, Nat)
  BY NatLessThanWellFounded
<1>2. \A x, y \in Nat : y < x => <<y, x>> \in R
  BY DEF OpToRel
<1> HIDE DEF R
<1>3. PICK x \in T : \A y \in T : ~(<<y, x>> \in R)
  BY <1>1, WFMin
<1>4. \A y \in T : ~(y < x) /\ x \in Nat /\ y \in Nat
  BY <1>2, <1>3
<1>5. \A y \in T : x <= y
  BY <1>4
<1> QED BY <1>5

(* A non-empty set of indices has a maximum: the loop of the leader, which  *)
(* goes from the end of the offer to its beginning, finds an entry.        *)
LEMMA Greatest ==
  ASSUME NEW n \in Nat, NEW T \in SUBSET (1 .. n), T # {}
  PROVE  Max(T) \in T /\ \A y \in T : y <= Max(T)
<1> DEFINE U == {u \in Nat : \A y \in T : y <= u}
<1>1. n \in U
  OBVIOUS
<1>2. PICK u \in U : \A v \in U : u <= v
  BY <1>1, Least
<1>3. u \in T
  <2>1. SUFFICES ASSUME u \notin T PROVE FALSE
    OBVIOUS
  <2>2. PICK y \in T : TRUE
    OBVIOUS
  <2>3. u - 1 \in Nat /\ \A z \in T : z <= u - 1
    BY <2>1, <2>2
  <2>4. u - 1 \in U
    BY <2>3
  <2> QED BY <1>2, <2>3, <2>4
<1>4. \E x \in T : \A y \in T : x >= y
  BY <1>3
<1>5. Max(T) \in T /\ \A y \in T : Max(T) >= y
  BY <1>4, Zenon DEF Max
<1> QED BY <1>5

\* list holds what the walk over the first n entries of a table has kept so
\* far, after each of them.
Walked(list, table, kept, n) ==
    /\ list = [i \in 0 .. n |-> list[i]]
    /\ list[0] = <<>>
    /\ \A i \in 1 .. n :
          list[i] = IF table[i] \in kept THEN Append(list[i - 1], table[i]) ELSE list[i - 1]

(* The walk over a table has a result, however long the table is.          *)
LEMMA WalkExists ==
  ASSUME NEW table, NEW kept, NEW n \in Nat
  PROVE  \E list : Walked(list, table, kept, n)
<1> DEFINE Bad == {m \in Nat : ~ \E list : Walked(list, table, kept, m)}
<1>1. SUFFICES ASSUME Bad # {} PROVE FALSE
  OBVIOUS
<1>2. PICK m \in Bad : \A k \in Bad : m <= k
  BY <1>1, Least
<1>3. m # 0
  <2> DEFINE f == [i \in 0 .. 0 |-> <<>>]
  <2>1. Walked(f, table, kept, 0)
    BY DEF Walked
  <2> QED BY <2>1
<1>4. m - 1 \in Nat /\ m - 1 \notin Bad
  BY <1>2, <1>3
<1>5. PICK g : Walked(g, table, kept, m - 1)
  BY <1>4
<1> DEFINE f == [i \in 0 .. m |-> IF i # m THEN g[i]
                                  ELSE IF table[m] \in kept THEN Append(g[m - 1], table[m])
                                  ELSE g[m - 1]]
<1>6. Walked(f, table, kept, m)
  <2>1. f = [i \in 0 .. m |-> f[i]]
    OBVIOUS
  <2>2. f[0] = <<>>
    BY <1>3, <1>5 DEF Walked
  <2>3. ASSUME NEW i \in 1 .. m
        PROVE  f[i] = IF table[i] \in kept THEN Append(f[i - 1], table[i]) ELSE f[i - 1]
    <3>1. f[i - 1] = g[i - 1]
      BY <2>3
    <3>2. CASE i = m
      BY <3>1, <3>2
    <3>3. CASE i # m
      <4>1. i \in 1 .. m - 1 /\ f[i] = g[i]
        BY <3>3
      <4> HIDE DEF f
      <4> QED BY <1>5, <3>1, <4>1 DEF Walked
    <3> QED BY <3>2, <3>3
  <2> HIDE DEF f
  <2> QED BY <2>1, <2>2, <2>3 DEF Walked
<1>7. m \notin Bad
  BY <1>6
<1> QED BY <1>7

(* cipher_foreach is the last value of the walk.                           *)
LEMMA WalkIsForeach ==
  ASSUME NEW s, NEW kept, Len(CipherTable[s]) \in Nat
  PROVE  \E list : /\ Walked(list, CipherTable[s], kept, Len(CipherTable[s]))
                   /\ cipher_foreach(s, kept) = list[Len(CipherTable[s])]
<1> DEFINE n == Len(CipherTable[s])
           Entry(list, i) ==
                IF i = 0 THEN <<>>
                ELSE IF CipherTable[s][i] \in kept THEN Append(list[i - 1], CipherTable[s][i])
                ELSE list[i - 1]
           Step(list) == [i \in 0 .. n |-> Entry(list, i)]
           whole == CHOOSE list : list = Step(list)
<1>1. cipher_foreach(s, kept) = whole[n]
  BY DEF cipher_foreach
<1>2. PICK g : Walked(g, CipherTable[s], kept, n)
  BY WalkExists
<1>3. \A list : Entry(list, 0) = <<>>
  OBVIOUS
<1>4. \A list : \A i \in 1 .. n :
         Entry(list, i) = IF CipherTable[s][i] \in kept
                          THEN Append(list[i - 1], CipherTable[s][i]) ELSE list[i - 1]
  OBVIOUS
<1> HIDE DEF Entry
<1>5. \A i \in 0 .. n : g[i] = Entry(g, i)
  <2>1. \A i \in 0 .. n : i = 0 \/ i \in 1 .. n
    OBVIOUS
  <2> QED BY <1>2, <1>3, <1>4, <2>1 DEF Walked
<1>6. g = Step(g)
  BY <1>2, <1>5 DEF Walked
<1>7. whole = Step(whole)
  <2> HIDE DEF Step
  <2> QED BY <1>6
<1> HIDE DEF whole
<1>8. \A i \in 0 .. n : whole[i] = Entry(whole, i)
  BY <1>7
<1>9. whole = [i \in 0 .. n |-> whole[i]]
  BY <1>7
<1>10. whole[0] = <<>>
  BY <1>3, <1>8
<1>11. \A i \in 1 .. n : whole[i] = IF CipherTable[s][i] \in kept
                                    THEN Append(whole[i - 1], CipherTable[s][i])
                                    ELSE whole[i - 1]
  <2>1. \A i \in 1 .. n : i \in 0 .. n
    OBVIOUS
  <2> QED BY <1>4, <1>8, <2>1
<1>12. Walked(whole, CipherTable[s], kept, n)
  BY <1>9, <1>10, <1>11 DEF Walked
<1> QED BY <1>1, <1>12

\* offer is the part of table that kept allows, in its order: f gives the place
\* in the table of each entry.
Sorted(offer, table, kept, n, f) ==
    /\ f \in [1 .. Len(offer) -> 1 .. n]
    /\ \A k \in 1 .. Len(offer) : offer[k] = table[f[k]] /\ offer[k] \in kept
    /\ \A k, l \in 1 .. Len(offer) : k < l => f[k] < f[l]
    /\ \A j \in 1 .. n : table[j] \in kept => \E k \in 1 .. Len(offer) : f[k] = j

(* What one entry of the table adds.                                       *)
LEMMA SortedStep ==
  ASSUME NEW S, NEW table \in Seq(S), NEW kept, NEW n \in 1 .. Len(table),
         NEW before \in Seq(S), NEW f, Sorted(before, table, kept, n - 1, f),
         NEW after,
         after = IF table[n] \in kept THEN Append(before, table[n]) ELSE before
  PROVE  after \in Seq(S) /\ \E g : Sorted(after, table, kept, n, g)
<1>1. table[n] \in S /\ n \in Nat /\ Len(before) \in Nat
  OBVIOUS
<1>2. CASE table[n] \notin kept
  <2>1. after = before
    BY <1>2
  <2>2. Sorted(before, table, kept, n, f)
    BY <1>1, <1>2 DEF Sorted
  <2> QED BY <2>1, <2>2
<1>3. CASE table[n] \in kept
  <2> DEFINE L == Len(before)
             g == [k \in 1 .. L + 1 |-> IF k = L + 1 THEN n ELSE f[k]]
  <2>1. /\ after \in Seq(S) /\ Len(after) = L + 1
        /\ after[L + 1] = table[n]
        /\ \A k \in 1 .. L : after[k] = before[k]
    BY <1>1, <1>3
  <2>2. /\ f \in [1 .. L -> 1 .. n - 1]
        /\ \A k \in 1 .. L : before[k] = table[f[k]] /\ before[k] \in kept
        /\ \A k, l \in 1 .. L : k < l => f[k] < f[l]
        /\ \A j \in 1 .. n - 1 : table[j] \in kept => \E k \in 1 .. L : f[k] = j
    BY DEF Sorted
  <2>3. /\ \A k \in 1 .. L : g[k] = f[k] /\ f[k] \in 1 .. n - 1
        /\ g[L + 1] = n
    BY <1>1, <2>2
  <2>4. \A k \in 1 .. L + 1 : k \in 1 .. L \/ k = L + 1
    BY <1>1
  <2>5. g = [k \in 1 .. L + 1 |-> g[k]]
    OBVIOUS
  <2>6. L \in Nat
    BY <1>1
  <2> HIDE DEF g, L
  <2>7. g \in [1 .. L + 1 -> 1 .. n]
    <3>1. \A k \in 1 .. L + 1 : g[k] \in 1 .. n
      BY <1>1, <2>3, <2>4
    <3> QED BY <2>5, <3>1
  <2>8. \A k \in 1 .. L + 1 : after[k] = table[g[k]] /\ after[k] \in kept
    BY <1>3, <2>1, <2>2, <2>3, <2>4
  <2>9. ASSUME NEW k \in 1 .. L + 1, NEW l \in 1 .. L + 1, k < l PROVE g[k] < g[l]
    <3>1. k \in 1 .. L
      BY <2>6, <2>9
    <3>2. CASE l = L + 1
      BY <1>1, <2>3, <3>1, <3>2
    <3>3. CASE l \in 1 .. L
      BY <2>2, <2>3, <2>9, <3>1, <3>3
    <3> QED BY <2>4, <3>2, <3>3
  <2>10. ASSUME NEW j \in 1 .. n, table[j] \in kept PROVE \E k \in 1 .. L + 1 : g[k] = j
    <3>1. CASE j = n
      BY <2>3, <2>6, <3>1
    <3>2. CASE j # n
      <4>1. j \in 1 .. n - 1
        BY <1>1, <3>2
      <4>2. PICK k \in 1 .. L : f[k] = j
        BY <2>2, <2>10, <4>1
      <4>3. k \in 1 .. L + 1 /\ g[k] = j
        BY <2>3, <2>6, <4>2
      <4> QED BY <4>3
    <3> QED BY <3>1, <3>2
  <2>11. Sorted(after, table, kept, n, g)
    BY <2>1, <2>7, <2>8, <2>9, <2>10 DEF Sorted
  <2> QED BY <2>1, <2>11
<1> QED BY <1>2, <1>3

(* cipher_foreach keeps the allowed entries of a table, all of them and in  *)
(* the order of the table.                                                 *)
LEMMA ForeachIsSorted ==
  ASSUME NEW s \in Site, NEW kept
  PROVE  /\ cipher_foreach(s, kept) \in Seq(Cipher)
         /\ \E f : Sorted(cipher_foreach(s, kept), CipherTable[s], kept,
                          Len(CipherTable[s]), f)
<1> DEFINE table == CipherTable[s]
           n == Len(table)
<1>1. table \in Seq(Cipher) /\ n \in Nat
  BY TableAssumption
<1>2. PICK list : Walked(list, table, kept, n) /\ cipher_foreach(s, kept) = list[n]
  BY <1>1, WalkIsForeach
<1> HIDE DEF table, n
<1> DEFINE Good(i) == list[i] \in Seq(Cipher) /\ \E f : Sorted(list[i], table, kept, i, f)
           Bad == {i \in 0 .. n : ~Good(i)}
<1>3. SUFFICES Bad = {}
  BY <1>1, <1>2 DEF table, n
<1>4. SUFFICES ASSUME Bad # {} PROVE FALSE
  OBVIOUS
<1>5. PICK i \in Bad : \A j \in Bad : i <= j
  <2> HIDE DEF Good
  <2>1. Bad \in SUBSET Nat
    OBVIOUS
  <2> QED BY <1>4, <2>1, Least
<1>6. Good(0)
  <2>1. list[0] = <<>>
    BY <1>2 DEF Walked
  <2>2. Sorted(<<>>, table, kept, 0, [k \in 1 .. 0 |-> 1])
    BY DEF Sorted
  <2> QED BY <2>1, <2>2
<1>7. i \in 1 .. n /\ i - 1 \in 0 .. n
  BY <1>1, <1>5, <1>6
<1>8. Good(i - 1)
  <2> HIDE DEF Good
  <2> QED BY <1>5, <1>7
<1>9. PICK f : Sorted(list[i - 1], table, kept, i - 1, f)
  BY <1>8
<1>10. list[i] = IF table[i] \in kept THEN Append(list[i - 1], table[i]) ELSE list[i - 1]
  BY <1>2, <1>7 DEF Walked
<1>11. i \in 1 .. Len(table)
  BY <1>7 DEF n
<1>12. list[i] \in Seq(Cipher) /\ \E g : Sorted(list[i], table, kept, i, g)
  <2>1. list[i - 1] \in Seq(Cipher)
    BY <1>8
  <2>2. table \in Seq(Cipher)
    BY <1>1
  <2> DEFINE before == list[i - 1]
             after == list[i]
             last == table[i]
  <2>3. after = IF last \in kept THEN Append(before, last) ELSE before
    BY <1>10
  <2>4. before \in Seq(Cipher) /\ Sorted(before, table, kept, i - 1, f)
    BY <1>9, <2>1
  <2> HIDE DEF before, after
  <2>5. after \in Seq(Cipher) /\ \E g : Sorted(after, table, kept, i, g)
    BY <1>11, <2>2, <2>3, <2>4, SortedStep
  <2> QED BY <2>5 DEF after
<1> QED BY <1>5, <1>12

-----------------------------------------------------------------------------
(* The choice of the leader.                                               *)

(* The leader settles on a cipher of the offer that it has enabled, and no  *)
(* later one of the offer would do.                                        *)
LEMMA ChosenIsLast ==
  ASSUME NEW offer \in Seq(Cipher), Common(offer) # {}
  PROVE  /\ Max(Common(offer)) \in DOMAIN offer
         /\ Chosen(offer) = offer[Max(Common(offer))]
         /\ Chosen(offer) \in enabled[Leader] /\ Chosen(offer) \in Cipher
         /\ \A k \in Common(offer) : k <= Max(Common(offer))
<1>1. Len(offer) \in Nat /\ DOMAIN offer = 1 .. Len(offer)
  OBVIOUS
<1>2. Common(offer) \in SUBSET (1 .. Len(offer))
  BY <1>1 DEF Common
<1>3. Max(Common(offer)) \in Common(offer) /\ \A k \in Common(offer) : k <= Max(Common(offer))
  BY <1>1, <1>2, Greatest
<1> DEFINE m == Max(Common(offer))
<1> HIDE DEF m
<1>4. m \in Common(offer)
  BY <1>3 DEF m
<1>5. m \in DOMAIN offer /\ offer[m] \in enabled[Leader]
  BY <1>4 DEF Common
<1>6. offer[m] \in Cipher
  BY <1>1, <1>5
<1>7. Chosen(offer) = offer[m]
  BY DEF Chosen, m
<1> QED BY <1>3, <1>5, <1>6, <1>7 DEF m

(* The offer is a list of ciphers.                                         *)
LEMMA OfferTyped == Offer \in Seq(Cipher)
  BY ForeachIsSorted DEF Offer, cipher_foreach_cb, Site

(* What the leader chooses from the offer of the follower is the strongest  *)
(* cipher both have enabled.                                               *)
LEMMA ChosenIsStrongest ==
  ASSUME TypeOK, Configured, Common(Offer) # {},
         NEW i \in DOMAIN CipherTable[Follower], NEW j \in DOMAIN CipherTable[Follower],
         CipherTable[Follower][i] = Chosen(Offer),
         CipherTable[Follower][j] \in enabled[Follower] \intersect enabled[Leader]
  PROVE  j <= i
<1> DEFINE table == CipherTable[Follower]
           m == Max(Common(Offer))
<1>1. Follower \in Site /\ Leader \in Site
  BY DEF Site
<1>2. /\ table \in Seq(Cipher) /\ Len(table) \in Nat /\ DOMAIN table = 1 .. Len(table)
      /\ NoCipher \notin Cipher
      /\ \A k, l \in DOMAIN table : table[k] = table[l] => k = l
  BY <1>1, TableAssumption
<1>3. Offer \in Seq(Cipher) /\ Len(Offer) \in Nat /\ DOMAIN Offer = 1 .. Len(Offer)
  BY OfferTyped
<1>4. PICK f : Sorted(Offer, table, enabled[Follower], Len(table), f)
  BY <1>1, ForeachIsSorted DEF Offer, cipher_foreach_cb
<1>5. /\ f \in [1 .. Len(Offer) -> 1 .. Len(table)]
      /\ \A k \in 1 .. Len(Offer) : Offer[k] = table[f[k]]
      /\ \A k, l \in 1 .. Len(Offer) : k < l => f[k] < f[l]
      /\ \A l \in 1 .. Len(table) :
            table[l] \in enabled[Follower] => \E k \in 1 .. Len(Offer) : f[k] = l
  BY <1>4 DEF Sorted
<1>6. m \in 1 .. Len(Offer) /\ Chosen(Offer) = Offer[m] /\ \A k \in Common(Offer) : k <= m
  BY <1>3, ChosenIsLast
<1> HIDE DEF m
<1>7. f[m] \in 1 .. Len(table) /\ table[f[m]] = table[i]
  BY <1>5, <1>6
<1>8. f[m] = i
  BY <1>2, <1>7
<1>9. PICK k \in 1 .. Len(Offer) : f[k] = j
  BY <1>2, <1>5
<1>10. Offer[k] = table[j]
  BY <1>5, <1>9
<1>11. k \in Common(Offer)
  <2>1. table[j] \in enabled[Leader] /\ enabled[Leader] \subseteq CipherOf(Leader)
    BY <1>1 DEF Configured
  <2>2. cipher_get_by_str(Leader, table[j]) = table[j]
    BY <2>1 DEF cipher_get_by_str
  <2>3. table[j] \in Cipher
    BY <1>2
  <2>4. Offer[k] \in enabled[Leader] /\ cipher_get_by_str(Leader, Offer[k]) # NoCipher
    BY <1>2, <1>10, <2>1, <2>2, <2>3
  <2> QED BY <1>3, <2>4 DEF Common
<1>12. k <= m
  BY <1>6, <1>11
<1>13. f[k] <= f[m]
  <2>1. CASE k = m
    BY <1>5, <1>6, <2>1
  <2>2. CASE k # m
    <3>1. k < m
      BY <1>6, <1>12, <2>2
    <3>2. f[k] \in 1 .. Len(table) /\ f[m] \in 1 .. Len(table)
      BY <1>5, <1>6
    <3> QED BY <1>5, <1>6, <3>1, <3>2
  <2> QED BY <2>1, <2>2
<1> QED BY <1>8, <1>9, <1>13

(* The invariant contains what a negotiation promises.                     *)
LEMMA InvariantSuffices == HandshakeInv => Negotiated
<1>1. SUFFICES ASSUME HandshakeInv PROVE Negotiated
  OBVIOUS
<1>2. TypeOK /\ Configured /\ Settled /\ NeverDisabledCipher /\ KnownPeer
  BY <1>1 DEF HandshakeInv
<1>3. ASSUME foreign = {}, pc[Follower] \in Open
      PROVE  /\ pc[Leader] \in Open /\ cipher[Follower] = cipher[Leader]
             /\ Common(Offer) # {} /\ cipher[Leader] = Chosen(Offer)
  BY <1>2, <1>3 DEF Settled
<1>4. CipherAgreed
  <2>1. SUFFICES ASSUME foreign = {}, pc[Follower] \in Open
                 PROVE  /\ cipher[Leader] = cipher[Follower]
                        /\ cipher[Follower] \in enabled[Follower] \intersect enabled[Leader]
    BY DEF CipherAgreed
  <2>2. Follower \in Site \ foreign /\ Leader \in Site \ foreign
    BY <2>1 DEF Site
  <2>3. cipher[Follower] \in enabled[Follower] /\ cipher[Leader] \in enabled[Leader]
    BY <1>2, <1>3, <2>1, <2>2 DEF NeverDisabledCipher
  <2> QED BY <1>3, <2>1, <2>3
<1>5. StrongestCommon
  <2>1. SUFFICES ASSUME foreign = {}, pc[Follower] \in Open,
                        NEW i \in DOMAIN CipherTable[Follower],
                        NEW j \in DOMAIN CipherTable[Follower],
                        CipherTable[Follower][i] = cipher[Follower],
                        CipherTable[Follower][j] \in enabled[Follower] \intersect enabled[Leader]
                 PROVE  j <= i
    BY DEF StrongestCommon
  <2>2. CipherTable[Follower][i] = Chosen(Offer) /\ Common(Offer) # {}
    BY <1>3, <2>1
  <2> QED BY <1>2, <2>1, <2>2, ChosenIsStrongest
<1> QED BY <1>2, <1>4, <1>5 DEF Negotiated

-----------------------------------------------------------------------------
(* The steps.                                                              *)

(* The choice of ciphers and identifiers does not change.                  *)
LEMMA ConfigKept ==
  ASSUME UNCHANGED config
  PROVE  /\ Offer' = Offer
         /\ \A list : Common(list)' = Common(list) /\ Chosen(list)' = Chosen(list)
         /\ \A s, list : Agreement(s, list)' = Agreement(s, list)
         /\ enabled' = enabled /\ sId_Local' = sId_Local /\ foreign' = foreign
<1>1. enabled' = enabled /\ sId_Local' = sId_Local /\ foreign' = foreign
  BY DEF config
<1>2. Offer' = Offer
  BY <1>1 DEF Offer, cipher_foreach_cb, cipher_foreach
<1>3. \A list : Common(list)' = Common(list)
  BY <1>1 DEF Common, cipher_get_by_str, CipherOf
<1>4. \A list : Chosen(list)' = Chosen(list)
  BY <1>3 DEF Chosen, Max
<1>5. \A s, list : Agreement(s, list)' = Agreement(s, list)
  BY <1>1 DEF Agreement
<1> QED BY <1>1, <1>2, <1>3, <1>4, <1>5

\* A step that keeps the configuration and the ciphers and peers of the
\* sessions that are open, and opens none.
Quiet ==
    /\ UNCHANGED config
    /\ \A s \in Site :
          /\ pc[s] \in Open => /\ pc'[s] \in Open /\ cipher'[s] = cipher[s]
                               /\ sId_Remote'[s] = sId_Remote[s]
          /\ pc'[s] \in Open => pc[s] \in Open
          /\ pc'[s] \in {"offer", "wait"} => sId_Local[s] # NoId

(* A quiet step that sends nothing but the offer keeps the invariant.      *)
LEMMA QuietStep ==
  ASSUME HandshakeInv, TypeOK', Quiet,
         \A msg \in Messages(Leader)' :
             msg \in Messages(Leader) \/ msg = Agreement(Follower, Offer),
         Messages(Follower)' \subseteq Messages(Follower)
  PROVE  HandshakeInv'
<1> USE DEF Site
<1>1. /\ Offer' = Offer
      /\ \A list : Common(list)' = Common(list) /\ Chosen(list)' = Chosen(list)
      /\ \A s, list : Agreement(s, list)' = Agreement(s, list)
      /\ enabled' = enabled /\ sId_Local' = sId_Local /\ foreign' = foreign
  BY ConfigKept DEF Quiet
<1>2. \A s \in Site :
          /\ pc[s] \in Open => /\ pc'[s] \in Open /\ cipher'[s] = cipher[s]
                               /\ sId_Remote'[s] = sId_Remote[s]
          /\ pc'[s] \in Open => pc[s] \in Open
          /\ pc'[s] \in {"offer", "wait"} => sId_Local[s] # NoId
  BY DEF Quiet
<1>3. Configured'
  BY <1>1, <1>2 DEF HandshakeInv, Configured, CipherOf
<1>4. InTransit'
  <2>1. SUFFICES ASSUME foreign = {}
        PROVE  /\ \A msg \in Messages(Leader)' : msg = Agreement(Follower, Offer)
               /\ \A msg \in Messages(Follower)' :
                     pc'[Leader] \in Open /\ msg = Agreement(Leader, <<cipher'[Leader]>>)
    BY <1>1 DEF InTransit, Open
  <2>2. /\ \A msg \in Messages(Leader) : msg = Agreement(Follower, Offer)
        /\ \A msg \in Messages(Follower) :
              pc[Leader] \in Open /\ msg = Agreement(Leader, <<cipher[Leader]>>)
    BY <2>1 DEF HandshakeInv, InTransit
  <2> QED BY <1>2, <2>2
<1>5. Settled'
  <2>1. SUFFICES ASSUME foreign = {}
        PROVE  /\ pc'[Leader] \in Open => Common(Offer) # {} /\ cipher'[Leader] = Chosen(Offer)
               /\ pc'[Follower] \in Open =>
                     pc'[Leader] \in Open /\ cipher'[Follower] = cipher'[Leader]
    BY <1>1 DEF Settled, Open
  <2>2. /\ pc[Leader] \in Open => Common(Offer) # {} /\ cipher[Leader] = Chosen(Offer)
        /\ pc[Follower] \in Open => pc[Leader] \in Open /\ cipher[Follower] = cipher[Leader]
    BY <2>1 DEF HandshakeInv, Settled
  <2> QED BY <1>2, <2>2
<1>6. NeverDisabledCipher'
  BY <1>1, <1>2 DEF HandshakeInv, NeverDisabledCipher, Open
<1>7. KnownPeer'
  BY <1>1, <1>2 DEF HandshakeInv, KnownPeer, Peer, Open
<1> QED BY <1>3, <1>4, <1>5, <1>6, <1>7 DEF HandshakeInv

(* With another implementation at one side, the program's own rules remain. *)
LEMMA ForeignStep ==
  ASSUME HandshakeInv, TypeOK', UNCHANGED config, foreign # {},
         \A s \in Site : pc'[s] \in {"offer", "wait"} => sId_Local[s] # NoId,
         NeverDisabledCipher'
  PROVE  HandshakeInv'
<1>1. enabled' = enabled /\ sId_Local' = sId_Local /\ foreign' = foreign
  BY DEF config
<1>2. Configured'
  BY <1>1 DEF HandshakeInv, Configured, CipherOf
<1>3. InTransit' /\ Settled' /\ KnownPeer'
  BY <1>1 DEF InTransit, Settled, KnownPeer
<1> QED BY <1>2, <1>3 DEF HandshakeInv

(* The initial states.                                                     *)
LEMMA HandshakeInit == Init => HandshakeInv
<1>1. SUFFICES ASSUME Init PROVE HandshakeInv
  OBVIOUS
<1> USE DEF Site
<1>2. TypeOK
  <2>1. PICK expected \in Id :
           sId_Remote = [s \in Site |-> IF s = Follower THEN expected ELSE NoId]
    BY <1>1 DEF Init
  <2>2. sId_Remote \in [Site -> Id \union {NoId}]
    BY <2>1
  <2>3. foreign \in SUBSET Site
    BY <1>1, ForeignAssumption DEF Init
  <2>4. /\ enabled \in [Site -> SUBSET Cipher]
        /\ sId_Local \in [Site -> Id \union {NoId}]
    BY <1>1 DEF Init
  <2>5. /\ pc = [s \in Site |-> "idle"] /\ flux = [s \in Site |-> FALSE] /\ cut = FALSE
        /\ cipher = [s \in Site |-> NoCipher] /\ wire = [s \in Site |-> <<>>]
    BY <1>1 DEF Init
  <2>6. <<>> \in Seq(CipherAgreement)
    OBVIOUS
  <2> QED BY <2>2, <2>3, <2>4, <2>5, <2>6 DEF TypeOK
<1>3. Configured
  BY <1>1 DEF Init, Configured
<1>4. Messages(Follower) = {} /\ Messages(Leader) = {}
  BY <1>1 DEF Init, Messages
<1>5. \A s \in Site : pc[s] \notin Open
  BY <1>1 DEF Init, Open
<1> QED BY <1>2, <1>3, <1>4, <1>5
        DEF HandshakeInv, InTransit, Settled, NeverDisabledCipher, KnownPeer

(* A message written to a site is appended to what it has to read.         *)
LEMMA Written ==
  ASSUME TypeOK, NEW s \in Site, NEW msg \in CipherAgreement
  PROVE  /\ transport_payload_write(s, msg) \in [Site -> Seq(CipherAgreement)]
         /\ \/ transport_payload_write(s, msg) = wire
            \/ /\ transport_payload_write(s, msg)[Peer(s)] = Append(wire[Peer(s)], msg)
               /\ transport_payload_write(s, msg)[s] = wire[s]
<1>1. s # Peer(s) /\ Peer(s) \in Site
  BY SitesDiffer DEF Peer, Site
<1> QED BY <1>1 DEF TypeOK, transport_payload_write

(* Appending adds one message, reading takes one away.                     *)
LEMMA Reading ==
  ASSUME NEW w \in Seq(CipherAgreement)
  PROVE  /\ \A msg \in CipherAgreement : \A i \in DOMAIN Append(w, msg) :
               Append(w, msg)[i] = msg \/ \E j \in DOMAIN w : Append(w, msg)[i] = w[j]
         /\ w # <<>> => /\ Head(w) \in CipherAgreement /\ Tail(w) \in Seq(CipherAgreement)
                        /\ \E j \in DOMAIN w : Head(w) = w[j]
                        /\ \A i \in DOMAIN Tail(w) : \E j \in DOMAIN w : Tail(w)[i] = w[j]
<1>1. ASSUME NEW msg \in CipherAgreement, NEW i \in DOMAIN Append(w, msg)
      PROVE  Append(w, msg)[i] = msg \/ \E j \in DOMAIN w : Append(w, msg)[i] = w[j]
  BY <1>1
<1>2. ASSUME w # <<>>
      PROVE  /\ Head(w) \in CipherAgreement /\ Tail(w) \in Seq(CipherAgreement)
             /\ \E j \in DOMAIN w : Head(w) = w[j]
             /\ \A i \in DOMAIN Tail(w) : \E j \in DOMAIN w : Tail(w)[i] = w[j]
  <2>1. Head(w) \in CipherAgreement /\ Tail(w) \in Seq(CipherAgreement)
    BY <1>2
  <2>2. 1 \in DOMAIN w /\ Head(w) = w[1]
    BY <1>2
  <2>3. \A i \in DOMAIN Tail(w) : i + 1 \in DOMAIN w /\ Tail(w)[i] = w[i + 1]
    BY <1>2
  <2> QED BY <2>1, <2>2, <2>3
<1> QED BY <1>1, <1>2

(* What a CipherAgreement of the program holds.                            *)
LEMMA AgreementTyped ==
  ASSUME TypeOK, NEW s \in Site, sId_Local[s] # NoId, NEW list \in Seq(Cipher)
  PROVE  Agreement(s, list) \in CipherAgreement
  BY DEF TypeOK, Agreement, CipherAgreement

(* The follower connects.                                                  *)
LEMMA StartFollowerStep ==
  ASSUME HandshakeInv, StartFollower PROVE HandshakeInv'
<1> USE DEF Site
<1>1. TypeOK /\ UNCHANGED <<config, sId_Remote, cipher, wire, cut>>
  BY DEF HandshakeInv, StartFollower
<1>2. pc[Follower] = "idle" /\ \A s \in Site : s # Follower => pc'[s] = pc[s]
  BY <1>1 DEF StartFollower, Goto, TypeOK
<1>3. pc'[Follower] = "closed" \/ (pc'[Follower] = "offer" /\ sId_Local[Follower] # NoId)
  BY <1>1 DEF StartFollower, Goto, TypeOK
<1>4. TypeOK'
  <2>1. pc' = [pc EXCEPT ![Follower] = "closed"] \/ pc' = [pc EXCEPT ![Follower] = "offer"]
    BY DEF StartFollower, Goto
  <2>2. flux' \in [Site -> BOOLEAN]
    BY <1>1 DEF StartFollower, TypeOK
  <2> QED BY <1>1, <2>1, <2>2 DEF TypeOK, config
<1>5. Quiet
  <2>1. \A s \in Site : pc[s] \in {"offer", "wait"} => sId_Local[s] # NoId
    BY DEF HandshakeInv, Configured
  <2> QED BY <1>1, <1>2, <1>3, <2>1 DEF Quiet, Open
<1>6. \A s \in Site : Messages(s)' = Messages(s)
  BY <1>1 DEF Messages
<1> QED BY <1>4, <1>5, <1>6, QuietStep

(* The listener starts a session on the connection.                        *)
LEMMA StartLeaderStep ==
  ASSUME HandshakeInv, StartLeader PROVE HandshakeInv'
<1> USE DEF Site
<1>1. TypeOK /\ UNCHANGED <<config, sId_Remote, cipher, wire, cut>>
  BY DEF HandshakeInv, StartLeader
<1>2. pc[Leader] = "idle" /\ \A s \in Site : s # Leader => pc'[s] = pc[s]
  BY <1>1 DEF StartLeader, Goto, TypeOK
<1>3. pc'[Leader] = "closed" \/ (pc'[Leader] = "wait" /\ sId_Local[Leader] # NoId)
  BY <1>1 DEF StartLeader, Goto, TypeOK
<1>4. TypeOK'
  <2>1. pc' = [pc EXCEPT ![Leader] = "closed"] \/ pc' = [pc EXCEPT ![Leader] = "wait"]
    BY DEF StartLeader, Goto
  <2>2. flux' \in [Site -> BOOLEAN]
    BY <1>1 DEF StartLeader, TypeOK
  <2> QED BY <1>1, <2>1, <2>2 DEF TypeOK, config
<1>5. Quiet
  <2>1. \A s \in Site : pc[s] \in {"offer", "wait"} => sId_Local[s] # NoId
    BY DEF HandshakeInv, Configured
  <2> QED BY <1>1, <1>2, <1>3, <2>1 DEF Quiet, Open
<1>6. \A s \in Site : Messages(s)' = Messages(s)
  BY <1>1 DEF Messages
<1> QED BY <1>4, <1>5, <1>6, QuietStep

(* A wait fails, the transport is stopped, the threads run, a running      *)
(* session is lost.                                                        *)
LEMMA ExchangeStep ==
  ASSUME HandshakeInv, NEW s \in Site, Exchange(s) PROVE HandshakeInv'
<1>1. TypeOK /\ UNCHANGED <<config, sId_Remote, cipher, wire, cut>>
  BY DEF HandshakeInv, Exchange, WaitFails, StopTransport, RunThreads, ReceiveLost
<1>2. /\ flux' \in [Site -> BOOLEAN]
      /\ \E label \in {"running", "failed", "closed", "lost", "crashed"} :
            /\ pc' = [pc EXCEPT ![s] = label]
            /\ label \in Open <=> pc[s] \in Open
  <2>1. CASE WaitFails(s)
    BY <1>1, <2>1 DEF WaitFails, LeaderRefuses, Goto, Open, TypeOK
  <2>2. CASE StopTransport(s)
    BY <1>1, <2>2 DEF StopTransport, Open, TypeOK
  <2>3. CASE RunThreads(s)
    BY <1>1, <2>3 DEF RunThreads, Goto, Open, TypeOK
  <2>4. CASE ReceiveLost(s)
    BY <1>1, <2>4 DEF ReceiveLost, Goto, Open, TypeOK
  <2> QED BY <2>1, <2>2, <2>3, <2>4 DEF Exchange
<1>3. PICK label \in {"running", "failed", "closed", "lost", "crashed"} :
         /\ pc' = [pc EXCEPT ![s] = label]
         /\ label \in Open <=> pc[s] \in Open
  BY <1>2
<1>4. TypeOK'
  BY <1>1, <1>2, <1>3 DEF TypeOK, config
<1>5. Quiet
  <2>1. \A q \in Site : pc[q] \in {"offer", "wait"} => sId_Local[q] # NoId
    BY DEF HandshakeInv, Configured
  <2>2. pc'[s] = label /\ \A q \in Site : q # s => pc'[q] = pc[q]
    BY <1>1, <1>3 DEF TypeOK
  <2>3. \A q \in Site : cipher'[q] = cipher[q] /\ sId_Remote'[q] = sId_Remote[q]
    BY <1>1
  <2>4. \A q \in Site : /\ pc'[q] \in Open <=> pc[q] \in Open
                        /\ pc'[q] \in {"offer", "wait"} => pc[q] \in {"offer", "wait"}
    BY <1>3, <2>2
  <2> QED BY <1>1, <2>1, <2>3, <2>4 DEF Quiet
<1>6. \A q \in Site : Messages(q)' = Messages(q)
  BY <1>1 DEF Messages
<1> QED BY <1>4, <1>5, <1>6, QuietStep DEF Site

(* The connection breaks.                                                  *)
LEMMA CutStep ==
  ASSUME HandshakeInv, Cut PROVE HandshakeInv'
<1>1. TypeOK /\ UNCHANGED <<config, sId_Remote, pc, cipher, flux>> /\ cut' = TRUE
  BY DEF HandshakeInv, Cut
<1>2. PICK arrives \in SUBSET Site :
         wire' = [s \in Site |-> IF s \in arrives THEN wire[s] ELSE <<>>]
  BY DEF Cut
<1>3. \A s \in Site : wire'[s] = wire[s] \/ wire'[s] = <<>>
  BY <1>2
<1>4. wire' \in [Site -> Seq(CipherAgreement)]
  <2>1. \A s \in Site : wire[s] \in Seq(CipherAgreement) /\ <<>> \in Seq(CipherAgreement)
    BY <1>1 DEF TypeOK
  <2> QED BY <1>2, <2>1
<1>5. TypeOK'
  BY <1>1, <1>4 DEF TypeOK, config
<1>6. Quiet
  <2>1. \A s \in Site : pc[s] \in {"offer", "wait"} => sId_Local[s] # NoId
    BY DEF HandshakeInv, Configured
  <2> QED BY <1>1, <2>1 DEF Quiet
<1>7. \A s \in Site : Messages(s)' \subseteq Messages(s)
  BY <1>3 DEF Messages
<1> QED BY <1>5, <1>6, <1>7, QuietStep DEF Site

(* The follower sends its offer, or gives up.                              *)
LEMMA FollowerOfferStep ==
  ASSUME HandshakeInv, FollowerOffer PROVE HandshakeInv'
<1> DEFINE msg == Agreement(Follower, Offer)
<1>1. TypeOK /\ UNCHANGED <<config, sId_Remote, cipher, flux, cut>>
  BY DEF HandshakeInv, FollowerOffer
<1>2. Follower \in Site /\ Leader \in Site /\ Peer(Follower) = Leader
  BY SitesDiffer DEF Site, Peer
<1>3. pc[Follower] = "offer" /\ sId_Local[Follower] # NoId
  BY <1>2 DEF FollowerOffer, HandshakeInv, Configured
<1>4. msg \in CipherAgreement
  BY <1>1, <1>2, <1>3, OfferTyped, AgreementTyped
<1>5. wire' = wire \/ wire' = transport_payload_write(Follower, msg)
  BY DEF FollowerOffer, Offer
<1> HIDE DEF msg
<1>6. /\ wire' \in [Site -> Seq(CipherAgreement)]
      /\ \/ wire' = wire
         \/ wire'[Leader] = Append(wire[Leader], msg) /\ wire'[Follower] = wire[Follower]
  BY <1>1, <1>2, <1>4, <1>5, Written DEF TypeOK
<1>7. pc' = [pc EXCEPT ![Follower] = "failed"] \/ pc' = [pc EXCEPT ![Follower] = "wait"]
  BY DEF FollowerOffer, Goto
<1>8. TypeOK'
  BY <1>1, <1>6, <1>7 DEF TypeOK, config
<1>9. Quiet
  <2>1. \A s \in Site : pc[s] \in {"offer", "wait"} => sId_Local[s] # NoId
    BY DEF HandshakeInv, Configured
  <2>2. /\ pc'[Follower] \in {"failed", "wait"}
        /\ \A s \in Site : s # Follower => pc'[s] = pc[s]
    BY <1>1, <1>2, <1>7 DEF TypeOK
  <2> QED BY <1>1, <1>3, <2>1, <2>2 DEF Quiet, Open
<1>10. Messages(Follower)' \subseteq Messages(Follower)
  BY <1>6 DEF Messages
<1>11. \A m \in Messages(Leader)' : m \in Messages(Leader) \/ m = msg
  <2>1. wire[Leader] \in Seq(CipherAgreement)
    BY <1>1, <1>2 DEF TypeOK
  <2>2. CASE wire' = wire
    BY <2>2 DEF Messages
  <2>3. CASE wire'[Leader] = Append(wire[Leader], msg)
    BY <1>4, <2>1, <2>3, Reading DEF Messages
  <2> QED BY <1>6, <2>2, <2>3
<1> QED BY <1>8, <1>9, <1>10, <1>11, QuietStep DEF msg

(* Another implementation sends its message.                               *)
LEMMA ForeignSendStep ==
  ASSUME HandshakeInv, NEW s \in Site, ForeignSend(s) PROVE HandshakeInv'
<1>1. /\ TypeOK /\ UNCHANGED <<config, sId_Remote, cipher, flux, cut>>
      /\ s \in foreign /\ pc' = [pc EXCEPT ![s] = "agreed"]
  BY DEF HandshakeInv, ForeignSend, Goto
<1>2. PICK id \in Id, list \in ForeignLists :
         wire' = transport_payload_write(s, [sId |-> id, cipher |-> list])
  BY DEF ForeignSend
<1>3. [sId |-> id, cipher |-> list] \in CipherAgreement
  BY ForeignAssumption DEF CipherAgreement
<1>4. wire' \in [Site -> Seq(CipherAgreement)]
  BY <1>1, <1>2, <1>3, Written
<1>5. TypeOK'
  BY <1>1, <1>4 DEF TypeOK, config
<1>6. pc'[s] = "agreed" /\ \A q \in Site : q # s => pc'[q] = pc[q]
  BY <1>1 DEF TypeOK
<1>7. NeverDisabledCipher'
  BY <1>1, <1>6 DEF HandshakeInv, NeverDisabledCipher, config, Open
<1>8. \A q \in Site : pc'[q] \in {"offer", "wait"} => sId_Local[q] # NoId
  BY <1>6 DEF HandshakeInv, Configured
<1> QED BY <1>1, <1>5, <1>7, <1>8, ForeignStep

(* The follower checks the answer.                                         *)
LEMMA FollowerChoiceStep ==
  ASSUME HandshakeInv, FollowerChoice PROVE HandshakeInv'
<1> DEFINE msg == Head(wire[Follower])
           chosen == cipher_get_by_str(Follower, Head(msg.cipher))
<1>1. /\ TypeOK /\ UNCHANGED <<config, flux, cut>> /\ pc[Follower] = "wait"
      /\ Follower \notin foreign /\ wire[Follower] # <<>>
      /\ wire' = [wire EXCEPT ![Follower] = Tail(@)]
  BY DEF HandshakeInv, FollowerChoice, transport_payload_read
<1>2. Follower \in Site /\ Leader \in Site /\ Peer(Follower) = Leader /\ Follower # Leader
  BY SitesDiffer DEF Site, Peer
<1>3. \A s \in Site : s = Follower \/ s = Leader
  BY DEF Site
<1>4. wire[Follower] \in Seq(CipherAgreement)
  BY <1>1, <1>2 DEF TypeOK
<1>5. /\ msg \in CipherAgreement /\ msg \in Messages(Follower)
      /\ Tail(wire[Follower]) \in Seq(CipherAgreement)
      /\ \A i \in DOMAIN Tail(wire[Follower]) : Tail(wire[Follower])[i] \in Messages(Follower)
  BY <1>1, <1>4, Reading DEF Messages
<1>6. msg.sId \in Id /\ msg.cipher \in Seq(Cipher)
  BY <1>5 DEF CipherAgreement
<1>7. /\ wire' \in [Site -> Seq(CipherAgreement)]
      /\ wire'[Follower] = Tail(wire[Follower]) /\ wire'[Leader] = wire[Leader]
  BY <1>1, <1>2, <1>5 DEF TypeOK
<1>8. Messages(Leader)' = Messages(Leader) /\ Messages(Follower)' \subseteq Messages(Follower)
  BY <1>5, <1>7 DEF Messages
<1>9. \A s \in Site : pc[s] \in {"offer", "wait"} => sId_Local[s] # NoId
  BY DEF HandshakeInv, Configured
<1>10. \/ /\ pc' = [pc EXCEPT ![Follower] = "failed"]
          /\ sId_Remote' \in {sId_Remote, RemoteLearnt(Follower, msg)}
          /\ cipher' = cipher \/ (/\ msg.cipher # <<>>
                                  /\ cipher' = [cipher EXCEPT ![Follower] = chosen])
       \/ /\ pc' = [pc EXCEPT ![Follower] = "agreed"] /\ chosen \in enabled[Follower]
          /\ msg.cipher # <<>> /\ RemoteAccepted(Follower, msg)
          /\ sId_Remote' = RemoteLearnt(Follower, msg)
          /\ cipher' = [cipher EXCEPT ![Follower] = chosen]
  BY DEF FollowerChoice, CipherAgreement_deserial, Goto
<1> HIDE DEF msg
<1>11. RemoteLearnt(Follower, msg) \in [Site -> Id \union {NoId}]
  BY <1>1, <1>6 DEF TypeOK, RemoteLearnt
<1>12. chosen \in Cipher \union {NoCipher}
  BY DEF cipher_get_by_str, Cipher
<1> HIDE DEF chosen
<1>13. TypeOK'
  BY <1>1, <1>7, <1>10, <1>11, <1>12 DEF TypeOK, config
<1>14. /\ \A s \in Site : s # Follower => /\ pc'[s] = pc[s] /\ cipher'[s] = cipher[s]
                                          /\ sId_Remote'[s] = sId_Remote[s]
       /\ pc'[Follower] \in {"failed", "agreed"}
  BY <1>1, <1>2, <1>10 DEF TypeOK, RemoteLearnt
<1>15. CASE pc'[Follower] = "failed"
  <2>1. Quiet
    BY <1>1, <1>9, <1>14, <1>15 DEF Quiet, Open
  <2> QED BY <1>8, <1>13, <2>1, QuietStep
<1>16. CASE pc'[Follower] = "agreed"
  <2>1. /\ chosen \in enabled[Follower] /\ RemoteAccepted(Follower, msg)
        /\ msg.cipher # <<>>
        /\ sId_Remote' = RemoteLearnt(Follower, msg)
        /\ cipher' = [cipher EXCEPT ![Follower] = chosen]
    BY <1>1, <1>2, <1>10, <1>16 DEF TypeOK
  <2>2. cipher'[Follower] = chosen /\ sId_Remote'[Follower] = msg.sId
    BY <1>1, <1>2, <2>1 DEF TypeOK, RemoteLearnt, RemoteAccepted
  <2>3. /\ Offer' = Offer
        /\ \A list : Common(list)' = Common(list) /\ Chosen(list)' = Chosen(list)
        /\ \A s, list : Agreement(s, list)' = Agreement(s, list)
        /\ enabled' = enabled /\ sId_Local' = sId_Local /\ foreign' = foreign
    BY <1>1, ConfigKept
  <2>4. NeverDisabledCipher'
    BY <1>2, <1>3, <1>14, <2>1, <2>2, <2>3 DEF HandshakeInv, NeverDisabledCipher, Open
  <2>5. Configured'
    BY <1>3, <1>9, <1>14, <2>3 DEF HandshakeInv, Configured, CipherOf
  <2>6. CASE foreign # {}
    <3>1. \A s \in Site : pc'[s] \in {"offer", "wait"} => sId_Local[s] # NoId
      BY <1>3, <1>9, <1>14
    <3> QED BY <1>1, <1>13, <2>4, <2>6, <3>1, ForeignStep
  <2>7. CASE foreign = {}
    <3>1. pc[Leader] \in Open /\ msg = Agreement(Leader, <<cipher[Leader]>>)
      BY <1>5, <2>7 DEF HandshakeInv, InTransit
    <3>2. msg.sId = sId_Local[Leader] /\ msg.cipher = <<cipher[Leader]>>
      BY <3>1 DEF Agreement
    <3>3. chosen = cipher[Leader]
      <4>1. Head(msg.cipher) = cipher[Leader]
        BY <3>2
      <4>2. chosen \in Cipher /\ NoCipher \notin Cipher
        BY <1>1, <1>2, <2>1, TableAssumption DEF TypeOK
      <4> QED BY <4>1, <4>2 DEF chosen, cipher_get_by_str
    <3>4. KnownPeer'
      <4>1. sId_Remote'[Follower] = sId_Local[Leader]
        BY <2>2, <3>2
      <4>2. pc[Leader] \in Open => sId_Remote[Leader] = sId_Local[Peer(Leader)]
        BY <1>2, <2>7 DEF HandshakeInv, KnownPeer
      <4>3. pc'[Leader] \in Open' => sId_Remote'[Leader] = sId_Local[Peer(Leader)]
        BY <1>2, <1>14, <4>2 DEF Open
      <4> QED BY <1>2, <1>3, <2>3, <4>1, <4>3 DEF KnownPeer, Peer
    <3>5. Settled'
      <4>1. Common(Offer) # {} /\ cipher[Leader] = Chosen(Offer)
        BY <2>7, <3>1 DEF HandshakeInv, Settled
      <4> QED BY <1>2, <1>14, <2>2, <2>3, <3>1, <3>3, <4>1 DEF Settled, Open
    <3>6. InTransit'
      <4>1. /\ \A m \in Messages(Leader) : m = Agreement(Follower, Offer)
            /\ \A m \in Messages(Follower) :
                  pc[Leader] \in Open /\ m = Agreement(Leader, <<cipher[Leader]>>)
        BY <2>7 DEF HandshakeInv, InTransit
      <4>2. pc'[Leader] = pc[Leader] /\ cipher'[Leader] = cipher[Leader]
        BY <1>2, <1>14
      <4> QED BY <1>8, <2>3, <4>1, <4>2 DEF InTransit, Open
    <3> QED BY <1>13, <2>4, <2>5, <3>4, <3>5, <3>6 DEF HandshakeInv
  <2> QED BY <2>6, <2>7
<1> QED BY <1>14, <1>15, <1>16

(* The leader settles on a cipher of the offer and answers, or refuses.    *)
LEMMA LeaderChooseStep ==
  ASSUME HandshakeInv, LeaderChoose PROVE HandshakeInv'
<1> DEFINE msg == Head(wire[Leader])
           answer == Agreement(Leader, <<Chosen(msg.cipher)>>)
           unread == [wire EXCEPT ![Leader] = Tail(@)]
<1>1. /\ TypeOK /\ UNCHANGED <<config, flux, cut>> /\ pc[Leader] = "wait"
      /\ Leader \notin foreign /\ wire[Leader] # <<>>
  BY DEF HandshakeInv, LeaderChoose, transport_payload_read
<1>2. Follower \in Site /\ Leader \in Site /\ Peer(Leader) = Follower /\ Follower # Leader
  BY SitesDiffer DEF Site, Peer
<1>3. \A s \in Site : s = Follower \/ s = Leader
  BY DEF Site
<1>4. wire[Leader] \in Seq(CipherAgreement) /\ wire[Follower] \in Seq(CipherAgreement)
  BY <1>1, <1>2 DEF TypeOK
<1>5. /\ msg \in CipherAgreement /\ msg \in Messages(Leader)
      /\ Tail(wire[Leader]) \in Seq(CipherAgreement)
      /\ \A i \in DOMAIN Tail(wire[Leader]) : Tail(wire[Leader])[i] \in Messages(Leader)
  BY <1>1, <1>4, Reading DEF Messages
<1>6. msg.sId \in Id /\ msg.cipher \in Seq(Cipher)
  BY <1>5 DEF CipherAgreement
<1>7. \A s \in Site : pc[s] \in {"offer", "wait"} => sId_Local[s] # NoId
  BY DEF HandshakeInv, Configured
<1>8. \/ /\ \E label \in {"failed", "crashed"} : pc' = [pc EXCEPT ![Leader] = label]
         /\ wire' = unread /\ cipher' = cipher
         /\ sId_Remote' \in {sId_Remote, RemoteLearnt(Leader, msg)}
      \/ /\ pc' = [pc EXCEPT ![Leader] = "agreed"] /\ Common(msg.cipher) # {}
         /\ RemoteAccepted(Leader, msg)
         /\ sId_Remote' = RemoteLearnt(Leader, msg)
         /\ cipher' = [cipher EXCEPT ![Leader] = Chosen(msg.cipher)]
         /\ wire' = [transport_payload_write(Leader, answer) EXCEPT ![Leader] = Tail(@)]
  BY DEF LeaderChoose, LeaderRefuses, Goto
<1> HIDE DEF msg
<1>9. RemoteLearnt(Leader, msg) \in [Site -> Id \union {NoId}]
  BY <1>1, <1>6 DEF TypeOK, RemoteLearnt
<1>10. CASE /\ \E label \in {"failed", "crashed"} : pc' = [pc EXCEPT ![Leader] = label]
            /\ wire' = unread /\ cipher' = cipher
            /\ sId_Remote' \in {sId_Remote, RemoteLearnt(Leader, msg)}
  <2>1. /\ wire' \in [Site -> Seq(CipherAgreement)]
        /\ wire'[Leader] = Tail(wire[Leader]) /\ wire'[Follower] = wire[Follower]
    BY <1>1, <1>2, <1>5, <1>10 DEF TypeOK
  <2>2. PICK label \in {"failed", "crashed"} : pc' = [pc EXCEPT ![Leader] = label]
    BY <1>10
  <2>3. TypeOK'
    BY <1>1, <1>9, <1>10, <2>1, <2>2 DEF TypeOK, config
  <2>4. /\ pc'[Leader] = label
        /\ \A s \in Site : s # Leader => pc'[s] = pc[s] /\ sId_Remote'[s] = sId_Remote[s]
    BY <1>1, <1>2, <1>10, <2>2 DEF TypeOK, RemoteLearnt
  <2>5. Quiet
    BY <1>1, <1>7, <1>10, <2>4 DEF Quiet, Open
  <2>6. /\ Messages(Follower)' = Messages(Follower)
        /\ Messages(Leader)' \subseteq Messages(Leader)
    BY <1>5, <2>1 DEF Messages
  <2> QED BY <2>3, <2>5, <2>6, QuietStep
<1>11. CASE /\ pc' = [pc EXCEPT ![Leader] = "agreed"] /\ Common(msg.cipher) # {}
            /\ RemoteAccepted(Leader, msg)
            /\ sId_Remote' = RemoteLearnt(Leader, msg)
            /\ cipher' = [cipher EXCEPT ![Leader] = Chosen(msg.cipher)]
            /\ wire' = [transport_payload_write(Leader, answer) EXCEPT ![Leader] = Tail(@)]
  <2>1. Chosen(msg.cipher) \in Cipher /\ Chosen(msg.cipher) \in enabled[Leader]
    BY <1>6, <1>11, ChosenIsLast
  <2>2. answer \in CipherAgreement
    <3>1. <<Chosen(msg.cipher)>> \in Seq(Cipher)
      BY <2>1
    <3> QED BY <1>1, <1>2, <1>7, <3>1, AgreementTyped
  <2> DEFINE written == transport_payload_write(Leader, answer)
  <2>3. /\ written \in [Site -> Seq(CipherAgreement)] /\ written[Leader] = wire[Leader]
        /\ written[Follower] = wire[Follower] \/ written[Follower] = Append(wire[Follower], answer)
    BY <1>1, <1>2, <2>2, Written
  <2> HIDE DEF answer, written
  <2>4. /\ wire' \in [Site -> Seq(CipherAgreement)]
        /\ wire'[Leader] = Tail(wire[Leader])
        /\ wire'[Follower] = wire[Follower] \/ wire'[Follower] = Append(wire[Follower], answer)
    BY <1>2, <1>5, <1>11, <2>3 DEF written
  <2>5. TypeOK'
    BY <1>1, <1>9, <1>11, <2>1, <2>4 DEF TypeOK, config
  <2>6. /\ pc'[Leader] = "agreed" /\ pc'[Follower] = pc[Follower]
        /\ cipher'[Leader] = Chosen(msg.cipher) /\ cipher'[Follower] = cipher[Follower]
        /\ sId_Remote'[Leader] = msg.sId /\ sId_Remote'[Follower] = sId_Remote[Follower]
    BY <1>1, <1>2, <1>11 DEF TypeOK, RemoteLearnt, RemoteAccepted
  <2>7. /\ Offer' = Offer
        /\ \A list : Common(list)' = Common(list) /\ Chosen(list)' = Chosen(list)
        /\ \A s, list : Agreement(s, list)' = Agreement(s, list)
        /\ enabled' = enabled /\ sId_Local' = sId_Local /\ foreign' = foreign
    BY <1>1, ConfigKept
  <2>8. NeverDisabledCipher'
    BY <1>2, <1>3, <2>1, <2>6, <2>7 DEF HandshakeInv, NeverDisabledCipher, Open
  <2>9. \A s \in Site : pc'[s] \in {"offer", "wait"} => sId_Local[s] # NoId
    BY <1>3, <1>7, <2>6
  <2>10. CASE foreign # {}
    BY <1>1, <2>5, <2>8, <2>9, <2>10, ForeignStep
  <2>11. CASE foreign = {}
    <3>1. msg = Agreement(Follower, Offer)
      BY <1>5, <2>11 DEF HandshakeInv, InTransit
    <3>2. msg.sId = sId_Local[Follower] /\ msg.cipher = Offer
      BY <3>1 DEF Agreement
    <3>3. Configured'
      BY <2>7, <2>9 DEF HandshakeInv, Configured, CipherOf
    <3>4. pc[Leader] \notin Open
      BY <1>1 DEF Open
    <3>5. pc[Follower] \notin Open
      BY <2>11, <3>4 DEF HandshakeInv, Settled
    <3>6. KnownPeer'
      BY <1>2, <1>3, <2>6, <2>7, <3>2, <3>5 DEF KnownPeer, Open
    <3>7. Settled'
      BY <1>11, <2>6, <2>7, <3>2, <3>5 DEF Settled, Open
    <3>8. InTransit'
      <4>1. /\ \A m \in Messages(Leader) : m = Agreement(Follower, Offer)
            /\ Messages(Follower) = {}
        BY <2>11, <3>4 DEF HandshakeInv, InTransit
      <4>2. \A m \in Messages(Leader)' : m = Agreement(Follower, Offer)
        BY <1>5, <2>4, <4>1 DEF Messages
      <4>3. \A m \in Messages(Follower)' : m \in Messages(Follower) \/ m = answer
        <5>1. CASE wire'[Follower] = wire[Follower]
          BY <5>1 DEF Messages
        <5>2. CASE wire'[Follower] = Append(wire[Follower], answer)
          BY <1>4, <2>2, <5>2, Reading DEF Messages
        <5> QED BY <2>4, <5>1, <5>2
      <4>4. answer = Agreement(Leader, <<cipher'[Leader]>>)
        BY <2>6 DEF answer
      <4> QED BY <2>6, <2>7, <4>1, <4>2, <4>3, <4>4 DEF InTransit, Open
    <3> QED BY <2>5, <2>8, <3>3, <3>6, <3>7, <3>8 DEF HandshakeInv
  <2> QED BY <2>10, <2>11
<1> QED BY <1>8, <1>10, <1>11

-----------------------------------------------------------------------------
(* The theorems.                                                           *)

(* In every state of a negotiation (_start on both sides, whatever the      *)
(* tables, the ciphers enabled, the identifiers and the messages of another *)
(* implementation) what is on its way is the one offer and the one answer,  *)
(* and the answer is what the leader settled on.                           *)
THEOREM HandshakeInvariant == Spec => []HandshakeInv
<1>1. HandshakeInv /\ [Next]_vars => HandshakeInv'
  <2>1. SUFFICES ASSUME HandshakeInv, [Next]_vars PROVE HandshakeInv'
    OBVIOUS
  <2>2. CASE UNCHANGED vars
    <3>1. TypeOK'
      BY <2>1, <2>2 DEF HandshakeInv, TypeOK, vars
    <3>2. Quiet
      BY <2>1, <2>2 DEF Quiet, HandshakeInv, Configured, vars, config, Open
    <3>3. \A s \in Site : Messages(s)' = Messages(s)
      BY <2>2 DEF Messages, vars
    <3> QED BY <2>1, <3>1, <3>2, <3>3, QuietStep DEF Site
  <2>3. CASE StartFollower
    BY <2>1, <2>3, StartFollowerStep
  <2>4. CASE StartLeader
    BY <2>1, <2>4, StartLeaderStep
  <2>5. CASE FollowerOffer
    BY <2>1, <2>5, FollowerOfferStep
  <2>6. CASE FollowerChoice
    BY <2>1, <2>6, FollowerChoiceStep
  <2>7. CASE LeaderChoose
    BY <2>1, <2>7, LeaderChooseStep
  <2>8. CASE \E s \in Site : Exchange(s)
    BY <2>1, <2>8, ExchangeStep
  <2>9. CASE \E s \in Site : ForeignSend(s)
    BY <2>1, <2>9, ForeignSendStep
  <2>10. CASE Cut
    BY <2>1, <2>10, CutStep
  <2> QED BY <2>1, <2>2, <2>3, <2>4, <2>5, <2>6, <2>7, <2>8, <2>9, <2>10 DEF Next
<1> QED BY <1>1, HandshakeInit, PTL DEF Spec

(* A session of the program opens on the strongest cipher both sides allow, *)
(* with the peer it knows, and never on a cipher its own command line       *)
(* disabled (cyber_exchange_follower, cyber_exchange_leader).              *)
THEOREM NegotiationHolds == Spec => []Negotiated
  BY HandshakeInvariant, InvariantSuffices, PTL
=============================================================================
