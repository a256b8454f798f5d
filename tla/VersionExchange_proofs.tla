----------------------- MODULE VersionExchange_proofs -----------------------
(***************************************************************************)
(* Proofs about the exchange of versions, for any number of timeouts and of*)
(* messages sent after it: whatever is lost and whenever a side stops, each*)
(* wait meets the message it is for and no answer is answered.             *)
(***************************************************************************)
EXTENDS VersionExchange, SequenceTheorems, TLAPS

(* What taking, putting and moving do to a stream, which is the messages   *)
(* received followed by those on their way.                                *)
LEMMA Joined ==
  ASSUME NEW S, NEW e \in Seq(S), NEW n \in Seq(S)
  PROVE  /\ e \o n \in Seq(S) /\ Len(e \o n) = Len(e) + Len(n)
         /\ \A i \in 1 .. Len(e) : (e \o n)[i] = e[i]
         /\ \A i \in 1 .. Len(n) : (e \o n)[Len(e) + i] = n[i]
         /\ \A i \in 1 .. Len(e) + Len(n) :
              (e \o n)[i] = IF i <= Len(e) THEN e[i] ELSE n[i - Len(e)]
         /\ Len(e) \in Nat /\ Len(n) \in Nat
<1>1. Len(e) \in Nat /\ Len(n) \in Nat
  BY LenProperties
<1>2. /\ e \o n \in Seq(S) /\ Len(e \o n) = Len(e) + Len(n)
      /\ \A i \in 1 .. Len(e) + Len(n) :
              (e \o n)[i] = IF i <= Len(e) THEN e[i] ELSE n[i - Len(e)]
  BY ConcatProperties
<1>3. \A i \in 1 .. Len(e) : (e \o n)[i] = e[i]
  BY <1>1, <1>2
<1>4. ASSUME NEW i \in 1 .. Len(n) PROVE (e \o n)[Len(e) + i] = n[i]
  <2>1. Len(e) + i \in 1 .. Len(e) + Len(n) /\ ~(Len(e) + i <= Len(e)) /\ (Len(e) + i) - Len(e) = i
    BY <1>1
  <2> QED BY <1>2, <2>1
<1> QED BY <1>1, <1>2, <1>3, <1>4

LEMMA Tailed ==
  ASSUME NEW S, NEW s \in Seq(S), s # <<>>
  PROVE  /\ Tail(s) \in Seq(S) /\ Len(Tail(s)) = Len(s) - 1 /\ Head(s) = s[1] /\ s[1] \in S
         /\ \A i \in 1 .. Len(s) - 1 : Tail(s)[i] = s[i + 1]
         /\ Len(s) \in Nat \ {0}
  BY HeadTailProperties, EmptySeq, LenProperties

LEMMA Appended ==
  ASSUME NEW S, NEW s \in Seq(S), NEW x \in S
  PROVE  /\ Append(s, x) \in Seq(S) /\ Len(Append(s, x)) = Len(s) + 1
         /\ \A i \in 1 .. Len(s) : Append(s, x)[i] = s[i]
         /\ Append(s, x)[Len(s) + 1] = x
         /\ Len(s) \in Nat
  BY AppendProperties, LenProperties

LEMMA SameSeq ==
  ASSUME NEW S, NEW s \in Seq(S), NEW t \in Seq(S), Len(s) = Len(t),
         \A i \in 1 .. Len(s) : s[i] = t[i]
  PROVE  s = t
  BY SeqEqual

LEMMA StreamTaken ==
  ASSUME NEW S, NEW e \in Seq(S), NEW n \in Seq(S), e # <<>>
  PROVE  /\ Tail(e) \o n = Tail(e \o n) /\ e \o n # <<>> /\ (e \o n)[1] = Head(e)
<1>1. /\ Tail(e) \in Seq(S) /\ Len(Tail(e)) = Len(e) - 1 /\ Len(e) \in Nat \ {0} /\ Head(e) = e[1]
      /\ \A i \in 1 .. Len(e) - 1 : Tail(e)[i] = e[i + 1]
  BY Tailed
<1>2. /\ e \o n \in Seq(S) /\ Len(e \o n) = Len(e) + Len(n) /\ Len(n) \in Nat
      /\ \A i \in 1 .. Len(e) + Len(n) :
              (e \o n)[i] = IF i <= Len(e) THEN e[i] ELSE n[i - Len(e)]
  BY Joined
<1>3. e \o n # <<>> /\ (e \o n)[1] = Head(e)
  BY <1>1, <1>2, EmptySeq
<1>4. /\ Tail(e \o n) \in Seq(S) /\ Len(Tail(e \o n)) = Len(e) + Len(n) - 1
      /\ \A i \in 1 .. Len(e) + Len(n) - 1 : Tail(e \o n)[i] = (e \o n)[i + 1]
  BY <1>2, <1>3, Tailed
<1>5. /\ Tail(e) \o n \in Seq(S) /\ Len(Tail(e) \o n) = Len(e) - 1 + Len(n)
      /\ \A i \in 1 .. Len(e) - 1 + Len(n) :
              (Tail(e) \o n)[i] = IF i <= Len(e) - 1 THEN Tail(e)[i] ELSE n[i - (Len(e) - 1)]
  BY <1>1, Joined
<1>6. ASSUME NEW i \in 1 .. Len(e) + Len(n) - 1 PROVE (Tail(e) \o n)[i] = Tail(e \o n)[i]
  <2>1. Tail(e \o n)[i] = IF i + 1 <= Len(e) THEN e[i + 1] ELSE n[(i + 1) - Len(e)]
    BY <1>1, <1>2, <1>4
  <2>2. (Tail(e) \o n)[i] = IF i <= Len(e) - 1 THEN Tail(e)[i] ELSE n[i - (Len(e) - 1)]
    BY <1>1, <1>2, <1>5
  <2>3. (i + 1) - Len(e) = i - (Len(e) - 1) /\ (i + 1 <= Len(e) <=> i <= Len(e) - 1)
    BY <1>1
  <2> QED BY <1>1, <2>1, <2>2, <2>3
<1> QED BY <1>1, <1>2, <1>3, <1>4, <1>5, <1>6, SameSeq

LEMMA StreamPut ==
  ASSUME NEW S, NEW e \in Seq(S), NEW n \in Seq(S), NEW x \in S
  PROVE  e \o Append(n, x) = Append(e \o n, x)
<1>1. /\ Append(n, x) \in Seq(S) /\ Len(Append(n, x)) = Len(n) + 1
      /\ \A i \in 1 .. Len(n) : Append(n, x)[i] = n[i]
      /\ Append(n, x)[Len(n) + 1] = x
  BY Appended
<1>2. /\ e \o n \in Seq(S) /\ Len(e \o n) = Len(e) + Len(n) /\ Len(n) \in Nat /\ Len(e) \in Nat
      /\ \A i \in 1 .. Len(e) + Len(n) :
              (e \o n)[i] = IF i <= Len(e) THEN e[i] ELSE n[i - Len(e)]
  BY Joined
<1>3. /\ Append(e \o n, x) \in Seq(S) /\ Len(Append(e \o n, x)) = Len(e) + Len(n) + 1
      /\ \A i \in 1 .. Len(e) + Len(n) : Append(e \o n, x)[i] = (e \o n)[i]
      /\ Append(e \o n, x)[Len(e) + Len(n) + 1] = x
  BY <1>2, Appended
<1>4. /\ e \o Append(n, x) \in Seq(S) /\ Len(e \o Append(n, x)) = Len(e) + (Len(n) + 1)
      /\ \A i \in 1 .. Len(e) + (Len(n) + 1) :
              (e \o Append(n, x))[i] = IF i <= Len(e) THEN e[i] ELSE Append(n, x)[i - Len(e)]
  BY <1>1, Joined
<1>5. ASSUME NEW i \in 1 .. Len(e) + (Len(n) + 1) PROVE (e \o Append(n, x))[i] = Append(e \o n, x)[i]
  <2>1. CASE i <= Len(e)
    BY <1>2, <1>3, <1>4, <2>1
  <2>2. CASE i > Len(e) /\ i <= Len(e) + Len(n)
    <3>1. i - Len(e) \in 1 .. Len(n) /\ ~(i <= Len(e)) /\ i \in 1 .. Len(e) + Len(n)
      BY <1>2, <2>2
    <3> QED BY <1>1, <1>2, <1>3, <1>4, <3>1
  <2>3. CASE i = Len(e) + Len(n) + 1
    <3>1. i - Len(e) = Len(n) + 1 /\ ~(i <= Len(e))
      BY <1>2, <2>3
    <3> QED BY <1>1, <1>3, <1>4, <2>3, <3>1
  <2> QED BY <1>2, <2>1, <2>2, <2>3
<1>6. Len(e) + (Len(n) + 1) = Len(e) + Len(n) + 1
  BY <1>2
<1> QED BY <1>3, <1>4, <1>5, <1>6, SameSeq

LEMMA StreamMoved ==
  ASSUME NEW S, NEW e \in Seq(S), NEW n \in Seq(S), n # <<>>
  PROVE  /\ Append(e, Head(n)) \o Tail(n) = e \o n
         /\ e \o n # <<>> /\ (e \o n)[Len(e) + 1] = Head(n) /\ Head(n) \in S
<1>1. /\ Tail(n) \in Seq(S) /\ Len(Tail(n)) = Len(n) - 1 /\ Len(n) \in Nat \ {0}
      /\ Head(n) = n[1] /\ n[1] \in S
      /\ \A i \in 1 .. Len(n) - 1 : Tail(n)[i] = n[i + 1]
  BY Tailed
<1> DEFINE x == Head(n)
<1>2. /\ Append(e, x) \in Seq(S) /\ Len(Append(e, x)) = Len(e) + 1 /\ Len(e) \in Nat
      /\ \A i \in 1 .. Len(e) : Append(e, x)[i] = e[i]
      /\ Append(e, x)[Len(e) + 1] = x
  BY <1>1, Appended
<1>3. /\ e \o n \in Seq(S) /\ Len(e \o n) = Len(e) + Len(n)
      /\ \A i \in 1 .. Len(e) + Len(n) :
              (e \o n)[i] = IF i <= Len(e) THEN e[i] ELSE n[i - Len(e)]
      /\ \A i \in 1 .. Len(n) : (e \o n)[Len(e) + i] = n[i]
  BY Joined
<1>4. /\ Append(e, x) \o Tail(n) \in Seq(S)
      /\ Len(Append(e, x) \o Tail(n)) = Len(e) + 1 + (Len(n) - 1)
      /\ \A i \in 1 .. Len(e) + 1 + (Len(n) - 1) :
              (Append(e, x) \o Tail(n))[i] = IF i <= Len(e) + 1 THEN Append(e, x)[i]
                                             ELSE Tail(n)[i - (Len(e) + 1)]
  BY <1>1, <1>2, Joined
<1>5. Len(e) + 1 + (Len(n) - 1) = Len(e) + Len(n)
  BY <1>1, <1>2
<1>6. ASSUME NEW i \in 1 .. Len(e) + Len(n) PROVE (Append(e, x) \o Tail(n))[i] = (e \o n)[i]
  <2> HIDE DEF x
  <2>1. CASE i <= Len(e)
    <3>1. i <= Len(e) + 1 /\ i \in 1 .. Len(e)
      BY <1>2, <2>1
    <3> QED BY <1>2, <1>3, <1>4, <1>5, <2>1, <3>1
  <2>2. CASE i = Len(e) + 1
    <3>1. ~(i <= Len(e)) /\ i - Len(e) = 1
      BY <1>2, <2>2
    <3>2. (e \o n)[i] = n[1]
      BY <1>3, <3>1
    <3>3. (Append(e, x) \o Tail(n))[i] = x
      BY <1>2, <1>4, <1>5, <2>2
    <3> QED BY <1>1, <3>2, <3>3 DEF x
  <2>3. CASE i > Len(e) + 1
    <3>1. /\ ~(i <= Len(e)) /\ ~(i <= Len(e) + 1) /\ i - (Len(e) + 1) \in 1 .. Len(n) - 1
          /\ (i - (Len(e) + 1)) + 1 = i - Len(e)
      BY <1>1, <1>2, <2>3
    <3>2. (e \o n)[i] = n[i - Len(e)]
      BY <1>3, <3>1
    <3>3. (Append(e, x) \o Tail(n))[i] = Tail(n)[i - (Len(e) + 1)]
      BY <1>4, <1>5, <3>1
    <3> QED BY <1>1, <3>1, <3>2, <3>3
  <2> QED BY <1>2, <2>1, <2>2, <2>3
<1>7. e \o n # <<>> /\ (e \o n)[Len(e) + 1] = x
  BY <1>1, <1>2, <1>3, EmptySeq
<1> QED BY <1>1, <1>3, <1>4, <1>5, <1>6, <1>7, SameSeq
-----------------------------------------------------------------------------
(* The numbering of a stream, and the answers in it, as messages are taken *)
(* from its head and put at its end.                                       *)
LEMMA Fields ==
  /\ \A m \in Msg : m.kind \in Kind /\ m.mId \in Nat /\ m.oMId \in Nat
  /\ \A st \in Seq(Msg) : Len(st) \in Nat /\ \A i \in 1 .. Len(st) :
        st[i] \in Msg /\ st[i].kind \in Kind /\ st[i].mId \in Nat /\ st[i].oMId \in Nat
<1>1. \A m \in Msg : m.kind \in Kind /\ m.mId \in Nat /\ m.oMId \in Nat
  BY DEF Msg
<1>2. \A st \in Seq(Msg) : Len(st) \in Nat /\ \A i \in 1 .. Len(st) : st[i] \in Msg
  BY LenProperties
<1> QED BY <1>1, <1>2

LEMMA ConsecutiveTail ==
  ASSUME NEW st \in Seq(Msg), NEW out \in Seq(Kind), st # <<>>, Consecutive(st, out)
  PROVE  Consecutive(Tail(st), out)
<1>1. /\ Len(Tail(st)) = Len(st) - 1 /\ Len(st) \in Nat \ {0}
      /\ \A i \in 1 .. Len(st) - 1 : Tail(st)[i] = st[i + 1]
  BY Tailed
<1>2. \A i \in 1 .. Len(st) : st[i].mId \in Nat
  BY Fields
<1> SUFFICES ASSUME NEW i \in 1 .. Len(st) - 1
             PROVE  /\ Tail(st)[i].mId = Tail(st)[1].mId + i - 1
                    /\ Tail(st)[i].kind = "AllClear" <=> Tail(st)[i].mId = 0
                    /\ Tail(st)[i].mId > 0 => /\ Tail(st)[i].mId <= Len(out)
                                              /\ out[Tail(st)[i].mId] = Tail(st)[i].kind
  BY <1>1 DEF Consecutive
<1>3. 1 \in 1 .. Len(st) /\ 1 \in 1 .. Len(st) - 1 /\ 2 \in 1 .. Len(st) /\ i + 1 \in 1 .. Len(st)
  BY <1>1
<1>4. Tail(st)[i] = st[i + 1] /\ Tail(st)[1] = st[2]
  BY <1>1, <1>3
<1>5. st[i + 1].mId = st[1].mId + (i + 1) - 1 /\ st[2].mId = st[1].mId + 2 - 1
  BY <1>3 DEF Consecutive
<1>6. st[i + 1].mId = st[2].mId + i - 1
  BY <1>2, <1>3, <1>5
<1> QED BY <1>3, <1>4, <1>6 DEF Consecutive

LEMMA ConsecutiveOut ==
  ASSUME NEW st \in Seq(Msg), NEW out \in Seq(Kind), NEW k \in Kind, Consecutive(st, out)
  PROVE  Consecutive(st, Append(out, k))
<1>1. /\ Len(Append(out, k)) = Len(out) + 1 /\ Len(out) \in Nat
      /\ \A i \in 1 .. Len(out) : Append(out, k)[i] = out[i]
  BY Appended
<1>2. \A i \in 1 .. Len(st) : st[i].mId \in Nat
  BY Fields
<1> QED BY <1>1, <1>2 DEF Consecutive

LEMMA ConsecutivePut ==
  ASSUME NEW st \in Seq(Msg), NEW out \in Seq(Kind), NEW m \in Msg, Consecutive(st, out),
         m.kind # "AllClear", m.mId = Len(out) + 1,
         st # <<>> => st[1].mId + Len(st) = Len(out) + 1
  PROVE  Consecutive(Append(st, m), Append(out, m.kind))
<1> DEFINE k == m.kind
<1>1. k \in Kind
  BY DEF Msg
<1>2. /\ Len(Append(out, k)) = Len(out) + 1 /\ Len(out) \in Nat
      /\ \A i \in 1 .. Len(out) : Append(out, k)[i] = out[i]
      /\ Append(out, k)[Len(out) + 1] = k
  BY <1>1, Appended
<1>3. /\ Len(Append(st, m)) = Len(st) + 1 /\ Len(st) \in Nat
      /\ \A i \in 1 .. Len(st) : Append(st, m)[i] = st[i]
      /\ Append(st, m)[Len(st) + 1] = m
  BY Appended
<1>4. Consecutive(st, Append(out, k))
  BY <1>1, ConsecutiveOut
<1> SUFFICES ASSUME NEW i \in 1 .. Len(st) + 1
             PROVE  /\ Append(st, m)[i].mId = Append(st, m)[1].mId + i - 1
                    /\ Append(st, m)[i].kind = "AllClear" <=> Append(st, m)[i].mId = 0
                    /\ Append(st, m)[i].mId > 0 =>
                          /\ Append(st, m)[i].mId <= Len(Append(out, k))
                          /\ Append(out, k)[Append(st, m)[i].mId] = Append(st, m)[i].kind
  BY <1>3 DEF Consecutive
<1>5. CASE i <= Len(st)
  <2>1. i \in 1 .. Len(st) /\ 1 \in 1 .. Len(st)
    BY <1>3, <1>5
  <2>2. Append(st, m)[i] = st[i] /\ Append(st, m)[1] = st[1]
    BY <1>3, <2>1
  <2> QED BY <1>4, <2>1, <2>2 DEF Consecutive
<1>6. CASE i = Len(st) + 1
  <2>1. Append(st, m)[i] = m
    BY <1>3, <1>6
  <2>2. m.mId = Append(st, m)[1].mId + i - 1
    <3>1. CASE st = <<>>
      <4>1. Len(st) = 0
        BY <3>1
      <4>2. i = 1
        BY <1>6, <4>1
      <4> QED BY <1>2, <2>1, <4>2
    <3>2. CASE st # <<>>
      <4>1. 1 \in 1 .. Len(st)
        BY <3>2, Tailed
      <4>2. Append(st, m)[1] = st[1] /\ st[1].mId \in Nat
        BY <1>3, <4>1, Fields
      <4>3. st[1].mId + Len(st) = Len(out) + 1
        BY <3>2
      <4> QED BY <1>2, <1>3, <1>6, <4>2, <4>3
    <3> QED BY <3>1, <3>2
  <2> QED BY <1>2, <2>1, <2>2
<1>7. i <= Len(st) \/ i = Len(st) + 1
  BY <1>3
<1> QED BY <1>5, <1>6, <1>7

LEMMA AnsweringTail ==
  ASSUME NEW st \in Seq(Msg), NEW out \in Seq(Kind), NEW back \in Seq(Msg), st # <<>>,
         Answering(st, out, back)
  PROVE  Answering(Tail(st), out, back)
<1>1. /\ Len(Tail(st)) = Len(st) - 1 /\ Len(st) \in Nat \ {0}
      /\ \A i \in 1 .. Len(st) - 1 : Tail(st)[i] = st[i + 1]
  BY Tailed
<1>2. \A i \in 1 .. Len(st) - 1 : i + 1 \in 1 .. Len(st)
  BY <1>1
<1>3. \A i, j \in 1 .. Len(st) - 1 : j > i => j + 1 > i + 1
  BY <1>1
<1> QED BY <1>1, <1>2, <1>3 DEF Answering

LEMMA AnsweringBackTail ==
  ASSUME NEW st \in Seq(Msg), NEW out \in Seq(Kind), NEW back \in Seq(Msg), back # <<>>,
         Answering(st, out, back)
  PROVE  Answering(st, out, Tail(back))
<1>1. /\ Len(Tail(back)) = Len(back) - 1 /\ Len(back) \in Nat \ {0}
      /\ \A i \in 1 .. Len(back) - 1 : Tail(back)[i] = back[i + 1]
  BY Tailed
<1>2. \A i \in 1 .. Len(back) - 1 : i + 1 \in 1 .. Len(back)
  BY <1>1
<1> QED BY <1>1, <1>2 DEF Answering

LEMMA AnsweringOut ==
  ASSUME NEW st \in Seq(Msg), NEW out \in Seq(Kind), NEW back \in Seq(Msg), NEW k \in Kind,
         Answering(st, out, back)
  PROVE  Answering(st, Append(out, k), back)
<1>1. /\ Len(Append(out, k)) = Len(out) + 1 /\ Len(out) \in Nat
      /\ \A i \in 1 .. Len(out) : Append(out, k)[i] = out[i]
  BY Appended
<1>2. \A n \in 1 .. Len(out) : n \in 1 .. Len(out) + 1
  BY <1>1
<1> QED BY <1>1, <1>2 DEF Answering

LEMMA AnsweringBackPut ==
  ASSUME NEW st \in Seq(Msg), NEW out \in Seq(Kind), NEW back \in Seq(Msg), NEW m \in Msg,
         m.mId > Len(out), Answering(st, out, back)
  PROVE  Answering(st, out, Append(back, m))
<1>1. /\ Len(Append(back, m)) = Len(back) + 1 /\ Len(back) \in Nat
      /\ \A i \in 1 .. Len(back) : Append(back, m)[i] = back[i]
      /\ Append(back, m)[Len(back) + 1] = m
  BY Appended
<1>2. \A n \in 1 .. Len(out) : m.mId > n
  BY LenProperties DEF Msg
<1>3. \A k \in 1 .. Len(back) + 1 : k \in 1 .. Len(back) \/ k = Len(back) + 1
  BY <1>1
<1> QED BY <1>1, <1>2, <1>3 DEF Answering

LEMMA AnsweringOther ==
  ASSUME NEW st \in Seq(Msg), NEW out \in Seq(Kind), NEW back \in Seq(Msg), NEW m \in Msg,
         m.kind \notin Answers, Answering(st, out, back)
  PROVE  Answering(Append(st, m), out, back)
<1>1. /\ Len(Append(st, m)) = Len(st) + 1 /\ Len(st) \in Nat
      /\ \A i \in 1 .. Len(st) : Append(st, m)[i] = st[i]
      /\ Append(st, m)[Len(st) + 1] = m
  BY Appended
<1>2. \A k \in 1 .. Len(st) + 1 : k \in 1 .. Len(st) \/ k = Len(st) + 1
  BY <1>1
<1> QED BY <1>1, <1>2 DEF Answering

(* The answer to the head of the stream back, which is taken.              *)
LEMMA AnsweringHead ==
  ASSUME NEW st \in Seq(Msg), NEW out \in Seq(Kind), NEW back \in Seq(Msg), NEW m \in Msg,
         Answering(st, out, back), back # <<>>, Consecutive(back, out),
         back[1].kind \in AckWanted, m.oMId = back[1].mId, m.mId <= 2 => m.oMId = m.mId
  PROVE  Answering(Append(st, m), out, Tail(back))
<1>1. /\ Len(Append(st, m)) = Len(st) + 1 /\ Len(st) \in Nat
      /\ \A i \in 1 .. Len(st) : Append(st, m)[i] = st[i]
      /\ Append(st, m)[Len(st) + 1] = m
  BY Appended
<1>2. /\ Len(Tail(back)) = Len(back) - 1 /\ Len(back) \in Nat \ {0} /\ 1 \in 1 .. Len(back)
      /\ \A i \in 1 .. Len(back) - 1 : Tail(back)[i] = back[i + 1] /\ i + 1 \in 1 .. Len(back)
      /\ \A i \in 1 .. Len(back) : back[i].mId \in Nat
  BY Tailed, Fields
<1>3. Answering(st, out, Tail(back))
  BY AnsweringBackTail
<1>4. /\ m.oMId \in 1 .. Len(out) /\ out[m.oMId] \in AckWanted /\ back[1].mId > 0
  <2>1. back[1].kind # "AllClear"
    BY DEF AckWanted
  <2>2. back[1].mId > 0
    <3>1. back[1].kind = "AllClear" <=> back[1].mId = 0
      BY <1>2 DEF Consecutive
    <3> QED BY <1>2, <2>1, <3>1
  <2>3. back[1].mId <= Len(out) /\ out[back[1].mId] = back[1].kind
    BY <1>2, <2>2 DEF Consecutive
  <2> QED BY <1>2, <2>2, <2>3, LenProperties
<1>5. \A k \in 1 .. Len(Tail(back)) : Tail(back)[k].mId > m.oMId
  <2> SUFFICES ASSUME NEW k \in 1 .. Len(back) - 1 PROVE back[k + 1].mId > back[1].mId
    BY <1>2
  <2>1. back[k + 1].mId = back[1].mId + (k + 1) - 1
    BY <1>2 DEF Consecutive
  <2> QED BY <1>2, <2>1
<1>6. \A i \in 1 .. Len(st) : st[i].kind \in Answers => m.oMId > st[i].oMId
  BY <1>2, <1>4 DEF Answering
<1> SUFFICES ASSUME NEW i \in 1 .. Len(st) + 1, Append(st, m)[i].kind \in Answers
             PROVE  /\ Append(st, m)[i].oMId \in 1 .. Len(out) /\ out[Append(st, m)[i].oMId] \in AckWanted
                    /\ Append(st, m)[i].mId <= 2 => Append(st, m)[i].oMId = Append(st, m)[i].mId
                    /\ \A k \in 1 .. Len(Tail(back)) :
                          Tail(back)[k].mId > 0 => Tail(back)[k].mId > Append(st, m)[i].oMId
                    /\ \A j \in 1 .. Len(st) + 1 : j > i /\ Append(st, m)[j].kind \in Answers =>
                          Append(st, m)[j].oMId > Append(st, m)[i].oMId
  BY <1>1 DEF Answering
<1>7. CASE i \in 1 .. Len(st)
  <2>1. Append(st, m)[i] = st[i]
    BY <1>1, <1>7
  <2>2. ASSUME NEW j \in 1 .. Len(st) + 1, j > i, Append(st, m)[j].kind \in Answers
        PROVE  Append(st, m)[j].oMId > Append(st, m)[i].oMId
    <3>1. CASE j \in 1 .. Len(st)
      <4>1. Append(st, m)[j] = st[j]
        BY <1>1, <3>1
      <4> QED BY <1>3, <1>7, <2>1, <2>2, <3>1, <4>1 DEF Answering
    <3>2. CASE j = Len(st) + 1
      BY <1>1, <1>6, <1>7, <2>1, <3>2
    <3> QED BY <1>1, <3>1, <3>2
  <2> QED BY <1>3, <1>7, <2>1, <2>2 DEF Answering
<1>8. CASE i = Len(st) + 1
  <2>1. Append(st, m)[i] = m
    BY <1>1, <1>8
  <2>2. \A j \in 1 .. Len(st) + 1 : ~(j > i)
    BY <1>1, <1>8
  <2> QED BY <1>4, <1>5, <2>1, <2>2
<1> QED BY <1>1, <1>7, <1>8
-----------------------------------------------------------------------------
(* The two sides.                                                          *)
LEMMA Peers ==
  ASSUME Follower # Leader, NEW s \in Site
  PROVE  Peer(s) \in Site /\ Peer(s) # s /\ Peer(Peer(s)) = s /\ Site = {s, Peer(s)}
  BY DEF Peer, Site

LEMMA Streams ==
  ASSUME TypeOK, NEW s \in Site
  PROVE  /\ Stream(s) \in Seq(Msg) /\ external_q[s] \in Seq(Msg) /\ net[s] \in Seq(Msg)
         /\ sent[s] \in Seq(Kind) /\ Len(sent[s]) \in Nat
         /\ Due(s) \in Nat
<1>1. external_q[s] \in Seq(Msg) /\ net[s] \in Seq(Msg) /\ sent[s] \in Seq(Kind)
  BY DEF TypeOK
<1>2. Due(s) \in Nat
  BY DEF Due
<1> QED BY <1>1, <1>2, Joined, LenProperties DEF Stream

(* What a side has not dealt with, when neither its stream nor what its    *)
(* peer sent changes, when it takes a message, and when its peer sends one.*)
LEMMA UnreadSame ==
  ASSUME NEW s \in Site, Unread(s), Stream(s)' = Stream(s), sent'[Peer(s)] = sent[Peer(s)],
         Heard(Peer(s))' => Heard(Peer(s)),
         phase'[s] \in Exchanging => phase[s] \in Exchanging /\ Due(s)' = Due(s)
  PROVE  Unread(s)'
  BY DEF Unread

LEMMA UnreadTaken ==
  ASSUME NEW s \in Site, Stream(s) \in Seq(Msg), sent[Peer(s)] \in Seq(Kind), Due(s) \in Nat,
         Unread(s), Stream(s) # <<>>, Stream(s)' = Tail(Stream(s)),
         sent'[Peer(s)] = sent[Peer(s)], Heard(Peer(s))' => Heard(Peer(s)),
         phase'[s] \in Exchanging => phase[s] \in Exchanging /\ Due(s)' = Due(s) + 1
  PROVE  Unread(s)'
<1> DEFINE st == Stream(s)
           out == sent[Peer(s)]
<1>1. /\ Tail(st) \in Seq(Msg) /\ Len(Tail(st)) = Len(st) - 1 /\ Len(st) \in Nat \ {0}
      /\ \A i \in 1 .. Len(st) - 1 : Tail(st)[i] = st[i + 1]
  BY Tailed
<1>2. Consecutive(Tail(st), out)
  BY ConsecutiveTail DEF Unread
<1>3. st[1].mId \in Nat /\ (Tail(st) # <<>> => Tail(st)[1].mId = st[1].mId + 1)
  <2>1. 1 \in 1 .. Len(st)
    BY <1>1
  <2>2. ASSUME Tail(st) # <<>> PROVE Tail(st)[1].mId = st[1].mId + 1
    <3>1. 2 \in 1 .. Len(st) /\ 1 \in 1 .. Len(st) - 1
      BY <1>1, <2>2, Tailed
    <3>2. Tail(st)[1] = st[2] /\ st[2].mId = st[1].mId + 2 - 1
      BY <1>1, <3>1 DEF Unread, Consecutive
    <3>3. st[1].mId \in Nat
      BY <2>1, Fields
    <3> HIDE DEF st
    <3>4. st[2].mId = st[1].mId + 1
      BY <3>2, <3>3
    <3> QED BY <3>2, <3>4
  <2> QED BY <2>1, <2>2, Fields
<1>4. Len(out) \in Nat
  BY LenProperties
<1> DEFINE u == Tail(st)
           first == st[1].mId
           n == Len(st)
<1>5. Heard(Peer(s))' /\ u # <<>> => u[1].mId + Len(u) = Len(out) + 1
  <2>1. Heard(Peer(s)) => first + n = Len(out) + 1
    BY DEF Unread
  <2> HIDE DEF st, out, u, first, n
  <2> QED BY <1>1, <1>3, <1>4, <2>1 DEF u, first, n
<1>6. ASSUME phase'[s] \in Exchanging
      PROVE  /\ u # <<>> => u[1].mId = Due(s)'
             /\ Heard(Peer(s))' => Due(s)' + Len(u) = Len(out) + 1
  <2>1. first = Due(s) /\ (Heard(Peer(s)) => Due(s) + n = Len(out) + 1) /\ Due(s)' = Due(s) + 1
    BY <1>6 DEF Unread
  <2> HIDE DEF st, out, u, first, n
  <2> QED BY <1>1, <1>3, <1>4, <2>1 DEF u, first, n
<1>7. Stream(s)' = u /\ sent'[Peer(s)] = out
  OBVIOUS
<1> HIDE DEF st, out, u, first, n
<1> QED BY <1>2, <1>5, <1>6, <1>7 DEF Unread, u

(* s is the side whose peer sends.                                         *)
LEMMA UnreadPut ==
  ASSUME NEW s \in Site, Stream(s) \in Seq(Msg), sent[Peer(s)] \in Seq(Kind), Due(s) \in Nat,
         Unread(s), NEW m \in Msg, m.kind # "AllClear", m.mId = Len(sent[Peer(s)]) + 1,
         sent'[Peer(s)] = Append(sent[Peer(s)], m.kind),
         Stream(s)' = IF Heard(Peer(s)) THEN Append(Stream(s), m) ELSE Stream(s),
         Heard(Peer(s))' => Heard(Peer(s)), phase'[s] = phase[s], Due(s)' = Due(s)
  PROVE  Unread(s)'
<1> DEFINE st == Stream(s)
           out == sent[Peer(s)]
           k == m.kind
<1>0. k \in Kind /\ m.mId \in Nat
  BY Fields
<1>1. /\ Len(Append(st, m)) = Len(st) + 1 /\ Len(st) \in Nat
      /\ \A i \in 1 .. Len(st) : Append(st, m)[i] = st[i]
      /\ Append(st, m)[Len(st) + 1] = m
  BY Appended
<1>2. Len(Append(out, k)) = Len(out) + 1 /\ Len(out) \in Nat
  BY <1>0, Appended
<1>3. CASE Heard(Peer(s))
  <2>1. Stream(s)' = Append(st, m) /\ sent'[Peer(s)] = Append(out, k)
    BY <1>3
  <2>2. st # <<>> => st[1].mId + Len(st) = Len(out) + 1
    BY <1>3 DEF Unread
  <2>3. Consecutive(Append(st, m), Append(out, k))
    BY <2>2, ConsecutivePut DEF Unread
  <2>4. st = <<>> => Append(st, m)[1].mId = Len(out) + 1 /\ Len(st) = 0
    BY <1>1
  <2>5. st # <<>> => Append(st, m)[1] = st[1]
    BY <1>1, Tailed
  <2>6. phase[s] \in Exchanging => /\ st # <<>> => st[1].mId = Due(s)
                                   /\ Due(s) + Len(st) = Len(out) + 1
    BY <1>3 DEF Unread
  <2> DEFINE u == Append(st, m)
             o == Append(out, k)
  <2>7. u[1].mId + Len(u) = Len(o) + 1
    <3>1. CASE st = <<>>
      BY <1>1, <1>2, <2>4, <3>1
    <3>2. CASE st # <<>>
      <4>1. st[1].mId \in Nat
        BY <3>2, Tailed, Fields
      <4> HIDE DEF st, out, k
      <4> QED BY <1>1, <1>2, <2>2, <2>5, <3>2, <4>1
    <3> QED BY <3>1, <3>2
  <2>8. ASSUME phase[s] \in Exchanging PROVE u[1].mId = Due(s) /\ Due(s) + Len(u) = Len(o) + 1
    <3>1. Due(s) + Len(st) = Len(out) + 1 /\ (st # <<>> => st[1].mId = Due(s))
      BY <2>6, <2>8
    <3> HIDE DEF st, out, k
    <3>2. CASE st = <<>>
      BY <1>1, <1>2, <2>4, <3>1, <3>2
    <3>3. CASE st # <<>>
      <4>1. u[1].mId = Due(s)
        BY <2>5, <3>1, <3>3
      <4>2. Due(s) + Len(u) = Len(o) + 1
        BY <1>1, <1>2, <3>1
      <4> QED BY <4>1, <4>2
    <3> QED BY <3>2, <3>3
  <2>9. Stream(s)' = u /\ sent'[Peer(s)] = o
    BY <2>1
  <2> HIDE DEF u, o, st, out, k
  <2> QED BY <2>3, <2>7, <2>8, <2>9 DEF Unread, u, o
<1>4. CASE ~Heard(Peer(s))
  <2>1. Stream(s)' = st /\ ~Heard(Peer(s))' /\ sent'[Peer(s)] = Append(out, k)
    BY <1>4
  <2>2. Consecutive(st, Append(out, k))
    BY <1>0, ConsecutiveOut DEF Unread
  <2>3. phase'[s] \in Exchanging /\ st # <<>> => st[1].mId = Due(s)'
    BY DEF Unread
  <2> HIDE DEF st, out, k
  <2> QED BY <2>1, <2>2, <2>3 DEF Unread
<1> QED BY <1>3, <1>4
(* sendMessage: the message is appended to those sent, and to the stream of*)
(* the peer unless it is lost.                                             *)
LEMMA Sends ==
  ASSUME Follower # Leader, TypeOK, NEW s \in Site, NEW k \in Kind, NEW o \in Nat,
         sendMessage(s, k, o)
  PROVE  /\ sent' \in [Site -> Seq(Kind)] /\ net' \in [Site -> Seq(Msg)]
         /\ sent'[s] = Append(sent[s], k) /\ sent'[Peer(s)] = sent[Peer(s)]
         /\ net'[s] = net[s]
         /\ \E m \in Msg :
               /\ m.kind = k /\ m.mId = Len(sent[s]) + 1 /\ m.oMId = o
               /\ net'[Peer(s)] = IF Heard(s) THEN Append(net[Peer(s)], m) ELSE net[Peer(s)]
<1> DEFINE p == Peer(s)
           m == [kind |-> k, mId |-> Len(sent[s]) + 1, oMId |-> o]
<1>1. p \in Site /\ p # s
  BY Peers
<1>2. /\ sent[s] \in Seq(Kind) /\ net[p] \in Seq(Msg) /\ Len(sent[s]) \in Nat
      /\ sent \in [Site -> Seq(Kind)] /\ net \in [Site -> Seq(Msg)]
  BY <1>1, Streams DEF TypeOK
<1>3. m \in Msg /\ m.kind = k /\ m.mId = Len(sent[s]) + 1 /\ m.oMId = o
  BY <1>2 DEF Msg
<1>4. /\ sent' = [sent EXCEPT ![s] = Append(sent[s], k)]
      /\ net' = IF Heard(s) THEN [net EXCEPT ![p] = Append(net[p], m)] ELSE net
  BY DEF sendMessage, Heard
<1> HIDE DEF m, p
<1>5. Append(sent[s], k) \in Seq(Kind) /\ Append(net[p], m) \in Seq(Msg)
  BY <1>2, <1>3, Appended
<1>6. /\ sent' \in [Site -> Seq(Kind)] /\ net' \in [Site -> Seq(Msg)]
      /\ sent'[s] = Append(sent[s], k) /\ sent'[p] = sent[p]
      /\ net'[s] = net[s]
      /\ net'[p] = IF Heard(s) THEN Append(net[p], m) ELSE net[p]
  BY <1>1, <1>2, <1>4, <1>5
<1> QED BY <1>3, <1>6 DEF p

-----------------------------------------------------------------------------
(* The traffic, when nothing is sent or taken, when a side sends, when it  *)
(* takes a message, and when it takes one and answers.                     *)
LEMMA Rested ==
  ASSUME Traffic, sent' = sent,
         \A s \in Site : /\ Stream(s)' = Stream(s)
                         /\ Heard(Peer(s))' => Heard(Peer(s))
                         /\ phase'[s] \in Exchanging =>
                               phase[s] \in Exchanging /\ Due(s)' = Due(s),
         \A s \in Site : Peer(s) \in Site
  PROVE  Traffic'
<1> SUFFICES ASSUME NEW s \in Site
             PROVE  Unread(s)' /\ Answering(Stream(s), sent[s], Stream(Peer(s)))'
  BY DEF Traffic
<1>1. Unread(s)'
  BY UnreadSame DEF Traffic
<1>2. Stream(s)' = Stream(s) /\ Stream(Peer(s))' = Stream(Peer(s)) /\ sent'[s] = sent[s]
  OBVIOUS
<1>3. Answering(Stream(s), sent[s], Stream(Peer(s)))
  BY DEF Traffic
<1> QED BY <1>1, <1>2, <1>3 DEF Answering

LEMMA Spoken ==
  ASSUME Follower # Leader, TypeOK, Traffic, NEW s \in Site, NEW m \in Msg,
         m.kind \notin Answers, m.kind # "AllClear", m.mId = Len(sent[s]) + 1,
         sent'[s] = Append(sent[s], m.kind), sent'[Peer(s)] = sent[Peer(s)],
         Stream(s)' = Stream(s),
         Stream(Peer(s))' = IF Heard(s) THEN Append(Stream(Peer(s)), m) ELSE Stream(Peer(s)),
         UNCHANGED <<allClearRxed, stop, link>>, phase'[Peer(s)] = phase[Peer(s)],
         phase'[s] \in Exchanging => phase[s] \in Exchanging /\ Due(s)' = Due(s)
  PROVE  Traffic'
<1> DEFINE p == Peer(s)
<1>1. p \in Site /\ p # s /\ Peer(p) = s /\ Site = {s, p}
  BY Peers
<1>2. /\ Stream(s) \in Seq(Msg) /\ Stream(p) \in Seq(Msg) /\ sent[s] \in Seq(Kind)
      /\ sent[p] \in Seq(Kind) /\ Due(p) \in Nat /\ Len(sent[s]) \in Nat
  BY <1>1, Streams
<1>3. m.kind \in Kind
  BY Fields
<1>4. Unread(s) /\ Unread(p) /\ Answering(Stream(s), sent[s], Stream(p))
      /\ Answering(Stream(p), sent[p], Stream(s))
  BY <1>1 DEF Traffic
<1>5. Heard(s)' = Heard(s) /\ Heard(p)' = Heard(p) /\ Due(p)' = Due(p)
  BY DEF Heard, Due
<1>6. Unread(s)'
  BY <1>4, <1>5, UnreadSame
<1>7. Unread(p)'
  <2>1. /\ sent'[Peer(p)] = Append(sent[Peer(p)], m.kind) /\ m.mId = Len(sent[Peer(p)]) + 1
        /\ Stream(p)' = IF Heard(Peer(p)) THEN Append(Stream(p), m) ELSE Stream(p)
        /\ Heard(Peer(p))' => Heard(Peer(p))
        /\ sent[Peer(p)] \in Seq(Kind) /\ phase'[p] = phase[p]
    BY <1>1, <1>2, <1>5
  <2> HIDE DEF p
  <2> QED BY <1>1, <1>2, <1>4, <1>5, <2>1, UnreadPut
<1>8. Answering(Stream(s), Append(sent[s], m.kind), Stream(p)')
  <2>1. Answering(Stream(s), sent[s], Stream(p)')
    <3>1. m.mId > Len(sent[s])
      BY <1>2
    <3>2. Answering(Stream(s), sent[s], Append(Stream(p), m))
      BY <1>2, <1>4, <3>1, AnsweringBackPut
    <3> QED BY <1>4, <3>2
  <2>2. Stream(p)' \in Seq(Msg)
    BY <1>2, Appended
  <2> QED BY <1>2, <1>3, <2>1, <2>2, AnsweringOut
<1>9. Answering(Stream(p)', sent[p], Stream(s))
  <2>1. Answering(Append(Stream(p), m), sent[p], Stream(s))
    BY <1>2, <1>4, AnsweringOther
  <2> QED BY <1>4, <2>1
<1>10. Answering(Stream(s), sent[s], Stream(Peer(s)))'
  BY <1>8 DEF Answering
<1>11. Answering(Stream(p), sent[p], Stream(Peer(p)))'
  BY <1>1, <1>9 DEF Answering
<1> QED BY <1>1, <1>6, <1>7, <1>10, <1>11 DEF Traffic

LEMMA Taken ==
  ASSUME Follower # Leader, TypeOK, Traffic, NEW s \in Site,
         Stream(s) # <<>>, Stream(s)' = Tail(Stream(s)),
         Stream(Peer(s))' = Stream(Peer(s)), sent' = sent,
         UNCHANGED <<stop, link>>, phase'[Peer(s)] = phase[Peer(s)],
         allClearRxed'[Peer(s)] = allClearRxed[Peer(s)],
         phase'[s] \in Exchanging => phase[s] \in Exchanging /\ Due(s)' = Due(s) + 1
  PROVE  Traffic'
<1> DEFINE p == Peer(s)
<1>1. p \in Site /\ p # s /\ Peer(p) = s /\ Site = {s, p}
  BY Peers
<1>2. /\ Stream(s) \in Seq(Msg) /\ Stream(p) \in Seq(Msg) /\ sent[s] \in Seq(Kind)
      /\ sent[p] \in Seq(Kind) /\ Due(s) \in Nat
  BY <1>1, Streams
<1>4. Unread(s) /\ Unread(p) /\ Answering(Stream(s), sent[s], Stream(p))
      /\ Answering(Stream(p), sent[p], Stream(s))
  BY <1>1 DEF Traffic
<1>5. Heard(s)' = Heard(s) /\ Heard(p)' = Heard(p) /\ Due(p)' = Due(p)
  BY DEF Heard, Due
<1>6. Unread(s)'
  BY <1>2, <1>4, <1>5, UnreadTaken
<1>7. Unread(p)'
  <2> HIDE DEF p
  <2>1. /\ sent'[Peer(p)] = sent[Peer(p)] /\ Stream(p)' = Stream(p) /\ phase'[p] = phase[p]
        /\ Heard(Peer(p))' => Heard(Peer(p))
    BY <1>1, <1>5 DEF p
  <2> QED BY <1>1, <1>4, <1>5, <2>1, UnreadSame
<1>8. Answering(Tail(Stream(s)), sent[s], Stream(p))
  BY <1>2, <1>4, AnsweringTail
<1>9. Answering(Stream(p), sent[p], Tail(Stream(s)))
  BY <1>2, <1>4, AnsweringBackTail
<1>10. Answering(Stream(s), sent[s], Stream(Peer(s)))'
  BY <1>8 DEF Answering
<1>11. Answering(Stream(p), sent[p], Stream(Peer(p)))'
  BY <1>1, <1>9 DEF Answering
<1> QED BY <1>1, <1>6, <1>7, <1>10, <1>11 DEF Traffic

LEMMA Answered ==
  ASSUME Follower # Leader, TypeOK, Traffic, NEW s \in Site, NEW m \in Msg,
         m.kind \in Answers, m.mId = Len(sent[s]) + 1,
         Stream(s) # <<>>, m.oMId = Stream(s)[1].mId, Stream(s)[1].kind \in AckWanted,
         m.mId <= 2 => m.oMId = m.mId,
         sent'[s] = Append(sent[s], m.kind), sent'[Peer(s)] = sent[Peer(s)],
         Stream(s)' = Tail(Stream(s)),
         Stream(Peer(s))' = IF Heard(s) THEN Append(Stream(Peer(s)), m) ELSE Stream(Peer(s)),
         UNCHANGED <<allClearRxed, stop, link>>, phase'[Peer(s)] = phase[Peer(s)],
         phase'[s] \in Exchanging => phase[s] \in Exchanging /\ Due(s)' = Due(s) + 1
  PROVE  Traffic'
<1> DEFINE p == Peer(s)
<1>1. p \in Site /\ p # s /\ Peer(p) = s /\ Site = {s, p}
  BY Peers
<1>2. /\ Stream(s) \in Seq(Msg) /\ Stream(p) \in Seq(Msg) /\ sent[s] \in Seq(Kind)
      /\ sent[p] \in Seq(Kind) /\ Due(p) \in Nat /\ Due(s) \in Nat /\ Len(sent[s]) \in Nat
  BY <1>1, Streams
<1>3. m.kind \in Kind /\ m.kind # "AllClear"
  BY Fields DEF Answers
<1>4. Unread(s) /\ Unread(p) /\ Answering(Stream(s), sent[s], Stream(p))
      /\ Answering(Stream(p), sent[p], Stream(s))
  BY <1>1 DEF Traffic
<1>5. Heard(s)' = Heard(s) /\ Heard(p)' = Heard(p) /\ Due(p)' = Due(p)
  BY DEF Heard, Due
<1>6. Unread(s)'
  BY <1>2, <1>4, <1>5, UnreadTaken
<1>7. Unread(p)'
  <2>1. /\ sent'[Peer(p)] = Append(sent[Peer(p)], m.kind) /\ m.mId = Len(sent[Peer(p)]) + 1
        /\ Stream(p)' = IF Heard(Peer(p)) THEN Append(Stream(p), m) ELSE Stream(p)
        /\ Heard(Peer(p))' => Heard(Peer(p))
        /\ sent[Peer(p)] \in Seq(Kind) /\ phase'[p] = phase[p]
    BY <1>1, <1>2, <1>5
  <2> HIDE DEF p
  <2> QED BY <1>1, <1>2, <1>3, <1>4, <1>5, <2>1, UnreadPut
<1>8. Answering(Tail(Stream(s)), Append(sent[s], m.kind), Stream(p)')
  <2>0. Tail(Stream(s)) \in Seq(Msg)
    BY <1>2, Tailed
  <2>1. Answering(Tail(Stream(s)), sent[s], Stream(p))
    BY <1>2, <1>4, AnsweringTail
  <2>2. Answering(Tail(Stream(s)), sent[s], Stream(p)')
    <3> DEFINE st == Tail(Stream(s))
    <3>1. m.mId > Len(sent[s])
      BY <1>2
    <3>2. st \in Seq(Msg) /\ Answering(st, sent[s], Stream(p))
      BY <2>0, <2>1
    <3> HIDE DEF st
    <3>3. Answering(st, sent[s], Append(Stream(p), m))
      BY <1>2, <3>1, <3>2, AnsweringBackPut
    <3> QED BY <3>2, <3>3 DEF st
  <2>3. Stream(p)' \in Seq(Msg)
    BY <1>2, Appended
  <2> QED BY <1>2, <1>3, <2>0, <2>2, <2>3, AnsweringOut
<1>9. Answering(Stream(p)', sent[p], Tail(Stream(s)))
  <2>1. Consecutive(Stream(s), sent[p])
    BY <1>4 DEF Unread
  <2>2. Answering(Append(Stream(p), m), sent[p], Tail(Stream(s)))
    BY <1>2, <1>4, <2>1, AnsweringHead
  <2>3. Answering(Stream(p), sent[p], Tail(Stream(s)))
    BY <1>2, <1>4, AnsweringBackTail
  <2> QED BY <2>2, <2>3
<1>10. Answering(Stream(s), sent[s], Stream(Peer(s)))'
  BY <1>8 DEF Answering
<1>11. Answering(Stream(p), sent[p], Stream(Peer(p)))'
  BY <1>1, <1>9 DEF Answering
<1> QED BY <1>1, <1>6, <1>7, <1>10, <1>11 DEF Traffic
-----------------------------------------------------------------------------
(* The steps.                                                              *)
LEMMA ScriptedSame ==
  ASSUME NEW s \in Site, Scripted(s), phase'[s] = phase[s], sent'[s] = sent[s],
         version'[s] = version[s], ext'[s] = ext[s], allClearRxed[s] => allClearRxed'[s]
  PROVE  Scripted(s)'
  BY DEF Scripted, Said, Opening

(* Where the script of each side leads.                                    *)
LEMMA Advances ==
  ASSUME Follower # Leader, TypeOK, NEW s \in Site, phase' = NextPhase(s),
         phase[s] \in {"waitVersion", "sendVersion", "waitAck"}
  PROVE  /\ phase' \in [Site -> Phases] /\ phase'[Peer(s)] = phase[Peer(s)]
         /\ s = Leader => /\ phase[s] = "waitVersion" => phase'[s] = "sendVersion"
                          /\ phase[s] = "sendVersion" => phase'[s] = "waitAck"
                          /\ phase[s] = "waitAck" => phase'[s] = "ready"
         /\ s = Follower => /\ phase[s] = "sendVersion" => phase'[s] = "waitAck"
                            /\ phase[s] = "waitAck" => phase'[s] = "waitVersion"
                            /\ phase[s] = "waitVersion" => phase'[s] = "ready"
<1>1. Peer(s) # s /\ Peer(s) \in Site
  BY Peers
<1>2. s = Leader \/ s = Follower
  BY DEF Site
<1>3. phase \in [Site -> Phases]
  BY DEF TypeOK
<1> DEFINE i == CHOOSE k \in 1 .. 3 : Script(s)[k] = phase[s]
<1>4. phase' = [phase EXCEPT ![s] = Script(s)[i + 1]]
  BY DEF NextPhase
<1>5. CASE s = Leader
  <2>1. Script(s) = <<"waitVersion", "sendVersion", "waitAck", "ready">>
    BY <1>5 DEF Script
  <2>2. CASE phase[s] = "waitVersion"
    <3>1. i = 1
      BY <2>1, <2>2
    <3> QED BY <1>1, <1>3, <1>4, <1>5, <2>1, <2>2, <3>1 DEF Phases
  <2>3. CASE phase[s] = "sendVersion"
    <3>1. i = 2
      BY <2>1, <2>3
    <3> QED BY <1>1, <1>3, <1>4, <1>5, <2>1, <2>3, <3>1 DEF Phases
  <2>4. CASE phase[s] = "waitAck"
    <3>1. i = 3
      BY <2>1, <2>4
    <3> QED BY <1>1, <1>3, <1>4, <1>5, <2>1, <2>4, <3>1 DEF Phases
  <2> QED BY <2>2, <2>3, <2>4
<1>6. CASE s = Follower
  <2>1. Script(s) = <<"sendVersion", "waitAck", "waitVersion", "ready">>
    BY <1>6 DEF Script
  <2>2. CASE phase[s] = "sendVersion"
    <3>1. i = 1
      BY <2>1, <2>2
    <3> QED BY <1>1, <1>3, <1>4, <1>6, <2>1, <2>2, <3>1 DEF Phases
  <2>3. CASE phase[s] = "waitAck"
    <3>1. i = 2
      BY <2>1, <2>3
    <3> QED BY <1>1, <1>3, <1>4, <1>6, <2>1, <2>3, <3>1 DEF Phases
  <2>4. CASE phase[s] = "waitVersion"
    <3>1. i = 3
      BY <2>1, <2>4
    <3> QED BY <1>1, <1>3, <1>4, <1>6, <2>1, <2>4, <3>1 DEF Phases
  <2> QED BY <2>2, <2>3, <2>4
<1> QED BY <1>2, <1>5, <1>6

LEMMA Fails ==
  ASSUME Follower # Leader, TypeOK, NEW s \in Site, Fail(s)
  PROVE  /\ phase' \in [Site -> Phases] /\ phase'[Peer(s)] = phase[Peer(s)]
         /\ phase'[s] = "failed"
  BY Peers DEF TypeOK, Fail, Phases

(* A message is taken from external_q, or put behind what is on its way.   *)
LEMMA TakesFirst ==
  ASSUME Follower # Leader, TypeOK, NEW s \in Site, external_q[s] # <<>>,
         external_q' = [external_q EXCEPT ![s] = Tail(@)], net'[s] = net[s]
  PROVE  /\ Stream(s) # <<>> /\ Stream(s)' = Tail(Stream(s)) /\ Stream(s)[1] = Head(external_q[s])
         /\ external_q' \in [Site -> Seq(Msg)] /\ external_q'[Peer(s)] = external_q[Peer(s)]
         /\ Head(external_q[s]) \in Msg
<1>1. Peer(s) # s /\ Peer(s) \in Site
  BY Peers
<1>2. external_q \in [Site -> Seq(Msg)] /\ external_q[s] \in Seq(Msg) /\ net[s] \in Seq(Msg)
  BY DEF TypeOK
<1>3. Tail(external_q[s]) \in Seq(Msg) /\ Head(external_q[s]) \in Msg
  BY <1>2, Tailed
<1>4. external_q'[s] = Tail(external_q[s])
  BY <1>2
<1>5. /\ Tail(external_q[s]) \o net[s] = Tail(external_q[s] \o net[s])
      /\ external_q[s] \o net[s] # <<>> /\ (external_q[s] \o net[s])[1] = Head(external_q[s])
  BY <1>2, StreamTaken
<1> QED BY <1>1, <1>2, <1>3, <1>4, <1>5 DEF Stream

LEMMA PutsLast ==
  ASSUME Follower # Leader, TypeOK, NEW s \in Site, NEW m \in Msg,
         net'[Peer(s)] = IF Heard(s) THEN Append(net[Peer(s)], m) ELSE net[Peer(s)],
         external_q'[Peer(s)] = external_q[Peer(s)]
  PROVE  Stream(Peer(s))' = IF Heard(s) THEN Append(Stream(Peer(s)), m) ELSE Stream(Peer(s))
<1> DEFINE p == Peer(s)
<1>1. external_q[p] \in Seq(Msg) /\ net[p] \in Seq(Msg)
  BY Peers DEF TypeOK
<1>2. external_q[p] \o Append(net[p], m) = Append(external_q[p] \o net[p], m)
  <2> DEFINE e == external_q[p]
             n == net[p]
  <2>1. e \in Seq(Msg) /\ n \in Seq(Msg)
    BY <1>1
  <2> HIDE DEF e, n
  <2>2. e \o Append(n, m) = Append(e \o n, m)
    BY <2>1, StreamPut
  <2> QED BY <2>2 DEF e, n
<1> QED BY <1>2 DEF Stream

(* Nothing is lost between the connection and external_q.                  *)
LEMMA ExchangeReceive ==
  ASSUME Follower # Leader, ExchangeInv, NEW s \in Site, Receive(s)
  PROVE  ExchangeInv'
<1> DEFINE p == Peer(s)
<1>0. TypeOK /\ Traffic /\ \A q \in Site : Scripted(q)
  BY DEF ExchangeInv
<1>1. p \in Site /\ p # s /\ Peer(p) = s /\ Site = {s, p}
  BY Peers
<1>2. /\ net[s] # <<>> /\ net' = [net EXCEPT ![s] = Tail(net[s])]
      /\ UNCHANGED <<phase, ext, stop, link, sent, version, timeouts, handledLate>>
  BY DEF Receive
<1>3. /\ external_q \in [Site -> Seq(Msg)] /\ net \in [Site -> Seq(Msg)]
      /\ external_q[s] \in Seq(Msg) /\ net[s] \in Seq(Msg)
      /\ allClearRxed \in [Site -> BOOLEAN]
  BY <1>0 DEF TypeOK
<1>4. /\ Tail(net[s]) \in Seq(Msg) /\ Head(net[s]) \in Msg /\ net' \in [Site -> Seq(Msg)]
      /\ net'[s] = Tail(net[s]) /\ net'[p] = net[p]
  BY <1>1, <1>2, <1>3, Tailed
<1>5. CASE Head(net[s]).kind # "AllClear"
  <2>1. /\ external_q' = [external_q EXCEPT ![s] = Append(external_q[s], Head(net[s]))]
        /\ UNCHANGED allClearRxed
    BY <1>5 DEF Receive
  <2>2. /\ Append(external_q[s], Head(net[s])) \in Seq(Msg)
        /\ external_q' \in [Site -> Seq(Msg)] /\ external_q'[p] = external_q[p]
        /\ external_q'[s] = Append(external_q[s], Head(net[s]))
    BY <1>1, <1>3, <1>4, <2>1, Appended
  <2>3. TypeOK'
    BY <1>0, <1>2, <1>4, <2>1, <2>2 DEF TypeOK
  <2>4. Append(external_q[s], Head(net[s])) \o Tail(net[s]) = external_q[s] \o net[s]
    BY <1>2, <1>3, StreamMoved
  <2>5. Stream(s)' = Stream(s) /\ Stream(p)' = Stream(p)
    BY <1>4, <2>2, <2>4 DEF Stream
  <2>6. Traffic'
    <3>1. ASSUME NEW q \in Site
          PROVE  /\ Stream(q)' = Stream(q) /\ Peer(q) \in Site
                 /\ Heard(Peer(q))' => Heard(Peer(q))
                 /\ phase'[q] \in Exchanging => phase[q] \in Exchanging /\ Due(q)' = Due(q)
      <4>1. Stream(q)' = Stream(q) /\ Peer(q) \in Site
        BY <1>1, <2>5
      <4>2. Heard(Peer(q))' => Heard(Peer(q))
        BY <1>2 DEF Heard
      <4>3. phase'[q] \in Exchanging => phase[q] \in Exchanging /\ Due(q)' = Due(q)
        BY <1>2, <2>1 DEF Due
      <4> QED BY <4>1, <4>2, <4>3
    <3> QED BY <1>0, <1>2, <3>1, Rested
  <2>7. \A q \in Site : Scripted(q)'
    BY <1>0, <1>2, <2>1, ScriptedSame
  <2> QED BY <2>3, <2>6, <2>7 DEF ExchangeInv
<1>6. CASE Head(net[s]).kind = "AllClear"
  <2>1. /\ allClearRxed' = [allClearRxed EXCEPT ![s] = TRUE] /\ external_q' = external_q
    BY <1>6 DEF Receive
  <2>2. allClearRxed' \in [Site -> BOOLEAN] /\ allClearRxed'[s] = TRUE /\ allClearRxed'[p] = allClearRxed[p]
    BY <1>1, <1>3, <2>1
  <2>3. TypeOK'
    BY <1>0, <1>2, <1>4, <2>1, <2>2 DEF TypeOK
  <2>4. external_q[s] = <<>> /\ Stream(s) = net[s] /\ net[s][1].mId = 0
    <3> DEFINE e == external_q[s]
               n == net[s]
    <3>1. /\ (e \o n)[Len(e) + 1] = Head(n) /\ Len(e) \in Nat /\ Len(n) \in Nat \ {0}
          /\ Len(e \o n) = Len(e) + Len(n) /\ e \o n \in Seq(Msg) /\ Head(n) = n[1]
      BY <1>2, <1>3, StreamMoved, Joined, Tailed
    <3>2. Consecutive(e \o n, sent[p])
      BY <1>0, <1>1 DEF Traffic, Unread, Stream
    <3>3. Len(e) + 1 \in 1 .. Len(e \o n) /\ 1 \in 1 .. Len(e \o n)
      <4> HIDE DEF e, n
      <4> QED BY <3>1
    <3>4. /\ Head(n).mId = (e \o n)[1].mId + (Len(e) + 1) - 1
          /\ Head(n).kind = "AllClear" <=> Head(n).mId = 0
      BY <3>1, <3>2, <3>3 DEF Consecutive
    <3>5. (e \o n)[1].mId \in Nat
      BY <3>1, <3>3, Fields
    <3>6. Len(e) = 0 /\ Head(n).mId = 0
      <4>1. Head(n).mId = 0
        BY <1>6, <3>4
      <4> HIDE DEF e, n
      <4> QED BY <3>1, <3>4, <3>5, <4>1
    <3>7. e = <<>>
      BY <1>3, <3>6, EmptySeq
    <3> QED BY <1>3, <3>1, <3>6, <3>7, ConcatEmptySeq DEF Stream
  <2>5. /\ Stream(s) # <<>> /\ Stream(s)' = Tail(Stream(s)) /\ Stream(p)' = Stream(p)
    <3>1. external_q'[s] = <<>>
      BY <2>1, <2>4
    <3>2. external_q'[s] \o net'[s] = net'[s]
      BY <1>4, <3>1, ConcatEmptySeq
    <3> QED BY <1>2, <1>4, <2>1, <2>4, <3>2 DEF Stream
  <2>6. ASSUME phase'[s] \in Exchanging PROVE phase[s] \in Exchanging /\ Due(s)' = Due(s) + 1
    <3>1. phase[s] \in Exchanging /\ phase'[s] = phase[s]
      BY <1>2, <2>6
    <3>2. Due(s) = 0
      BY <1>0, <1>2, <2>4, <3>1 DEF Traffic, Unread
    <3>3. ~allClearRxed[s]
      BY <3>2 DEF Due
    <3>4. phase[s] = "idle"
      BY <1>0, <3>3 DEF Scripted
    <3>5. Due(s)' = 1
      BY <2>2, <3>1, <3>4 DEF Due
    <3> QED BY <3>1, <3>2, <3>5
  <2>7. Traffic'
    BY <1>0, <1>1, <1>2, <2>2, <2>5, <2>6, Taken
  <2>8. \A q \in Site : Scripted(q)'
    BY <1>0, <1>1, <1>2, <2>2, ScriptedSame
  <2> QED BY <2>3, <2>7, <2>8 DEF ExchangeInv
<1> QED BY <1>5, <1>6
(* Steps that send and take nothing.                                       *)
LEMMA QuietStep ==
  ASSUME Follower # Leader, ExchangeInv, TypeOK',
         UNCHANGED <<allClearRxed, net, external_q, sent, version>>,
         link' => link, \A q \in Site : stop[q] => stop'[q],
         \A q \in Site : /\ phase'[q] \in Exchanging => phase[q] \in Exchanging /\ Due(q)' = Due(q)
                         /\ Scripted(q)'
  PROVE  ExchangeInv'
<1>1. Traffic'
  <2>1. ASSUME NEW q \in Site
        PROVE  Stream(q)' = Stream(q) /\ Peer(q) \in Site /\ (Heard(Peer(q))' => Heard(Peer(q)))
    <3>1. Peer(q) \in Site
      BY Peers
    <3>2. Heard(Peer(q))' => Heard(Peer(q))
      BY <3>1 DEF Heard
    <3> QED BY <3>1, <3>2 DEF Stream
  <2> QED BY <2>1, Rested DEF ExchangeInv
<1> QED BY <1>1 DEF ExchangeInv

LEMMA ExchangeReady ==
  ASSUME Follower # Leader, ExchangeInv, NEW s \in Site, callback_cyber_ready(s)
  PROVE  ExchangeInv'
<1> DEFINE p == Peer(s)
<1>0. TypeOK /\ \A q \in Site : Scripted(q)
  BY DEF ExchangeInv
<1>1. p \in Site /\ p # s /\ Site = {s, p}
  BY Peers
<1>2. /\ phase[s] = "idle" /\ allClearRxed[s] /\ phase' = [phase EXCEPT ![s] = Script(s)[1]]
      /\ UNCHANGED <<allClearRxed, ext, stop, link, net, external_q, sent, version,
                     timeouts, handledLate>>
  BY DEF callback_cyber_ready
<1>3. Script(s)[1] = IF s = Leader THEN "waitVersion" ELSE "sendVersion"
  BY DEF Script
<1>4. /\ phase' \in [Site -> Phases] /\ phase'[p] = phase[p]
      /\ phase'[s] = IF s = Leader THEN "waitVersion" ELSE "sendVersion"
  BY <1>0, <1>1, <1>2, <1>3 DEF TypeOK, Phases
<1>5. TypeOK'
  BY <1>0, <1>2, <1>4 DEF TypeOK
<1>6. Scripted(p)'
  BY <1>0, <1>1, <1>2, <1>4, ScriptedSame
<1>7. Scripted(s)'
  <2>1. Len(sent[s]) = 0 /\ ~ext[s]
    BY <1>0, <1>2 DEF Scripted, Said, Exchanging
  <2>2. Said(s)' = 0
    BY <1>4 DEF Said
  <2>3. phase'[s] # "ready" /\ phase'[s] # "waitAck"
    BY <1>4
  <2> QED BY <1>2, <2>1, <2>2, <2>3 DEF Scripted
<1>8. Due(p)' = Due(p) /\ Due(s)' = Due(s)
  BY <1>2, <1>4 DEF Due
<1>9. phase[s] \in Exchanging
  BY <1>2 DEF Exchanging
<1> QED BY <1>1, <1>2, <1>4, <1>5, <1>6, <1>7, <1>8, <1>9, QuietStep

LEMMA ExchangeTimeout ==
  ASSUME Follower # Leader, ExchangeInv, NEW s \in Site, WaitTimeout(s)
  PROVE  ExchangeInv'
<1> DEFINE p == Peer(s)
<1>0. TypeOK /\ \A q \in Site : Scripted(q)
  BY DEF ExchangeInv
<1>1. p \in Site /\ p # s /\ Site = {s, p}
  BY Peers
<1>2. /\ phase[s] \in {"waitAck", "waitVersion"} /\ Fail(s)
      /\ UNCHANGED <<allClearRxed, ext, stop, link, net, external_q, sent, version, handledLate>>
  BY DEF WaitTimeout
<1>3. timeouts' \in Nat
  BY <1>0 DEF WaitTimeout, TypeOK
<1>4. phase' \in [Site -> Phases] /\ phase'[p] = phase[p] /\ phase'[s] = "failed"
  BY <1>0, <1>2, Fails
<1>5. TypeOK'
  BY <1>0, <1>2, <1>3, <1>4 DEF TypeOK
<1>6. Scripted(p)'
  BY <1>0, <1>1, <1>2, <1>4, ScriptedSame
<1>7. Scripted(s)'
  BY <1>0, <1>2, <1>4 DEF Scripted, Exchanging
<1>8. Due(p)' = Due(p) /\ phase'[s] \notin Exchanging
  BY <1>2, <1>4 DEF Due, Exchanging
<1> QED BY <1>1, <1>2, <1>4, <1>5, <1>6, <1>7, <1>8, QuietStep

LEMMA ExchangeStart ==
  ASSUME Follower # Leader, ExchangeInv, NEW s \in Site, StartExternal(s)
  PROVE  ExchangeInv'
<1> DEFINE p == Peer(s)
<1>0. TypeOK /\ \A q \in Site : Scripted(q)
  BY DEF ExchangeInv
<1>1. p \in Site /\ p # s /\ Site = {s, p}
  BY Peers
<1>2. /\ phase[s] = "ready" /\ ext' = [ext EXCEPT ![s] = TRUE]
      /\ UNCHANGED <<allClearRxed, phase, stop, link, net, external_q, sent, version,
                     timeouts, handledLate>>
  BY DEF StartExternal
<1>3. ext' \in [Site -> BOOLEAN] /\ ext'[p] = ext[p]
  BY <1>0, <1>1, <1>2 DEF TypeOK
<1>4. TypeOK'
  BY <1>0, <1>2, <1>3 DEF TypeOK
<1>5. Scripted(p)'
  BY <1>0, <1>1, <1>2, <1>3, ScriptedSame
<1>6. Scripted(s)'
  BY <1>0, <1>2 DEF Scripted, Said, Exchanging
<1>7. \A q \in Site : Due(q)' = Due(q)
  BY <1>2 DEF Due
<1> QED BY <1>1, <1>2, <1>4, <1>5, <1>6, <1>7, QuietStep

(* A side stops, or the connection breaks.                                 *)
LEMMA ExchangeEnds ==
  ASSUME Follower # Leader, ExchangeInv, stop' \in [Site -> BOOLEAN], link' \in BOOLEAN,
         \A q \in Site : stop[q] => stop'[q], link' => link,
         UNCHANGED <<allClearRxed, phase, ext, net, external_q, sent, version, timeouts, handledLate>>
  PROVE  ExchangeInv'
<1>1. TypeOK'
  BY DEF ExchangeInv, TypeOK
<1>2. \A q \in Site : Scripted(q)'
  BY ScriptedSame DEF ExchangeInv
<1>3. \A q \in Site : Due(q)' = Due(q)
  BY DEF Due
<1> QED BY <1>1, <1>2, <1>3, QuietStep

-----------------------------------------------------------------------------
(* Steps that send or take.                                                *)
LEMMA ExchangeSendVersion ==
  ASSUME Follower # Leader, ExchangeInv, NEW s \in Site, SendVersion(s)
  PROVE  ExchangeInv'
<1> DEFINE p == Peer(s)
<1>0. TypeOK /\ Traffic /\ \A q \in Site : Scripted(q)
  BY DEF ExchangeInv
<1>1. p \in Site /\ p # s /\ Site = {s, p}
  BY Peers
<1>2. /\ phase[s] = "sendVersion" /\ sendMessage(s, "Version", 0)
      /\ version' = [version EXCEPT ![s] = Len(sent[s]) + 1] /\ phase' = NextPhase(s)
      /\ UNCHANGED <<allClearRxed, ext, stop, link, external_q, timeouts, handledLate>>
  BY DEF SendVersion
<1>3. "Version" \in Kind /\ 0 \in Nat /\ sent[s] \in Seq(Kind) /\ Len(sent[s]) \in Nat
  BY <1>0, Streams DEF Kind
<1>4. /\ sent' \in [Site -> Seq(Kind)] /\ net' \in [Site -> Seq(Msg)]
      /\ sent'[s] = Append(sent[s], "Version") /\ sent'[p] = sent[p] /\ net'[s] = net[s]
      /\ \E m \in Msg :
            /\ m.kind = "Version" /\ m.mId = Len(sent[s]) + 1 /\ m.oMId = 0
            /\ net'[p] = IF Heard(s) THEN Append(net[p], m) ELSE net[p]
  BY <1>0, <1>2, <1>3, Sends
<1>5. PICK m \in Msg :
            /\ m.kind = "Version" /\ m.mId = Len(sent[s]) + 1 /\ m.oMId = 0
            /\ net'[p] = IF Heard(s) THEN Append(net[p], m) ELSE net[p]
  BY <1>4
<1>6. /\ phase' \in [Site -> Phases] /\ phase'[p] = phase[p]
      /\ phase'[s] = "waitAck"
  BY <1>0, <1>2, Advances DEF Site
<1>7. version' \in [Site -> Nat] /\ version'[s] = Len(sent[s]) + 1 /\ version'[p] = version[p]
  BY <1>0, <1>1, <1>2, <1>3 DEF TypeOK
<1>8. TypeOK'
  BY <1>0, <1>2, <1>4, <1>6, <1>7 DEF TypeOK
<1>9. Scripted(p)'
  BY <1>0, <1>1, <1>2, <1>4, <1>6, <1>7, ScriptedSame
<1>10. Scripted(s)'
  <2>1. Len(sent[s]) = (IF s = Leader THEN 1 ELSE 0) /\ ~ext[s] /\ allClearRxed[s]
        /\ \A i \in 1 .. 2 : i <= Len(sent[s]) => sent[s][i] = Opening(s)[i]
    BY <1>0, <1>2 DEF Scripted, Said, Exchanging
  <2>2. /\ Len(sent'[s]) = Len(sent[s]) + 1 /\ sent'[s][Len(sent[s]) + 1] = "Version"
        /\ \A i \in 1 .. Len(sent[s]) : sent'[s][i] = sent[s][i]
    BY <1>3, <1>4, Appended
  <2>3. Said(s)' = IF s = Leader THEN 2 ELSE 1
    BY <1>6 DEF Said
  <2>4. \A i \in 1 .. 2 : i <= Len(sent'[s]) => sent'[s][i] = Opening(s)[i]
    BY <2>1, <2>2 DEF Opening
  <2>5. Len(sent'[s]) = Said(s)' /\ version'[s] = Len(sent'[s])
    BY <1>7, <2>1, <2>2, <2>3
  <2> QED BY <1>2, <1>6, <2>1, <2>4, <2>5 DEF Scripted, Opening
<1>11. Stream(s)' = Stream(s)
  BY <1>2, <1>4 DEF Stream
<1>12. Stream(p)' = IF Heard(s) THEN Append(Stream(p), m) ELSE Stream(p)
  BY <1>0, <1>2, <1>5, PutsLast
<1>13. phase[s] \in Exchanging /\ Due(s)' = Due(s)
  BY <1>2, <1>6 DEF Exchanging, Due
<1>14. Traffic'
  <2>1. m.kind \notin Answers /\ m.kind # "AllClear" /\ sent'[s] = Append(sent[s], m.kind)
    BY <1>4, <1>5 DEF Answers
  <2> QED BY <1>0, <1>2, <1>4, <1>5, <1>6, <1>11, <1>12, <1>13, <2>1, Spoken
<1> QED BY <1>1, <1>8, <1>9, <1>10, <1>14 DEF ExchangeInv
(* A message after the two of the script.                                  *)
LEMMA ScriptedMore ==
  ASSUME NEW s \in Site, Scripted(s), sent[s] \in Seq(Kind), NEW k \in Kind,
         phase[s] = "ready", phase'[s] = phase[s], sent'[s] = Append(sent[s], k),
         version'[s] = version[s], allClearRxed'[s] = allClearRxed[s]
  PROVE  Scripted(s)'
<1>1. /\ Len(sent'[s]) = Len(sent[s]) + 1 /\ Len(sent[s]) \in Nat
      /\ \A i \in 1 .. Len(sent[s]) : sent'[s][i] = sent[s][i]
  BY Appended
<1>2. Len(sent[s]) >= 2 /\ \A i \in 1 .. 2 : i <= Len(sent[s]) => sent[s][i] = Opening(s)[i]
  BY DEF Scripted
<1>3. \A i \in 1 .. 2 : i \in 1 .. Len(sent[s])
  BY <1>1, <1>2
<1>4. Len(sent'[s]) >= 2 /\ \A i \in 1 .. 2 : sent'[s][i] = Opening(s)[i]
  BY <1>1, <1>2, <1>3
<1>5. "ready" \notin Exchanging /\ "ready" # "waitAck"
  BY DEF Exchanging
<1> QED BY <1>4, <1>5 DEF Scripted, Opening

LEMMA ExchangePeriodic ==
  ASSUME Follower # Leader, ExchangeInv, NEW s \in Site, SendPeriodic(s)
  PROVE  ExchangeInv'
<1> DEFINE p == Peer(s)
<1>0. TypeOK /\ Traffic /\ \A q \in Site : Scripted(q)
  BY DEF ExchangeInv
<1>1. p \in Site /\ p # s /\ Site = {s, p}
  BY Peers
<1>2. /\ ext[s]
      /\ UNCHANGED <<allClearRxed, phase, ext, stop, link, external_q, version, timeouts,
                     handledLate>>
  BY DEF SendPeriodic
<1>3. PICK k \in {"Watchdog", "StatusUpdate"} : sendMessage(s, k, 0)
  BY DEF SendPeriodic
<1>4. k \in Kind /\ k \notin Answers /\ k # "AllClear" /\ 0 \in Nat
      /\ sent[s] \in Seq(Kind) /\ Len(sent[s]) \in Nat
  BY <1>0, Streams DEF Kind, Answers
<1>5. /\ sent' \in [Site -> Seq(Kind)] /\ net' \in [Site -> Seq(Msg)]
      /\ sent'[s] = Append(sent[s], k) /\ sent'[p] = sent[p] /\ net'[s] = net[s]
      /\ \E m \in Msg :
            /\ m.kind = k /\ m.mId = Len(sent[s]) + 1 /\ m.oMId = 0
            /\ net'[p] = IF Heard(s) THEN Append(net[p], m) ELSE net[p]
  BY <1>0, <1>3, <1>4, Sends
<1>6. PICK m \in Msg :
            /\ m.kind = k /\ m.mId = Len(sent[s]) + 1
            /\ net'[p] = IF Heard(s) THEN Append(net[p], m) ELSE net[p]
  BY <1>5
<1>7. TypeOK'
  BY <1>0, <1>2, <1>5 DEF TypeOK
<1>8. Scripted(p)'
  BY <1>0, <1>1, <1>2, <1>5, ScriptedSame
<1>9. phase[s] = "ready"
  BY <1>0, <1>2 DEF Scripted
<1>10. Scripted(s)'
  BY <1>0, <1>2, <1>4, <1>5, <1>9, ScriptedMore
<1>11. Stream(s)' = Stream(s)
  BY <1>2, <1>5 DEF Stream
<1>12. Stream(p)' = IF Heard(s) THEN Append(Stream(p), m) ELSE Stream(p)
  BY <1>0, <1>2, <1>6, PutsLast
<1>13. phase'[s] \notin Exchanging
  BY <1>2, <1>9 DEF Exchanging
<1>14. Traffic'
  <2>1. m.kind \notin Answers /\ m.kind # "AllClear" /\ sent'[s] = Append(sent[s], m.kind)
    BY <1>4, <1>5, <1>6
  <2> QED BY <1>0, <1>2, <1>5, <1>6, <1>11, <1>12, <1>13, <2>1, Spoken
<1> QED BY <1>1, <1>7, <1>8, <1>10, <1>14 DEF ExchangeInv

(* sendVersionAndWaitAck takes a message, whatever it is.                  *)
LEMMA ExchangeWaitAck ==
  ASSUME Follower # Leader, ExchangeInv, NEW s \in Site, WaitAck(s)
  PROVE  ExchangeInv'
<1> DEFINE p == Peer(s)
<1>0. TypeOK /\ Traffic /\ \A q \in Site : Scripted(q)
  BY DEF ExchangeInv
<1>1. p \in Site /\ p # s /\ Site = {s, p}
  BY Peers
<1>2. /\ phase[s] = "waitAck" /\ external_q[s] # <<>>
      /\ external_q' = [external_q EXCEPT ![s] = Tail(@)]
      /\ phase' = NextPhase(s) \/ Fail(s)
      /\ UNCHANGED <<allClearRxed, ext, stop, link, net, sent, version, timeouts, handledLate>>
  BY DEF WaitAck
<1>3. /\ Stream(s) # <<>> /\ Stream(s)' = Tail(Stream(s))
      /\ external_q' \in [Site -> Seq(Msg)] /\ external_q'[p] = external_q[p]
  BY <1>0, <1>2, TakesFirst
<1>4. /\ phase' \in [Site -> Phases] /\ phase'[p] = phase[p]
      /\ phase'[s] \in {"failed", IF s = Leader THEN "ready" ELSE "waitVersion"}
  BY <1>0, <1>2, Advances, Fails DEF Site
<1>5. TypeOK'
  BY <1>0, <1>2, <1>3, <1>4 DEF TypeOK
<1>6. Scripted(p)'
  BY <1>0, <1>1, <1>2, <1>4, ScriptedSame
<1>7. Scripted(s)'
  <2>1. /\ Len(sent[s]) = (IF s = Leader THEN 2 ELSE 1) /\ ~ext[s] /\ allClearRxed[s]
        /\ \A i \in 1 .. 2 : i <= Len(sent[s]) => sent[s][i] = Opening(s)[i]
    BY <1>0, <1>2 DEF Scripted, Said, Exchanging
  <2>2. phase'[s] \in Exchanging => phase'[s] = "waitVersion" /\ s # Leader
    BY <1>4 DEF Exchanging
  <2>3. phase'[s] \in Exchanging => Said(s)' = Len(sent[s])
    BY <2>1, <2>2 DEF Said
  <2>4. phase'[s] = "ready" => Len(sent[s]) >= 2
    BY <1>4, <2>1
  <2> QED BY <1>2, <1>4, <2>1, <2>3, <2>4 DEF Scripted, Opening
<1>8. phase'[s] \in Exchanging => phase[s] \in Exchanging /\ Due(s)' = Due(s) + 1
  <2>1. phase'[s] \in Exchanging => phase'[s] = "waitVersion" /\ s # Leader
    BY <1>4 DEF Exchanging
  <2>2. allClearRxed[s] /\ phase[s] \in Exchanging
    BY <1>0, <1>2 DEF Scripted, Exchanging
  <2> QED BY <1>2, <2>1, <2>2 DEF Due
<1>9. Stream(p)' = Stream(p)
  BY <1>2, <1>3 DEF Stream
<1>10. Traffic'
  BY <1>0, <1>2, <1>3, <1>4, <1>8, <1>9, Taken
<1> QED BY <1>1, <1>5, <1>6, <1>7, <1>10 DEF ExchangeInv

(* waitVersionAndSendAck takes a message and acknowledges a Version.       *)
LEMMA ExchangeWaitVersion ==
  ASSUME Follower # Leader, ExchangeInv, NEW s \in Site, WaitVersion(s)
  PROVE  ExchangeInv'
<1> DEFINE p == Peer(s)
           h == Head(external_q[s])
<1>0. TypeOK /\ Traffic /\ \A q \in Site : Scripted(q)
  BY DEF ExchangeInv
<1>1. p \in Site /\ p # s /\ Site = {s, p}
  BY Peers
<1>2. /\ phase[s] = "waitVersion" /\ external_q[s] # <<>>
      /\ external_q' = [external_q EXCEPT ![s] = Tail(@)]
      /\ UNCHANGED <<allClearRxed, ext, stop, link, version, timeouts, handledLate>>
  BY DEF WaitVersion
<1>3. /\ Len(sent[s]) = (IF s = Leader THEN 0 ELSE 1) /\ ~ext[s] /\ allClearRxed[s]
      /\ \A i \in 1 .. 2 : i <= Len(sent[s]) => sent[s][i] = Opening(s)[i]
      /\ phase[s] \in Exchanging /\ sent[s] \in Seq(Kind) /\ Len(sent[s]) \in Nat
  BY <1>0, <1>2, Streams DEF Scripted, Said, Exchanging
<1>4. CASE h.kind # "Version"
  <2>1. Fail(s) /\ UNCHANGED <<net, sent>>
    BY <1>4 DEF WaitVersion
  <2>2. /\ Stream(s) # <<>> /\ Stream(s)' = Tail(Stream(s))
        /\ external_q' \in [Site -> Seq(Msg)] /\ external_q'[p] = external_q[p]
    BY <1>0, <1>2, <2>1, TakesFirst
  <2>3. phase' \in [Site -> Phases] /\ phase'[p] = phase[p] /\ phase'[s] = "failed"
    BY <1>0, <2>1, Fails
  <2>4. TypeOK'
    BY <1>0, <1>2, <2>1, <2>2, <2>3 DEF TypeOK
  <2>5. Scripted(p)'
    BY <1>0, <1>1, <1>2, <2>1, <2>3, ScriptedSame
  <2>6. Scripted(s)'
    BY <1>2, <1>3, <2>1, <2>3 DEF Scripted, Exchanging, Opening
  <2>7. phase'[s] \notin Exchanging
    BY <2>3 DEF Exchanging
  <2>8. Stream(p)' = Stream(p)
    BY <2>1, <2>2 DEF Stream
  <2>9. Traffic'
    BY <1>0, <1>2, <2>1, <2>2, <2>3, <2>7, <2>8, Taken
  <2> QED BY <1>1, <2>4, <2>5, <2>6, <2>9 DEF ExchangeInv
<1>5. CASE h.kind = "Version"
  <2>1. sendMessage(s, "MessageAck", h.mId) /\ phase' = NextPhase(s)
    BY <1>5 DEF WaitVersion
  <2>2. "MessageAck" \in Kind /\ "MessageAck" \in Answers
    BY DEF Kind, Answers
  <2>3. h \in Msg /\ h.mId \in Nat
    <3>1. external_q[s] \in Seq(Msg)
      BY <1>0 DEF TypeOK
    <3> QED BY <1>2, <3>1, Tailed, Fields
  <2>4. /\ sent' \in [Site -> Seq(Kind)] /\ net' \in [Site -> Seq(Msg)]
        /\ sent'[s] = Append(sent[s], "MessageAck") /\ sent'[p] = sent[p] /\ net'[s] = net[s]
        /\ \E m \in Msg :
              /\ m.kind = "MessageAck" /\ m.mId = Len(sent[s]) + 1 /\ m.oMId = h.mId
              /\ net'[p] = IF Heard(s) THEN Append(net[p], m) ELSE net[p]
    BY <1>0, <2>1, <2>2, <2>3, Sends
  <2>5. PICK m \in Msg :
              /\ m.kind = "MessageAck" /\ m.mId = Len(sent[s]) + 1 /\ m.oMId = h.mId
              /\ net'[p] = IF Heard(s) THEN Append(net[p], m) ELSE net[p]
    BY <2>4
  <2>6. /\ Stream(s) # <<>> /\ Stream(s)' = Tail(Stream(s)) /\ Stream(s)[1] = h
        /\ external_q' \in [Site -> Seq(Msg)] /\ external_q'[p] = external_q[p]
    BY <1>0, <1>2, <2>4, TakesFirst
  <2>7. /\ phase' \in [Site -> Phases] /\ phase'[p] = phase[p]
        /\ phase'[s] = IF s = Leader THEN "sendVersion" ELSE "ready"
    BY <1>0, <1>2, <2>1, Advances DEF Site
  <2>8. TypeOK'
    BY <1>0, <1>2, <2>4, <2>6, <2>7 DEF TypeOK
  <2>9. Scripted(p)'
    BY <1>0, <1>1, <1>2, <2>4, <2>7, ScriptedSame
  <2>10. Scripted(s)'
    <3>1. /\ Len(sent'[s]) = Len(sent[s]) + 1 /\ sent'[s][Len(sent[s]) + 1] = "MessageAck"
          /\ \A i \in 1 .. Len(sent[s]) : sent'[s][i] = sent[s][i]
      BY <1>3, <2>2, <2>4, Appended
    <3>2. \A i \in 1 .. 2 : i <= Len(sent'[s]) => sent'[s][i] = Opening(s)[i]
      BY <1>3, <3>1 DEF Opening
    <3>3. Len(sent'[s]) = IF s = Leader THEN 1 ELSE 2
      BY <1>3, <3>1
    <3>4. phase'[s] \in Exchanging => Said(s)' = Len(sent'[s])
      BY <2>7, <3>3 DEF Said, Exchanging
    <3>5. phase'[s] = "ready" => Len(sent'[s]) >= 2
      BY <2>7, <3>3
    <3> QED BY <1>2, <1>3, <2>7, <3>2, <3>4, <3>5 DEF Scripted, Opening
  <2>11. phase'[s] \in Exchanging => phase[s] \in Exchanging /\ Due(s)' = Due(s) + 1
    BY <1>2, <1>3, <2>7 DEF Due, Exchanging
  <2>12. h.mId = IF s = Leader THEN 1 ELSE 2
    <3>1. Stream(s)[1].mId = Due(s)
      BY <1>0, <1>3, <2>6 DEF Traffic, Unread
    <3> QED BY <1>2, <1>3, <2>6, <3>1 DEF Due
  <2>13. Stream(p)' = IF Heard(s) THEN Append(Stream(p), m) ELSE Stream(p)
    BY <1>0, <2>5, <2>6, PutsLast
  <2>14. Traffic'
    <3>1. m.kind \in Answers /\ sent'[s] = Append(sent[s], m.kind) /\ m.mId = Len(sent[s]) + 1
      BY <2>2, <2>4, <2>5
    <3>2. m.oMId = Stream(s)[1].mId /\ Stream(s)[1].kind \in AckWanted /\ m.oMId = m.mId
      BY <1>3, <1>5, <2>5, <2>6, <2>12 DEF AckWanted
    <3> QED BY <1>0, <1>2, <2>4, <2>6, <2>7, <2>11, <2>13, <3>1, <3>2, Answered
  <2> QED BY <1>1, <2>8, <2>9, <2>10, <2>14 DEF ExchangeInv
<1> QED BY <1>4, <1>5

(* external_receive takes a message and answers it when it asks for it.    *)
LEMMA ExchangeHandle ==
  ASSUME Follower # Leader, ExchangeInv, NEW s \in Site, Handle(s)
  PROVE  ExchangeInv'
<1> DEFINE p == Peer(s)
           h == Head(external_q[s])
           a == Answer(h.kind)
<1>0. TypeOK /\ Traffic /\ \A q \in Site : Scripted(q)
  BY DEF ExchangeInv
<1>1. p \in Site /\ p # s /\ Site = {s, p}
  BY Peers
<1>2. /\ ext[s] /\ external_q[s] # <<>>
      /\ external_q' = [external_q EXCEPT ![s] = Tail(@)]
      /\ IF a = "none" THEN UNCHANGED <<net, sent>> ELSE sendMessage(s, a, h.mId)
      /\ handledLate' = (handledLate \/ stop[s])
      /\ UNCHANGED <<allClearRxed, phase, ext, stop, link, version, timeouts>>
  BY DEF Handle
<1>3. handledLate' \in BOOLEAN
  BY <1>0, <1>2 DEF TypeOK
<1>4. phase[s] = "ready" /\ phase'[s] \notin Exchanging /\ sent[s] \in Seq(Kind) /\ Len(sent[s]) \in Nat
  BY <1>0, <1>2, Streams DEF Scripted, Exchanging
<1>5. h \in Msg /\ h.kind \in Kind /\ h.mId \in Nat
  <2>1. external_q[s] \in Seq(Msg)
    BY <1>0 DEF TypeOK
  <2> QED BY <1>2, <2>1, Tailed, Fields
<1>6. CASE a = "none"
  <2>1. UNCHANGED <<net, sent>>
    BY <1>2, <1>6
  <2>2. /\ Stream(s) # <<>> /\ Stream(s)' = Tail(Stream(s))
        /\ external_q' \in [Site -> Seq(Msg)] /\ external_q'[p] = external_q[p]
    BY <1>0, <1>2, <2>1, TakesFirst
  <2>3. TypeOK'
    BY <1>0, <1>2, <1>3, <2>1, <2>2 DEF TypeOK
  <2>4. \A q \in Site : Scripted(q)'
    BY <1>0, <1>2, <2>1, ScriptedSame
  <2>5. Stream(p)' = Stream(p)
    BY <2>1, <2>2 DEF Stream
  <2>6. Traffic'
    BY <1>0, <1>2, <1>4, <2>1, <2>2, <2>5, Taken
  <2> QED BY <2>3, <2>4, <2>6 DEF ExchangeInv
<1>7. CASE a # "none"
  <2>1. sendMessage(s, a, h.mId)
    BY <1>2, <1>7
  <2>2. h.kind \in AckWanted /\ a \in Answers /\ a \in Kind
    BY <1>7 DEF Answer, AckWanted, Answers, Kind
  <2> HIDE DEF a
  <2>3. /\ sent' \in [Site -> Seq(Kind)] /\ net' \in [Site -> Seq(Msg)]
        /\ sent'[s] = Append(sent[s], a) /\ sent'[p] = sent[p] /\ net'[s] = net[s]
        /\ \E m \in Msg :
              /\ m.kind = a /\ m.mId = Len(sent[s]) + 1 /\ m.oMId = h.mId
              /\ net'[p] = IF Heard(s) THEN Append(net[p], m) ELSE net[p]
    BY <1>0, <1>5, <2>1, <2>2, Sends
  <2>4. PICK m \in Msg :
              /\ m.kind = a /\ m.mId = Len(sent[s]) + 1 /\ m.oMId = h.mId
              /\ net'[p] = IF Heard(s) THEN Append(net[p], m) ELSE net[p]
    BY <2>3
  <2>5. /\ Stream(s) # <<>> /\ Stream(s)' = Tail(Stream(s)) /\ Stream(s)[1] = h
        /\ external_q' \in [Site -> Seq(Msg)] /\ external_q'[p] = external_q[p]
    BY <1>0, <1>2, <2>3, TakesFirst
  <2>6. TypeOK'
    BY <1>0, <1>2, <1>3, <2>3, <2>5 DEF TypeOK
  <2>7. Scripted(p)'
    BY <1>0, <1>1, <1>2, <2>3, ScriptedSame
  <2>8. Scripted(s)'
    BY <1>0, <1>2, <1>4, <2>2, <2>3, ScriptedMore
  <2>9. Stream(p)' = IF Heard(s) THEN Append(Stream(p), m) ELSE Stream(p)
    BY <1>0, <2>4, <2>5, PutsLast
  <2>10. Traffic'
    <3>1. m.kind \in Answers /\ sent'[s] = Append(sent[s], m.kind) /\ m.mId = Len(sent[s]) + 1
      BY <2>2, <2>3, <2>4
    <3>2. m.oMId = Stream(s)[1].mId /\ Stream(s)[1].kind \in AckWanted
      BY <2>2, <2>4, <2>5
    <3>3. ~(m.mId <= 2)
      BY <1>0, <1>4, <2>4 DEF Scripted
    <3> QED BY <1>0, <1>2, <1>4, <2>3, <2>5, <2>9, <3>1, <3>2, <3>3, Answered
  <2> QED BY <1>1, <2>6, <2>7, <2>8, <2>10 DEF ExchangeInv
<1> QED BY <1>6, <1>7
-----------------------------------------------------------------------------
LEMMA ExchangeInit == ASSUME Follower # Leader, Init PROVE ExchangeInv
<1> DEFINE clear == [kind |-> "AllClear", mId |-> 0, oMId |-> 0]
<1>1. clear \in Msg /\ clear.kind = "AllClear" /\ clear.mId = 0 /\ clear.kind \notin Answers
  BY DEF Msg, Kind, Answers
<1> HIDE DEF clear
<1>2. /\ net = [s \in Site |-> <<clear>>] /\ external_q = [s \in Site |-> <<>>]
      /\ sent = [s \in Site |-> <<>>] /\ allClearRxed = [s \in Site |-> FALSE]
      /\ phase = [s \in Site |-> "idle"] /\ ext = [s \in Site |-> FALSE]
  BY DEF Init, clear
<1>3. <<clear>> \in Seq(Msg) /\ Len(<<clear>>) = 1 /\ <<clear>>[1] = clear
  BY <1>1
<1>4. TypeOK
  <2>1. net \in [Site -> Seq(Msg)]
    BY <1>2, <1>3
  <2>2. external_q \in [Site -> Seq(Msg)] /\ sent \in [Site -> Seq(Kind)]
    BY <1>2
  <2> QED BY <2>1, <2>2 DEF Init, TypeOK, Phases
<1> SUFFICES ASSUME NEW s \in Site
             PROVE  Scripted(s) /\ Unread(s) /\ Answering(Stream(s), sent[s], Stream(Peer(s)))
  BY <1>4 DEF ExchangeInv, Traffic
<1>5. Peer(s) \in Site
  BY Peers
<1>6. Stream(s) = <<clear>>
  <2>1. external_q[s] = <<>> /\ net[s] = <<clear>>
    BY <1>2
  <2> QED BY <1>3, <2>1, ConcatEmptySeq DEF Stream
<1>7. sent[s] = <<>> /\ sent[Peer(s)] = <<>> /\ phase[s] = "idle" /\ ~ext[s] /\ ~allClearRxed[s]
  BY <1>2, <1>5
<1>8. Scripted(s)
  BY <1>7 DEF Scripted, Said, Exchanging
<1>9. \A i \in 1 .. 1 : i = 1
  OBVIOUS
<1>10. Consecutive(<<clear>>, <<>>)
  BY <1>1, <1>3, <1>9 DEF Consecutive
<1>11. Unread(s)
  BY <1>1, <1>3, <1>6, <1>7, <1>10 DEF Unread, Due
<1>12. Answering(Stream(s), sent[s], Stream(Peer(s)))
  BY <1>1, <1>3, <1>6, <1>9 DEF Answering
<1> QED BY <1>8, <1>11, <1>12

LEMMA ExchangeStep ==
  ASSUME Follower # Leader, ExchangeInv, [Next]_vars
  PROVE  ExchangeInv'
<1>1. CASE UNCHANGED vars
  BY <1>1, ExchangeEnds DEF vars, ExchangeInv, TypeOK
<1>2. CASE Break
  BY <1>2, ExchangeEnds DEF Break, ExchangeInv, TypeOK
<1>3. ASSUME NEW s \in Site, WatchdogTimeout(s) \/ Closed(s) PROVE ExchangeInv'
  <2>1. stop \in [Site -> BOOLEAN] /\ link \in BOOLEAN
    BY DEF ExchangeInv, TypeOK
  <2>2. /\ stop' = [stop EXCEPT ![s] = TRUE] /\ link' \in {link, FALSE}
        /\ UNCHANGED <<allClearRxed, phase, ext, net, external_q, sent, version, timeouts, handledLate>>
    BY <1>3 DEF WatchdogTimeout, Closed
  <2>3. stop' \in [Site -> BOOLEAN] /\ \A q \in Site : stop[q] => stop'[q]
    BY <2>1, <2>2
  <2>4. link' \in BOOLEAN /\ (link' => link)
    <3>1. CASE link' = link
      BY <2>1, <3>1
    <3>2. CASE link' = FALSE
      BY <3>2
    <3> QED BY <2>2, <3>1, <3>2
  <2> QED BY <2>2, <2>3, <2>4, ExchangeEnds
<1>4. ASSUME NEW s \in Site, Exchange(s) PROVE ExchangeInv'
  BY <1>4, ExchangeReady, ExchangeSendVersion, ExchangeWaitAck, ExchangeWaitVersion, ExchangeStart
     DEF Exchange
<1>5. ASSUME NEW s \in Site, Receive(s) \/ WaitTimeout(s) \/ SendPeriodic(s) \/ Handle(s)
      PROVE  ExchangeInv'
  BY <1>5, ExchangeReceive, ExchangeTimeout, ExchangePeriodic, ExchangeHandle
<1> QED BY <1>1, <1>2, <1>3, <1>4, <1>5 DEF Next

(* The first message a waiting side has received is the one its phase says.*)
LEMMA WaitsMeet ==
  ASSUME Follower # Leader, ExchangeInv
  PROVE  AckIsForVersion /\ VersionArrivesFirst
<1>0. TypeOK /\ Traffic /\ \A q \in Site : Scripted(q)
  BY DEF ExchangeInv
<1> SUFFICES ASSUME NEW s \in Site, phase[s] \in {"waitAck", "waitVersion"}, external_q[s] # <<>>
             PROVE  /\ phase[s] = "waitAck" => /\ Head(external_q[s]).kind = "MessageAck"
                                               /\ Head(external_q[s]).oMId = version[s]
                    /\ phase[s] = "waitVersion" => Head(external_q[s]).kind = "Version"
  BY DEF AckIsForVersion, VersionArrivesFirst
<1> DEFINE p == Peer(s)
           h == Head(external_q[s])
<1>1. p \in Site /\ (s = Leader \/ s = Follower) /\ (s = Leader <=> p # Leader)
  BY DEF Peer, Site
<1>2. external_q[s] \in Seq(Msg) /\ net[s] \in Seq(Msg) /\ Stream(s) \in Seq(Msg)
  BY <1>0, Streams
<1>3. Stream(s) # <<>> /\ Stream(s)[1] = h /\ 1 \in 1 .. Len(Stream(s))
  <2>1. external_q[s] \o net[s] # <<>> /\ (external_q[s] \o net[s])[1] = h
    BY <1>2, StreamTaken
  <2>2. Stream(s) # <<>> /\ Stream(s)[1] = h
    BY <2>1 DEF Stream
  <2>3. Len(Stream(s)) \in Nat \ {0}
    BY <1>2, <2>2, Tailed
  <2> QED BY <2>2, <2>3
<1>4. allClearRxed[s] /\ phase[s] \in Exchanging
  BY <1>0 DEF Scripted, Exchanging
<1>5. h.mId = Due(s) /\ Due(s) \in 1 .. 2
  BY <1>0, <1>3, <1>4 DEF Traffic, Unread, Due
<1>6. h.mId <= Len(sent[p]) /\ sent[p][h.mId] = h.kind
  BY <1>0, <1>3, <1>5 DEF Traffic, Unread, Consecutive
<1>7. h.kind = Opening(p)[h.mId]
  BY <1>0, <1>1, <1>5, <1>6 DEF Scripted
<1>8. ASSUME phase[s] = "waitAck" PROVE h.kind = "MessageAck" /\ h.oMId = version[s]
  <2>1. h.mId = (IF s = Leader THEN 2 ELSE 1) /\ version[s] = (IF s = Leader THEN 2 ELSE 1)
    BY <1>0, <1>4, <1>5, <1>8 DEF Due, Scripted, Said
  <2>2. h.kind = "MessageAck"
    BY <1>1, <1>7, <2>1 DEF Opening
  <2>3. h.oMId = h.mId
    BY <1>0, <1>3, <2>1, <2>2 DEF Traffic, Answering, Answers
  <2> QED BY <2>1, <2>2, <2>3
<1>9. ASSUME phase[s] = "waitVersion" PROVE h.kind = "Version"
  <2>1. h.mId = IF s = Leader THEN 1 ELSE 2
    BY <1>4, <1>5, <1>9 DEF Due
  <2> QED BY <1>1, <1>7, <2>1 DEF Opening
<1> QED BY <1>8, <1>9

(* The answers in flight are the answers of the stream.                    *)
LEMMA AnswersEnd ==
  ASSUME Follower # Leader, ExchangeInv
  PROVE  AnswersAreFinal
<1>0. TypeOK /\ Traffic
  BY DEF ExchangeInv
<1> SUFFICES ASSUME NEW s \in Site, NEW m \in InFlight(s), m.kind \in Answers
             PROVE  /\ m.oMId \in DOMAIN sent[s] /\ sent[s][m.oMId] \in AckWanted
                    /\ \A n \in InFlight(s) : n.kind \in Answers /\ n.oMId = m.oMId => n = m
  BY DEF AnswersAreFinal, Answers
<1> DEFINE st == Stream(s)
<1>1. external_q[s] \in Seq(Msg) /\ net[s] \in Seq(Msg) /\ st \in Seq(Msg) /\ sent[s] \in Seq(Kind)
  BY <1>0, Streams
<1>2. ASSUME NEW n \in InFlight(s) PROVE \E i \in 1 .. Len(st) : n = st[i]
  <2> DEFINE e == external_q[s]
             w == net[s]
  <2>1. /\ Len(st) = Len(e) + Len(w) /\ Len(e) \in Nat /\ Len(w) \in Nat
        /\ \A i \in 1 .. Len(e) : st[i] = e[i]
        /\ \A i \in 1 .. Len(w) : st[Len(e) + i] = w[i]
    <3>1. e \in Seq(Msg) /\ w \in Seq(Msg) /\ st = e \o w
      BY <1>1 DEF Stream
    <3> HIDE DEF e, w, st
    <3> QED BY <3>1, Joined
  <2>2. DOMAIN e = 1 .. Len(e) /\ DOMAIN w = 1 .. Len(w)
    BY <1>1, LenProperties
  <2>3. (\E i \in DOMAIN w : n = w[i]) \/ (\E i \in DOMAIN e : n = e[i])
    BY DEF InFlight
  <2> HIDE DEF e, w, st
  <2>4. ASSUME NEW i \in DOMAIN w, n = w[i] PROVE \E j \in 1 .. Len(st) : n = st[j]
    <3>1. Len(e) + i \in 1 .. Len(st) /\ st[Len(e) + i] = w[i]
      BY <2>1, <2>2, <2>4
    <3> QED BY <2>4, <3>1
  <2>5. ASSUME NEW i \in DOMAIN e, n = e[i] PROVE \E j \in 1 .. Len(st) : n = st[j]
    <3>1. i \in 1 .. Len(st) /\ st[i] = e[i]
      BY <2>1, <2>2, <2>5
    <3> QED BY <2>5, <3>1
  <2> QED BY <2>3, <2>4, <2>5
<1>3. PICK i \in 1 .. Len(st) : m = st[i]
  BY <1>2
<1>4. Answering(st, sent[s], Stream(Peer(s)))
  BY <1>0 DEF Traffic
<1>5. m.oMId \in DOMAIN sent[s] /\ sent[s][m.oMId] \in AckWanted
  <2>1. DOMAIN sent[s] = 1 .. Len(sent[s])
    BY <1>1, LenProperties
  <2> QED BY <1>3, <1>4, <2>1 DEF Answering
<1>6. ASSUME NEW n \in InFlight(s), n.kind \in Answers, n.oMId = m.oMId PROVE n = m
  <2>1. PICK j \in 1 .. Len(st) : n = st[j]
    BY <1>2
  <2>2. m.oMId \in Nat /\ n.oMId \in Nat
    BY <1>1, <1>3, <2>1, Fields
  <2>3. ~(j > i)
    BY <1>3, <1>4, <1>6, <2>1, <2>2 DEF Answering
  <2>4. ~(i > j)
    BY <1>3, <1>4, <1>6, <2>1, <2>2 DEF Answering
  <2>5. i = j
    BY <2>3, <2>4
  <2> QED BY <1>3, <2>1, <2>5
<1> QED BY <1>5, <1>6

(* Whatever is lost, delayed or stopped, each wait of echange_versions,    *)
(* which takes the next message and compares no identifier, meets the      *)
(* message it is for, and external_receive answers each message at most    *)
(* once and no answer.                                                     *)
THEOREM VersionsInOrder ==
  ASSUME Follower # Leader
  PROVE  Spec => []ExchangeInOrder
<1>1. Init => ExchangeInv
  BY ExchangeInit
<1>2. ExchangeInv /\ [Next]_vars => ExchangeInv'
  BY ExchangeStep
<1>3. ExchangeInv => ExchangeInOrder
  BY WaitsMeet, AnswersEnd DEF ExchangeInOrder, ExchangeInv
<1> QED BY <1>1, <1>2, <1>3, PTL DEF Spec
=============================================================================
