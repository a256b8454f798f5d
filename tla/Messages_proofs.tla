---------------------------- MODULE Messages_proofs ----------------------------
(***************************************************************************)
(* The coder of the secure session, for any logins, passwords and number   *)
(* of messages, and for another implementation whose messages lack a member *)
(* or have one changed: each message reaches the layer it is for, once and *)
(* whole, but for a Pong that repeats a marker; an oMId that is too long   *)
(* and a payload that cannot be decoded alone make the receiver fail.      *)
(***************************************************************************)
EXTENDS MCMessages, Site_proofs, FiniteSetTheorems, TLAPS

-----------------------------------------------------------------------------
(* Why it is: what is in a place is an element as it was built, and no     *)
(* number is in two.                                                       *)

\* The documents that can be sent.
ApplicationTexts == {[mType |-> t, text |-> x] : t \in {"rSMsg", "fit"}, x \in {"fit", "eRMsg"}}
Changed == UNION {Altered(whole) : whole \in PeerMessages}
Documents == PeerMessages \union ApplicationTexts \union Changed

PlainElement ==
    [n : Nat, key : Key, ptxt : [class : {"INTERNAL", "EXTERNAL", "unknown"}, original : Documents]]

Shapes ==
    /\ to \in [Login -> Key \X Key]
    /\ built \in Seq([author : {"own", "application", "other"}, login : Login, element : PlainElement])
    /\ net \in Seq([login : Login, data : Seq(PlainElement)])
    /\ {internal_q, external_q} \subseteq Seq([n : Nat, doc : Documents, auth : Login])
    /\ handled \in Seq([n : Nat, msg : UNION {deserializeMessage(d) : d \in Documents}, auth : Login])

\* A built element has its place as number, its author's kind of document, and
\* the class ptxt_set finds in it unless another implementation wrote it.
KindOf(author, ptxt) ==
    /\ author = "own" => ptxt.original \in PeerMessages
    /\ author = "application" => ptxt.original \in ApplicationTexts
    /\ author = "other" => ptxt.original \in PeerMessages \union Changed
    /\ author # "other" => ptxt.class = ptxt_set(ptxt.original)

AsBuilt ==
    \A n \in DOMAIN built :
        built[n].element.n = n /\ KindOf(built[n].author, built[n].element.ptxt)

Numbers(q) == {q[i].n : i \in DOMAIN q}
NoRepeat(q) == \A i, j \in DOMAIN q : q[i].n = q[j].n => i = j

\* The messages on their way: one or two elements, as they were built.
OnTheirWay ==
    /\ \A i \in DOMAIN net :
          /\ Len(net[i].data) \in {1, 2} /\ NoRepeat(net[i].data)
          /\ \A j \in DOMAIN net[i].data :
                LET e == net[i].data[j]
                IN  e.n \in DOMAIN built /\ e = built[e.n].element /\ net[i].login = built[e.n].login
    /\ \A i, j \in DOMAIN net : i # j => Numbers(net[i].data) \intersect Numbers(net[j].data) = {}

\* A queue holds elements of its class, with the entry of their login.
Queued(q, class) ==
    /\ NoRepeat(q)
    /\ \A i \in DOMAIN q :
          /\ q[i].n \in DOMAIN built
          /\ LET b == built[q[i].n]
             IN  /\ b.login = q[i].auth /\ b.element.ptxt.original = q[i].doc
                 /\ b.element.ptxt.class = class /\ ptxt_is_valid(b.element.ptxt)

AsHandled ==
    /\ NoRepeat(handled)
    /\ \A i \in DOMAIN handled :
          /\ handled[i].n \in DOMAIN built
          /\ LET b == built[handled[i].n]
             IN  /\ b.login = handled[i].auth /\ b.element.ptxt.class = "INTERNAL"
                 /\ handled[i].msg \in deserializeMessage(b.element.ptxt.original)

\* What is lost is lost for its own fault.
Refusable(text) == deserializeMessage(text) = {} \/ Overruns(text)
AsLost ==
    /\ \A n \in DOMAIN lost : lost[n] \in {"refused", "unreadable", "cut", "malformed"}
    /\ \A n \in DOMAIN lost : n \in DOMAIN built =>
          LET b == built[n]
          IN  /\ lost[n] = "malformed" => Refusable(b.element.ptxt.original)
              /\ lost[n] = "unreadable" => ~Readable(b.login, b.element)

\* The places, each with its numbers.
Places ==
    <<UNION {Numbers(net[i].data) : i \in DOMAIN net}, Numbers(internal_q), Numbers(external_q),
      Numbers(handled), DOMAIN lost>>

InOnePlace ==
    /\ \A n \in DOMAIN built : \E p \in 1 .. 5 : n \in Places[p]
    /\ \A p \in 1 .. 5 : Places[p] \subseteq DOMAIN built
    /\ \A p, r \in 1 .. 5 : p # r => Places[p] \intersect Places[r] = {}

SecureInv ==
    /\ Shapes /\ AsBuilt /\ OnTheirWay /\ AsHandled /\ AsLost /\ InOnePlace
    /\ Queued(internal_q, "INTERNAL") /\ Queued(external_q, "EXTERNAL")
    /\ DOMAIN from \subseteq Login /\ up \in BOOLEAN /\ junk \in 0 .. MaxJunk
    /\ ptxt_list \in {"undefined", "freed"} /\ FailsOnlyThen

-----------------------------------------------------------------------------
(* Documents.                                                              *)

(* A document with the members of its type, each with an accepted text; only *)
(* the padding of a Pong may be a marker.                                  *)
WellWritten(text) ==
    /\ text["type"] \in MessageTypes
    /\ DOMAIN text = {"mType", "mId", "type"} \union MessageFields[text["type"]]
    /\ text["mType"] = "eRMsg" /\ text["mId"] = "fit"
    /\ \A k \in MessageFields[text["type"]] :
          IF k = "status" THEN text[k] \in {"true", "false"}
            ELSE text[k] = "fit" \/ (k = "pad" /\ text["type"] = "Pong" /\ text[k] \in Words)

LEMMA FieldsOfTypes ==
  /\ MessageTypes = {"AllClear", "ChangePwdRequest", "ChangePwdResponse", "Ping", "Pong"}
  /\ \A t \in MessageTypes : MessageFields[t] \subseteq {"pwd", "oMId", "status", "pad"}
  /\ MessageFields["ChangePwdRequest"] = {"pwd"}
BY DEF MessageTypes, MessageFields

LEMMA OwnDocument ==
  ASSUME NEW text \in PeerMessages
  PROVE  WellWritten(text)
<1> USE DEF serializeMessage, MessageTypes, MessageFields, WellWritten
<1>1. PICK m \in OwnMessages \union
         {[type |-> "ChangePwdRequest", mId |-> "fit", pwd |-> "fit"],
          [type |-> "Ping", mId |-> "fit", pad |-> "fit"]} : text = serializeMessage(m)
  BY DEF PeerMessages
<1>2. CASE m = [type |-> "AllClear", mId |-> "fit"]
  BY <1>1, <1>2
<1>3. ASSUME NEW x \in {"fit"} \union Words,
             m = [type |-> "Pong", mId |-> "fit", pad |-> x, oMId |-> "fit"]
      PROVE  WellWritten(text)
  BY <1>1, <1>3
<1>4. ASSUME NEW b \in {"true", "false"},
             m = [type |-> "ChangePwdResponse", mId |-> "fit", oMId |-> "fit", status |-> b]
      PROVE  WellWritten(text)
  BY <1>1, <1>4
<1>5. CASE m = [type |-> "ChangePwdRequest", mId |-> "fit", pwd |-> "fit"]
  BY <1>1, <1>5
<1>6. CASE m = [type |-> "Ping", mId |-> "fit", pad |-> "fit"]
  BY <1>1, <1>6
<1> QED BY <1>2, <1>3, <1>4, <1>5, <1>6 DEF OwnMessages

(* Such a document is valid and read back, and it is classed internal unless *)
(* it is a Pong that repeats the marker of RSMP.                           *)
LEMMA WellWrittenIsRead ==
  ASSUME NEW text, WellWritten(text)
  PROVE  /\ Marked(text, "eRMsg") /\ deserializeMessage(text) # {} /\ ~Overruns(text)
         /\ ptxt_set(text) \in {"INTERNAL", "EXTERNAL"}
         /\ ptxt_set(text) = "EXTERNAL" => text["type"] = "Pong" /\ text["pad"] = "rSMsg"
<1> USE DEF WellWritten, MessageTypes, MessageFields
<1>1. \A k \in DOMAIN text :
         text[k] \in {"eRMsg", "fit", "true", "false"} \union MessageTypes
           \/ (k = "pad" /\ text["type"] = "Pong" /\ text[k] \in Words)
  OBVIOUS
<1>2. Marked(text, "eRMsg")
  BY DEF Marked
<1>3. Marked(text, "rSMsg") => text["type"] = "Pong" /\ text["pad"] = "rSMsg"
  BY <1>1 DEF Marked
<1>4. HeadIsRead(text)
  BY DEF HeadIsRead, HasText, NoText
<1>5. \A f \in MessageFields[text["type"]] : HasField(text, f)
  BY DEF HasText, HasField, NoText, Words
<1>6. ~Overruns(text)
  BY DEF Overruns
<1> DEFINE m == [k \in {"mId", "type"} \union MessageFields[text["type"]] |-> text[k]]
<1>7. messageCheckFields(m)
  BY DEF messageCheckFields, Words
<1>8. m \in deserializeMessage(text)
  BY <1>4, <1>5, <1>6, <1>7 DEF deserializeMessage
<1> QED BY <1>2, <1>3, <1>6, <1>8 DEF ptxt_set

(* What the application sends is no message of the session.                *)
LEMMA ApplicationText ==
  ASSUME NEW text \in ApplicationTexts
  PROVE  /\ deserializeMessage(text) = {} /\ ~Overruns(text)
         /\ ptxt_set(text) = "INTERNAL" => text["mType"] # "rSMsg"
<1>1. PICK t \in {"rSMsg", "fit"}, x \in {"fit", "eRMsg"} : text = [mType |-> t, text |-> x]
  BY DEF ApplicationTexts
<1>2. text["mType"] # "eRMsg"
  BY <1>1
<1>3. text["mType"] = "rSMsg" => Marked(text, "rSMsg")
  BY <1>1 DEF Marked
<1>4. deserializeMessage(text) = {} /\ ~Overruns(text)
  BY <1>2 DEF deserializeMessage, Overruns, HeadIsRead
<1>5. ptxt_set(text) = "INTERNAL" => ~Marked(text, "rSMsg")
  BY DEF ptxt_set
<1> QED BY <1>3, <1>4, <1>5

LEMMA AlteredIs ==
  ASSUME NEW whole, NEW text \in Altered(whole)
  PROVE  \/ \E x \in DOMAIN whole : text = Lacking(whole, x)
         \/ \E x \in DOMAIN whole, v \in {"number", "empty", "long", "rSMsg"} : text = Having(whole, x, v)
BY DEF Altered

(* The texts of a document.                                                *)
LEMMA DocumentTexts ==
  ASSUME NEW text \in Documents
  PROVE  Range(text) \subseteq Text \union NoText
<1>1. ASSUME NEW d \in PeerMessages, NEW k \in DOMAIN d PROVE d[k] \in Text \union NoText
  <2>1. WellWritten(d)
    BY OwnDocument
  <2>2. k \in {"mType", "mId", "type"} \/ k \in MessageFields[d["type"]]
    BY <2>1 DEF WellWritten
  <2>3. d["mType"] = "eRMsg" /\ d["mId"] = "fit" /\ d["type"] \in MessageTypes
    BY <2>1 DEF WellWritten
  <2>4. k \in MessageFields[d["type"]] => d[k] \in {"true", "false", "fit"} \union Words
    BY <2>1 DEF WellWritten
  <2> QED BY <2>2, <2>3, <2>4 DEF Text, NoText, Words
<1>2. CASE text \in ApplicationTexts
  <2>1. PICK t \in {"rSMsg", "fit"}, x \in {"fit", "eRMsg"} : text = [mType |-> t, text |-> x]
    BY <1>2 DEF ApplicationTexts
  <2>2. \A k \in DOMAIN text : text[k] \in {"rSMsg", "fit", "eRMsg"}
    BY <2>1
  <2> QED BY <2>2 DEF Range, Text, Words
<1>3. ASSUME NEW whole \in PeerMessages, text \in Altered(whole) PROVE Range(text) \subseteq Text \union NoText
  <2>1. \A k \in DOMAIN text : text[k] \in Text \union NoText
    <3>1. ASSUME NEW x \in DOMAIN whole, text = Lacking(whole, x)
          PROVE  \A k \in DOMAIN text : text[k] \in Text \union NoText
      BY <1>1, <3>1 DEF Lacking
    <3>2. ASSUME NEW x \in DOMAIN whole, NEW v \in {"number", "empty", "long", "rSMsg"},
                 text = Having(whole, x, v)
          PROVE  \A k \in DOMAIN text : text[k] \in Text \union NoText
      BY <1>1, <3>2 DEF Having, Text, NoText, Words
    <3> QED BY <1>3, <3>1, <3>2, AlteredIs
  <2> QED BY <2>1 DEF Range
<1> QED BY <1>1, <1>2, <1>3 DEF Documents, Changed, Range

(* A message that is read has the members of its type, checked; unless an   *)
(* array was overrun, they are those of its document.                      *)
LEMMA ReadMessage ==
  ASSUME NEW text, NEW m \in deserializeMessage(text)
  PROVE  /\ m.type \in MessageTypes /\ DOMAIN m = {"mId", "type"} \union MessageFields[m.type]
         /\ ~Overruns(text) => m.type = text["type"] /\ \A k \in DOMAIN m : m[k] = text[k]
         /\ \A f \in MessageFields[m.type] : m[f] # "empty" /\ (m[f] \in NoText => f = "status")
         /\ m.type = "ChangePwdRequest" => m.pwd # "long"
<1> DEFINE w == [k \in {"mId", "type"} \union MessageFields[text["type"]] |-> text[k]]
<1>1. /\ text["type"] \in MessageTypes
      /\ \A f \in MessageFields[text["type"]] : HasField(text, f)
      /\ m \in IF Overruns(text) THEN Overwritten(w) ELSE {w}
      /\ messageCheckFields(m)
  BY DEF deserializeMessage, HeadIsRead
<1>2. CASE m = w
  <2>1. /\ m.type = text["type"] /\ DOMAIN m = {"mId", "type"} \union MessageFields[m.type]
        /\ \A k \in DOMAIN m : m[k] = text[k]
    BY <1>2
  <2>2. MessageFields[m.type] \subseteq {"pwd", "oMId", "status", "pad"}
    BY <1>1, <2>1, FieldsOfTypes
  <2>3. ASSUME NEW f \in MessageFields[m.type] PROVE m[f] # "empty" /\ (m[f] \in NoText => f = "status")
    <3>1. HasField(text, f) /\ m[f] = text[f] /\ f \in DOMAIN m
      BY <1>1, <2>1
    <3>2. CASE f = "status"
      BY <3>1, <3>2 DEF HasField
    <3>3. CASE f # "status"
      BY <1>1, <2>2, <3>1, <3>3 DEF HasField, HasText, messageCheckFields
    <3> QED BY <3>2, <3>3
  <2>4. ASSUME m.type = "ChangePwdRequest" PROVE m.pwd # "long"
    <3>1. "pwd" \in DOMAIN m
      BY <2>1, <2>4, FieldsOfTypes
    <3> QED BY <1>1, <3>1 DEF messageCheckFields
  <2> QED BY <1>1, <2>1, <2>3, <2>4
<1>3. CASE m # w
  <2>1. /\ Overruns(text) /\ text["oMId"] = "long" /\ "oMId" \in MessageFields[text["type"]]
    BY <1>1, <1>3 DEF Overruns, MessageFields
  <2>2. w.oMId = "long"
    BY <2>1
  <2> HIDE DEF w
  <2>3. \/ m = [type |-> "AllClear", mId |-> w.mId]
        \/ m = [type |-> "ChangePwdResponse", mId |-> w.mId, oMId |-> "long", status |-> "true"]
    BY <1>1, <1>3, <2>1, <2>2 DEF Overwritten
  <2>4. CASE m = [type |-> "AllClear", mId |-> w.mId]
    <3>1. m.type = "AllClear" /\ DOMAIN m = {"mId", "type"} /\ MessageFields["AllClear"] = {}
      BY <2>4 DEF MessageFields
    <3> QED BY <2>1, <3>1, FieldsOfTypes
  <2>5. CASE m = [type |-> "ChangePwdResponse", mId |-> w.mId, oMId |-> "long", status |-> "true"]
    <3>1. /\ m.type = "ChangePwdResponse" /\ DOMAIN m = {"mId", "type", "oMId", "status"}
          /\ m.oMId = "long" /\ m.status = "true"
          /\ MessageFields["ChangePwdResponse"] = {"oMId", "status"}
      BY <2>5 DEF MessageFields
    <3>2. \A g \in {"oMId", "status"} : m[g] # "empty" /\ (m[g] \in NoText => g = "status")
      BY <3>1 DEF NoText
    <3> QED BY <2>1, <3>1, <3>2, FieldsOfTypes
  <2> QED BY <2>3, <2>4, <2>5
<1> QED BY <1>2, <1>3
-----------------------------------------------------------------------------
(* Queues.                                                                 *)

LEMMA Joined ==
  ASSUME NEW S, NEW s \in Seq(S), NEW t \in Seq(S)
  PROVE  /\ s \o t \in Seq(S) /\ Numbers(s \o t) = Numbers(s) \union Numbers(t)
         /\ \A i \in DOMAIN (s \o t) :
               (i \in DOMAIN s /\ (s \o t)[i] = s[i])
                 \/ (i - Len(s) \in DOMAIN t /\ (s \o t)[i] = t[i - Len(s)])
         /\ NoRepeat(s) /\ NoRepeat(t) /\ Numbers(s) \intersect Numbers(t) = {} => NoRepeat(s \o t)
<1>1. /\ s \o t \in Seq(S) /\ Len(s \o t) = Len(s) + Len(t) /\ Len(s) \in Nat /\ Len(t) \in Nat
      /\ DOMAIN s = 1 .. Len(s) /\ DOMAIN t = 1 .. Len(t) /\ DOMAIN (s \o t) = 1 .. Len(s) + Len(t)
      /\ \A i \in 1 .. Len(s) + Len(t) : (s \o t)[i] = IF i <= Len(s) THEN s[i] ELSE t[i - Len(s)]
  OBVIOUS
<1>2. \A i \in DOMAIN (s \o t) :
         (i \in DOMAIN s /\ (s \o t)[i] = s[i])
           \/ (i - Len(s) \in DOMAIN t /\ (s \o t)[i] = t[i - Len(s)])
  BY <1>1
<1>3. ASSUME NEW i \in DOMAIN s PROVE i \in DOMAIN (s \o t) /\ (s \o t)[i] = s[i]
  BY <1>1
<1>4. ASSUME NEW i \in DOMAIN t PROVE i + Len(s) \in DOMAIN (s \o t) /\ (s \o t)[i + Len(s)] = t[i]
  <2>1. i + Len(s) \in 1 .. Len(s) + Len(t) /\ ~(i + Len(s) <= Len(s)) /\ (i + Len(s)) - Len(s) = i
    BY <1>1
  <2> QED BY <1>1, <2>1
<1>5. Numbers(s \o t) = Numbers(s) \union Numbers(t)
  <2>1. Numbers(s \o t) \subseteq Numbers(s) \union Numbers(t)
    BY <1>2 DEF Numbers
  <2>2. Numbers(s) \subseteq Numbers(s \o t)
    BY <1>3 DEF Numbers
  <2>3. Numbers(t) \subseteq Numbers(s \o t)
    BY <1>4 DEF Numbers
  <2> QED BY <2>1, <2>2, <2>3
<1>6. ASSUME NoRepeat(s), NoRepeat(t), Numbers(s) \intersect Numbers(t) = {},
             NEW i \in DOMAIN (s \o t), NEW j \in DOMAIN (s \o t), (s \o t)[i].n = (s \o t)[j].n
      PROVE  i = j
  <2>1. CASE i \in DOMAIN s /\ j \in DOMAIN s
    BY <1>3, <1>6, <2>1 DEF NoRepeat
  <2>2. CASE i - Len(s) \in DOMAIN t /\ j - Len(s) \in DOMAIN t
    <3>1. i - Len(s) = j - Len(s)
      BY <1>1, <1>6, <2>2 DEF NoRepeat
    <3> QED BY <1>1, <3>1
  <2>3. CASE i \in DOMAIN s /\ j - Len(s) \in DOMAIN t
    <3>1. (s \o t)[i].n \in Numbers(s) /\ (s \o t)[j].n \in Numbers(t)
      <4>1. (s \o t)[i] = s[i]
        BY <1>3, <2>3
      <4>2. (s \o t)[j] = t[j - Len(s)]
        BY <1>1, <2>3
      <4> QED BY <2>3, <4>1, <4>2 DEF Numbers
    <3> QED BY <1>6, <3>1
  <2>4. CASE j \in DOMAIN s /\ i - Len(s) \in DOMAIN t
    <3>1. (s \o t)[j].n \in Numbers(s) /\ (s \o t)[i].n \in Numbers(t)
      <4>1. (s \o t)[j] = s[j]
        BY <1>3, <2>4
      <4>2. (s \o t)[i] = t[i - Len(s)]
        BY <1>1, <2>4
      <4> QED BY <2>4, <4>1, <4>2 DEF Numbers
    <3> QED BY <1>6, <3>1
  <2> QED BY <1>2, <2>1, <2>2, <2>3, <2>4
<1> QED BY <1>1, <1>2, <1>5, <1>6 DEF NoRepeat

LEMMA JoinedAt ==
  ASSUME NEW S, NEW s \in Seq(S), NEW t \in Seq(S)
  PROVE  /\ s \o t \in Seq(S) /\ Len(s \o t) = Len(s) + Len(t)
         /\ DOMAIN (s \o t) = 1 .. Len(s) + Len(t)
         /\ \A n \in DOMAIN s : n \in DOMAIN (s \o t) /\ (s \o t)[n] = s[n]
         /\ \A i \in DOMAIN t : Len(s) + i \in DOMAIN (s \o t) /\ (s \o t)[Len(s) + i] = t[i]
         /\ \A n \in DOMAIN (s \o t) : n \in DOMAIN s \/ n - Len(s) \in DOMAIN t
<1>1. /\ s \o t \in Seq(S) /\ Len(s \o t) = Len(s) + Len(t) /\ Len(s) \in Nat /\ Len(t) \in Nat
      /\ DOMAIN s = 1 .. Len(s) /\ DOMAIN t = 1 .. Len(t) /\ DOMAIN (s \o t) = 1 .. Len(s) + Len(t)
      /\ \A i \in 1 .. Len(s) + Len(t) : (s \o t)[i] = IF i <= Len(s) THEN s[i] ELSE t[i - Len(s)]
  OBVIOUS
<1>2. ASSUME NEW n \in DOMAIN s PROVE n \in DOMAIN (s \o t) /\ (s \o t)[n] = s[n]
  BY <1>1
<1>3. ASSUME NEW i \in DOMAIN t
      PROVE  Len(s) + i \in DOMAIN (s \o t) /\ (s \o t)[Len(s) + i] = t[i]
  <2>1. Len(s) + i \in 1 .. Len(s) + Len(t) /\ ~(Len(s) + i <= Len(s)) /\ (Len(s) + i) - Len(s) = i
    BY <1>1
  <2> QED BY <1>1, <2>1
<1>4. ASSUME NEW n \in DOMAIN (s \o t) PROVE n \in DOMAIN s \/ n - Len(s) \in DOMAIN t
  BY <1>1
<1> QED BY <1>1, <1>2, <1>3, <1>4

LEMMA TakenOff ==
  ASSUME NEW S, NEW s \in Seq(S), s # <<>>
  PROVE  /\ Tail(s) \in Seq(S) /\ Head(s) = s[1] /\ 1 \in DOMAIN s
         /\ \A i \in DOMAIN Tail(s) : i + 1 \in DOMAIN s /\ i + 1 # 1 /\ Tail(s)[i] = s[i + 1]
         /\ \A i \in DOMAIN s : i # 1 => i - 1 \in DOMAIN Tail(s) /\ Tail(s)[i - 1] = s[i]
         /\ NoRepeat(s) => /\ NoRepeat(Tail(s))
                           /\ Numbers(Tail(s)) = Numbers(s) \ {Head(s).n}
<1>1. /\ Tail(s) \in Seq(S) /\ Head(s) = s[1] /\ Len(s) \in Nat /\ Len(s) >= 1
      /\ DOMAIN s = 1 .. Len(s) /\ DOMAIN Tail(s) = 1 .. Len(s) - 1
      /\ \A i \in 1 .. Len(s) - 1 : Tail(s)[i] = s[i + 1]
  OBVIOUS
<1>2. \A i \in DOMAIN Tail(s) : i + 1 \in DOMAIN s /\ i + 1 # 1 /\ Tail(s)[i] = s[i + 1]
  BY <1>1
<1>3. ASSUME NEW i \in DOMAIN s, i # 1
      PROVE  i - 1 \in DOMAIN Tail(s) /\ Tail(s)[i - 1] = s[i]
  <2>1. i - 1 \in 1 .. Len(s) - 1 /\ (i - 1) + 1 = i
    BY <1>1, <1>3
  <2> QED BY <1>1, <2>1
<1>4. ASSUME NoRepeat(s)
      PROVE  NoRepeat(Tail(s)) /\ Numbers(Tail(s)) = Numbers(s) \ {Head(s).n}
  <2>1. ASSUME NEW i \in DOMAIN Tail(s), NEW j \in DOMAIN Tail(s), Tail(s)[i].n = Tail(s)[j].n
        PROVE  i = j
    <3>1. i + 1 = j + 1
      BY <1>2, <1>4, <2>1 DEF NoRepeat
    <3> QED BY <1>1, <3>1
  <2>2. Numbers(Tail(s)) \subseteq Numbers(s) \ {Head(s).n}
    BY <1>1, <1>2, <1>4 DEF Numbers, NoRepeat
  <2>3. Numbers(s) \ {Head(s).n} \subseteq Numbers(Tail(s))
    BY <1>1, <1>3 DEF Numbers
  <2> QED BY <2>1, <2>2, <2>3 DEF NoRepeat
<1> QED BY <1>1, <1>2, <1>3, <1>4

LEMMA IsASequence ==
  ASSUME NEW S, NEW n \in Nat, NEW f \in [1 .. n -> S]
  PROVE  f \in Seq(S) /\ Len(f) = n
OBVIOUS

(* A message has one or two elements.                                      *)
LEMMA InOrderOf ==
  ASSUME NEW ns \in SUBSET {1, 2}
  PROVE  /\ InOrder(ns) \in Seq(ns)
         /\ \A i, j \in DOMAIN InOrder(ns) : InOrder(ns)[i] = InOrder(ns)[j] => i = j
         /\ \A n \in ns : \E i \in DOMAIN InOrder(ns) : InOrder(ns)[i] = n
<1> DEFINE Rising(s) == \A i, j \in DOMAIN s : i < j => s[i] < s[j]
           D == 1 .. Cardinality(ns)
<1>1. \/ ns = {} /\ D = {}
      \/ \E a \in {1, 2} : ns = {a} /\ D = {1}
      \/ ns = {1, 2} /\ D = {1, 2}
  <2>1. CASE ns = {}
    BY <2>1, FS_EmptySet
  <2>2. ASSUME NEW a \in {1, 2}, ns = {a} PROVE D = {1}
    BY <2>2, FS_Singleton
  <2>3. CASE ns = {1, 2}
    <3>1. Cardinality(ns) = 2
      <4>1. IsFiniteSet({1}) /\ Cardinality({1}) = 1
        BY FS_Singleton
      <4>2. Cardinality({1} \union {2}) = Cardinality({1}) + 1
        BY <4>1, FS_AddElement
      <4>3. ns = {1} \union {2}
        BY <2>3
      <4> QED BY <4>1, <4>2, <4>3
    <3> QED BY <2>3, <3>1
  <2> QED BY <2>1, <2>2, <2>3
<1>2. \E s \in [D -> ns] : Rising(s)
  <2>1. CASE ns = {} /\ D = {}
    <3>1. [i \in D |-> 1] \in [D -> ns] /\ Rising([i \in D |-> 1])
      BY <2>1
    <3> QED BY <3>1
  <2>2. ASSUME NEW a \in {1, 2}, ns = {a}, D = {1} PROVE \E s \in [D -> ns] : Rising(s)
    <3>1. [i \in D |-> a] \in [D -> ns] /\ Rising([i \in D |-> a])
      BY <2>2
    <3> QED BY <3>1
  <2>3. CASE ns = {1, 2} /\ D = {1, 2}
    <3>1. [i \in D |-> i] \in [D -> ns] /\ Rising([i \in D |-> i])
      BY <2>3
    <3> QED BY <3>1
  <2> QED BY <1>1, <2>1, <2>2, <2>3
<1> DEFINE s == InOrder(ns)
<1>3. s \in [D -> ns] /\ Rising(s)
  BY <1>2 DEF InOrder
<1> HIDE DEF s
<1>4. DOMAIN s = D /\ \A i \in D : s[i] \in ns
  BY <1>3
<1>5. s \in Seq(ns)
  <2>1. IsFiniteSet({1, 2})
    <3>1. IsFiniteSet({1})
      BY FS_Singleton
    <3>2. IsFiniteSet({1} \union {2}) /\ {1} \union {2} = {1, 2}
      BY <3>1, FS_AddElement
    <3> QED BY <3>2
  <2>2. Cardinality(ns) \in Nat
    BY <2>1, FS_Subset, FS_CardinalityType
  <2> QED BY <1>3, <2>2, IsASequence
<1>6. ASSUME NEW i \in D, NEW j \in D, s[i] = s[j] PROVE i = j
  BY <1>1, <1>3, <1>4, <1>6
<1>7. ASSUME NEW n \in ns PROVE \E i \in D : s[i] = n
  <2>1. CASE \E a \in {1, 2} : ns = {a} /\ D = {1}
    BY <1>4, <2>1
  <2>2. CASE ns = {1, 2} /\ D = {1, 2}
    <3>1. s[1] < s[2] /\ s[1] \in {1, 2} /\ s[2] \in {1, 2}
      BY <1>3, <1>4, <2>2
    <3> QED BY <2>2, <3>1
  <2> QED BY <1>1, <2>1, <2>2
<1> QED BY <1>4, <1>5, <1>6, <1>7 DEF s
Entries == [n : Nat, doc : Documents, auth : Login]

(* What cyber_receive keeps of a message for one class.                    *)
Selected(m, class) == {m.data[i].n : i \in {j \in Valid(m.login, m.data) : m.data[j].ptxt.class = class}}
WellKept(k, m, class) ==
    /\ k \in Seq(Entries) /\ NoRepeat(k) /\ Numbers(k) = Selected(m, class)
    /\ \A i \in DOMAIN k : \E j \in Valid(m.login, m.data) :
          /\ m.data[j].ptxt.class = class
          /\ k[i] = [n |-> m.data[j].n, doc |-> m.data[j].ptxt.original, auth |-> m.login]

LEMMA KeptElements ==
  ASSUME NEW m, m.login \in Login, m.data \in Seq(PlainElement), Len(m.data) \in {1, 2},
         NoRepeat(m.data), NEW class
  PROVE  WellKept(Kept(m, class), m, class)
<1> USE DEF Entries
<1> DEFINE ns == {i \in Valid(m.login, m.data) : m.data[i].ptxt.class = class}
           o == InOrder(ns)
           k == Kept(m, class)
           E(i) == [n |-> m.data[i].n, doc |-> m.data[i].ptxt.original, auth |-> m.login]
<1>1. ns \subseteq DOMAIN m.data /\ DOMAIN m.data = 1 .. Len(m.data)
  BY DEF Valid
<1>2. \A i \in ns : E(i) \in [n : Nat, doc : Documents, auth : Login]
  <2>1. \A i \in ns : m.data[i] \in PlainElement
    BY <1>1
  <2> QED BY <2>1 DEF PlainElement
<1>3. DOMAIN k = DOMAIN o /\ \A i \in DOMAIN o : k[i] = E(o[i])
  BY DEF Kept, Opened
<1>4. k = [i \in DOMAIN o |-> E(o[i])]
  BY DEF Kept, Opened
<1>5. \A i \in ns : i \in Valid(m.login, m.data) /\ m.data[i].ptxt.class = class /\ i \in DOMAIN m.data
  BY <1>1
<1>6. \A i \in ns : E(i).n = m.data[i].n
  OBVIOUS
<1> HIDE DEF ns
<1>7. ns \in SUBSET {1, 2}
  <2>1. 1 .. Len(m.data) \subseteq {1, 2}
    <3>1. CASE Len(m.data) = 1
      BY <3>1
    <3>2. CASE Len(m.data) = 2
      BY <3>2
    <3> QED BY <3>1, <3>2
  <2> QED BY <1>1, <2>1
<1>8. /\ o \in Seq(ns) /\ \A i, j \in DOMAIN o : o[i] = o[j] => i = j
      /\ \A n \in ns : \E i \in DOMAIN o : o[i] = n
  BY <1>7, InOrderOf
<1> HIDE DEF o, k
<1>9. Len(o) \in Nat /\ DOMAIN o = 1 .. Len(o) /\ \A i \in DOMAIN o : o[i] \in ns
  BY <1>8
<1> HIDE DEF E
<1>10. k \in Seq([n : Nat, doc : Documents, auth : Login])
  <2>1. k \in [1 .. Len(o) -> [n : Nat, doc : Documents, auth : Login]]
    BY <1>2, <1>4, <1>9
  <2> QED BY <1>9, <2>1, IsASequence
<1>11. ASSUME NEW i \in DOMAIN k, NEW j \in DOMAIN k, k[i].n = k[j].n PROVE i = j
  <2>1. m.data[o[i]].n = m.data[o[j]].n /\ o[i] \in DOMAIN m.data /\ o[j] \in DOMAIN m.data
    BY <1>3, <1>5, <1>6, <1>9, <1>11
  <2>2. o[i] = o[j]
    BY <2>1 DEF NoRepeat
  <2> QED BY <1>3, <1>8, <2>2
<1>12. ASSUME NEW i \in DOMAIN k
       PROVE  \E j \in Valid(m.login, m.data) : m.data[j].ptxt.class = class /\ k[i] = E(j)
  BY <1>3, <1>5, <1>9
<1>13. Numbers(k) = {m.data[i].n : i \in ns}
  <2>1. \A i \in DOMAIN k : k[i].n = m.data[o[i]].n /\ o[i] \in ns
    BY <1>3, <1>6, <1>9
  <2>2. \A i \in ns : \E j \in DOMAIN k : k[j].n = m.data[i].n
    BY <1>3, <1>6, <1>8
  <2> QED BY <2>1, <2>2 DEF Numbers
<1> QED BY <1>10, <1>11, <1>12, <1>13 DEF k, E, ns, NoRepeat, WellKept, Selected
-----------------------------------------------------------------------------
(* The places.                                                             *)

OnNet == UNION {Numbers(net[i].data) : i \in DOMAIN net}

(* Five sets that share nothing and make up a sixth.                       *)
Split(all, a, b, c, d, e) ==
    /\ all = a \union b \union c \union d \union e
    /\ a \intersect b = {} /\ a \intersect c = {} /\ a \intersect d = {} /\ a \intersect e = {}
    /\ b \intersect c = {} /\ b \intersect d = {} /\ b \intersect e = {}
    /\ c \intersect d = {} /\ c \intersect e = {} /\ d \intersect e = {}

SplitNow ==
    Split(DOMAIN built, OnNet, Numbers(internal_q), Numbers(external_q), Numbers(handled), DOMAIN lost)

LEMMA PlacesAreSplit == InOnePlace <=> SplitNow
<1>1. /\ Places[1] = OnNet /\ Places[2] = Numbers(internal_q) /\ Places[3] = Numbers(external_q)
      /\ Places[4] = Numbers(handled) /\ Places[5] = DOMAIN lost
  BY DEF Places, OnNet
<1>2. 1 .. 5 = {1, 2, 3, 4, 5}
  OBVIOUS
<1>3. ASSUME InOnePlace PROVE SplitNow
  <2>1. /\ \A n \in DOMAIN built : n \in Places[1] \/ n \in Places[2] \/ n \in Places[3]
                                     \/ n \in Places[4] \/ n \in Places[5]
        /\ Places[1] \subseteq DOMAIN built /\ Places[2] \subseteq DOMAIN built
        /\ Places[3] \subseteq DOMAIN built /\ Places[4] \subseteq DOMAIN built
        /\ Places[5] \subseteq DOMAIN built
    BY <1>2, <1>3 DEF InOnePlace
  <2>2. /\ Places[1] \intersect Places[2] = {} /\ Places[1] \intersect Places[3] = {}
        /\ Places[1] \intersect Places[4] = {} /\ Places[1] \intersect Places[5] = {}
        /\ Places[2] \intersect Places[3] = {} /\ Places[2] \intersect Places[4] = {}
        /\ Places[2] \intersect Places[5] = {} /\ Places[3] \intersect Places[4] = {}
        /\ Places[3] \intersect Places[5] = {} /\ Places[4] \intersect Places[5] = {}
    BY <1>3 DEF InOnePlace
  <2> QED BY <1>1, <2>1, <2>2 DEF Split, SplitNow
<1>4. ASSUME SplitNow PROVE InOnePlace
  <2> USE <1>1, <1>2, <1>4 DEF SplitNow, Split
  <2>1. \A n \in DOMAIN built : \E p \in 1 .. 5 : n \in Places[p]
    OBVIOUS
  <2>2. \A p \in 1 .. 5 : Places[p] \subseteq DOMAIN built
    OBVIOUS
  <2>3. \A p, r \in 1 .. 5 : p # r => Places[p] \intersect Places[r] = {}
    OBVIOUS
  <2> QED BY <2>1, <2>2, <2>3 DEF InOnePlace
<1> QED BY <1>3, <1>4

LEMMA PlacesStaySplit == InOnePlace' <=> SplitNow'
BY PlacesAreSplit, PTL

LEMMA OneMore ==
  ASSUME NEW all, NEW a, NEW b, NEW c, NEW d, NEW e, Split(all, a, b, c, d, e),
         NEW more, more \intersect all = {}
  PROVE  /\ Split(all \union more, a \union more, b, c, d, e)
         /\ Split(all \union more, a, b, c, d, e \union more)
BY DEF Split

LEMMA OneRead ==
  ASSUME NEW all, NEW a, NEW b, NEW c, NEW d, NEW e, Split(all, a, b, c, d, e),
         NEW x, NEW y, NEW z, x \union y \union z \subseteq a,
         x \intersect y = {}, x \intersect z = {}, y \intersect z = {}
  PROVE  Split(all, a \ (x \union y \union z), b \union x, c \union y, d, e \union z)
BY DEF Split

LEMMA OneTaken ==
  ASSUME NEW all, NEW a, NEW b, NEW c, NEW d, NEW e, Split(all, a, b, c, d, e),
         NEW n \in b
  PROVE  /\ Split(all, a, b \ {n}, c, d \union {n}, e)
         /\ Split(all, a, b \ {n}, c, d, e \union {n})
BY DEF Split
LEMMA NetGrows ==
  ASSUME NEW S, net \in Seq(S), NEW m \in S, net' = Append(net, m)
  PROVE  /\ net' \in Seq(S) /\ OnNet' = OnNet \union Numbers(m.data)
         /\ \A i \in DOMAIN net' :
               (i \in DOMAIN net /\ net'[i] = net[i]) \/ (i = Len(net) + 1 /\ net'[i] = m)
<1>1. /\ net' \in Seq(S) /\ Len(net) \in Nat /\ DOMAIN net = 1 .. Len(net)
      /\ DOMAIN net' = 1 .. Len(net) + 1 /\ net'[Len(net) + 1] = m
      /\ \A i \in 1 .. Len(net) : net'[i] = net[i]
  OBVIOUS
<1>2. \A i \in DOMAIN net' :
         (i \in DOMAIN net /\ net'[i] = net[i]) \/ (i = Len(net) + 1 /\ net'[i] = m)
  BY <1>1
<1>3. /\ \A i \in DOMAIN net : i \in DOMAIN net' /\ net'[i] = net[i]
      /\ Len(net) + 1 \in DOMAIN net'
  BY <1>1
<1>4. OnNet' = UNION {Numbers(net'[i].data) : i \in DOMAIN net'}
  BY DEF OnNet, Numbers
<1>5. OnNet' = OnNet \union Numbers(m.data)
  <2>1. ASSUME NEW i \in DOMAIN net' PROVE Numbers(net'[i].data) \subseteq OnNet \union Numbers(m.data)
    BY <1>2 DEF OnNet
  <2>2. ASSUME NEW i \in DOMAIN net PROVE Numbers(net[i].data) \subseteq OnNet'
    <3>1. Numbers(net'[i].data) = Numbers(net[i].data)
      BY <1>3
    <3> QED BY <1>3, <1>4, <3>1
  <2>3. Numbers(m.data) \subseteq OnNet'
    <3>1. Numbers(net'[Len(net) + 1].data) = Numbers(m.data)
      BY <1>1
    <3> QED BY <1>3, <1>4, <3>1
  <2> HIDE DEF OnNet
  <2>4. OnNet' \subseteq OnNet \union Numbers(m.data)
    BY <1>4, <2>1
  <2>5. OnNet \subseteq OnNet'
    BY <2>2 DEF OnNet
  <2> QED BY <2>3, <2>4, <2>5
<1> QED BY <1>1, <1>2, <1>5

LEMMA NetStays ==
  ASSUME OnTheirWay, UNCHANGED <<net, built>>
  PROVE  OnTheirWay' /\ OnNet' = OnNet
<1>1. ASSUME NEW i \in DOMAIN net, NEW j \in DOMAIN net, i # j
      PROVE  Numbers(net'[i].data) \intersect Numbers(net'[j].data) = {}
  <2>1. Numbers(net[i].data) \intersect Numbers(net[j].data) = {}
    BY <1>1 DEF OnTheirWay
  <2> QED BY <2>1
<1>2. ASSUME NEW i \in DOMAIN net
      PROVE  /\ Len(net'[i].data) \in {1, 2} /\ NoRepeat(net'[i].data)
             /\ \A j \in DOMAIN net'[i].data :
                   LET e == net'[i].data[j]
                   IN  /\ e.n \in DOMAIN built' /\ e = built'[e.n].element
                       /\ net'[i].login = built'[e.n].login
  <2>1. net' = net /\ built' = built
    OBVIOUS
  <2> QED BY <2>1 DEF OnTheirWay
<1>3. OnNet' = OnNet
  BY DEF OnNet, Numbers
<1> QED BY <1>1, <1>2, <1>3 DEF OnTheirWay, Numbers, NoRepeat

LEMMA NetShrinks ==
  ASSUME NEW S, net \in Seq(S), net # <<>>, net' = Tail(net), OnTheirWay
  PROVE  /\ OnNet' = OnNet \ Numbers(Head(net).data) /\ Numbers(Head(net).data) \subseteq OnNet
         /\ built' = built => OnTheirWay'
<1>1. /\ Head(net) = net[1] /\ 1 \in DOMAIN net
      /\ \A i \in DOMAIN net' : i + 1 \in DOMAIN net /\ i + 1 # 1 /\ net'[i] = net[i + 1]
      /\ \A i \in DOMAIN net : i # 1 => i - 1 \in DOMAIN net' /\ net'[i - 1] = net[i]
  BY TakenOff
<1>2. \A i, j \in DOMAIN net : i # j => Numbers(net[i].data) \intersect Numbers(net[j].data) = {}
  BY DEF OnTheirWay
<1>3. OnNet' = UNION {Numbers(net'[i].data) : i \in DOMAIN net'}
  BY DEF OnNet, Numbers
<1>4. OnNet' = OnNet \ Numbers(Head(net).data)
  <2>1. ASSUME NEW i \in DOMAIN net'
        PROVE  Numbers(net'[i].data) \subseteq OnNet \ Numbers(Head(net).data)
    <3>1. i + 1 \in DOMAIN net /\ Numbers(net'[i].data) = Numbers(net[i + 1].data)
      BY <1>1
    <3>2. Numbers(net[i + 1].data) \intersect Numbers(net[1].data) = {}
      BY <1>1, <1>2
    <3>3. Numbers(net[i + 1].data) \subseteq OnNet
      BY <3>1 DEF OnNet
    <3> QED BY <1>1, <3>1, <3>2, <3>3
  <2>2. ASSUME NEW i \in DOMAIN net, i # 1 PROVE Numbers(net[i].data) \subseteq OnNet'
    BY <1>1, <1>3, <2>2
  <2>3. OnNet' \subseteq OnNet \ Numbers(Head(net).data)
    BY <1>3, <2>1
  <2>4. OnNet \subseteq OnNet' \union Numbers(Head(net).data)
    <3>1. ASSUME NEW i \in DOMAIN net
          PROVE  Numbers(net[i].data) \subseteq OnNet' \union Numbers(Head(net).data)
      BY <1>1, <2>2
    <3> HIDE DEF OnNet
    <3>2. OnNet = UNION {Numbers(net[i].data) : i \in DOMAIN net}
      BY DEF OnNet
    <3> QED BY <3>1, <3>2
  <2> QED BY <2>3, <2>4
<1>5. ASSUME built' = built PROVE OnTheirWay'
  <2>1. ASSUME NEW i \in DOMAIN net', NEW j \in DOMAIN net', i # j
        PROVE  Numbers(net'[i].data) \intersect Numbers(net'[j].data) = {}
    <3>1. i + 1 # j + 1
      <4>1. net' \in Seq(S)
        BY TakenOff
      <4>2. i \in Nat /\ j \in Nat
        BY <4>1
      <4> QED BY <2>1, <4>2
    <3> QED BY <1>1, <1>2, <3>1
  <2>2. ASSUME NEW i \in DOMAIN net'
        PROVE  /\ Len(net'[i].data) \in {1, 2} /\ NoRepeat(net'[i].data)
               /\ \A j \in DOMAIN net'[i].data :
                     LET e == net'[i].data[j]
                     IN  /\ e.n \in DOMAIN built' /\ e = built'[e.n].element
                         /\ net'[i].login = built'[e.n].login
    BY <1>1, <1>5 DEF OnTheirWay
  <2> QED BY <2>1, <2>2 DEF OnTheirWay, Numbers, NoRepeat
<1>6. Numbers(Head(net).data) \subseteq OnNet
  BY <1>1 DEF OnNet
<1> QED BY <1>4, <1>5, <1>6

-----------------------------------------------------------------------------
(* The steps.                                                              *)

(* What is not of the sender stays right when the list of what was built   *)
(* grows.                                                                  *)
LEMMA StillBuilt ==
  ASSUME SecureInv, DOMAIN built \subseteq DOMAIN built', \A n \in DOMAIN built : built'[n] = built[n],
         UNCHANGED <<from, internal_q, external_q, handled>>
  PROVE  Queued(internal_q, "INTERNAL")' /\ Queued(external_q, "EXTERNAL")' /\ AsHandled'
<1>1. Queued(internal_q, "INTERNAL") /\ Queued(external_q, "EXTERNAL") /\ AsHandled
  BY DEF SecureInv
<1>2. ASSUME NEW q, NEW class, Queued(q, class)
      PROVE  /\ NoRepeat(q)
             /\ \A i \in DOMAIN q :
                   /\ q[i].n \in DOMAIN built'
                   /\ LET b == built'[q[i].n]
                      IN  /\ b.login = q[i].auth /\ b.element.ptxt.original = q[i].doc
                          /\ b.element.ptxt.class = class /\ ptxt_is_valid(b.element.ptxt)
  BY <1>2 DEF Queued
<1>3. Queued(internal_q, "INTERNAL")'
  BY <1>1, <1>2 DEF Queued, NoRepeat
<1>4. Queued(external_q, "EXTERNAL")'
  BY <1>1, <1>2 DEF Queued, NoRepeat
<1>5. AsHandled'
  BY <1>1 DEF AsHandled, NoRepeat
<1> QED BY <1>3, <1>4, <1>5
(* A message that is sent, by whoever: on its way or refused.              *)
LEMMA SendStep ==
  ASSUME SecureInv, NEW login \in Login, NEW author \in {"own", "application", "other"},
         NEW data \in Seq(PlainElement), Len(data) \in {1, 2},
         \A i \in DOMAIN data : data[i].n = Len(built) + i /\ KindOf(author, data[i].ptxt),
         Sent(login, data, author),
         \/ Written(login, data) /\ UNCHANGED lost
         \/ Len(data) = 1 /\ Lose({data[1].n}, "refused") /\ UNCHANGED net,
         UNCHANGED <<to, from, internal_q, external_q, handled, ptxt_list, up, junk>>
  PROVE  SecureInv'
<1> DEFINE B == [author : {"own", "application", "other"}, login : Login, element : PlainElement]
           M == [login : Login, data : Seq(PlainElement)]
           more == [i \in DOMAIN data |-> [author |-> author, login |-> login, element |-> data[i]]]
<1>0. /\ DOMAIN from' \subseteq Login /\ up' \in BOOLEAN /\ junk' \in 0 .. MaxJunk
      /\ ptxt_list' \in {"undefined", "freed"}
  BY DEF SecureInv
<1>1. /\ built \in Seq(B) /\ net \in Seq(M) /\ AsBuilt /\ OnTheirWay /\ AsLost
  BY DEF SecureInv, Shapes
<1>2. /\ Len(data) \in Nat /\ DOMAIN data = 1 .. Len(data) /\ \A i \in DOMAIN data : data[i] \in PlainElement
      /\ Len(built) \in Nat /\ DOMAIN built = 1 .. Len(built)
  BY <1>1
<1>3. more \in Seq(B) /\ Len(more) = Len(data) /\ DOMAIN more = DOMAIN data
      /\ \A i \in DOMAIN data : more[i] = [author |-> author, login |-> login, element |-> data[i]]
  <2>1. more \in [1 .. Len(data) -> B]
    BY <1>2
  <2> QED BY <1>2, <2>1, IsASequence
<1> HIDE DEF B, more
<1>4. built' = built \o more
  BY DEF Sent, more
<1>5. /\ built' \in Seq(B) /\ Len(built') = Len(built) + Len(data)
      /\ DOMAIN built' = 1 .. Len(built) + Len(data)
      /\ \A n \in DOMAIN built : n \in DOMAIN built' /\ built'[n] = built[n]
      /\ \A i \in DOMAIN data : Len(built) + i \in DOMAIN built' /\ built'[Len(built) + i] = more[i]
      /\ \A n \in DOMAIN built' : n \in DOMAIN built \/ n - Len(built) \in DOMAIN data
  <2>1. /\ built \o more \in Seq(B) /\ Len(built \o more) = Len(built) + Len(more)
        /\ DOMAIN (built \o more) = 1 .. Len(built) + Len(more)
        /\ \A n \in DOMAIN built : n \in DOMAIN (built \o more) /\ (built \o more)[n] = built[n]
        /\ \A i \in DOMAIN more : /\ Len(built) + i \in DOMAIN (built \o more)
                                  /\ (built \o more)[Len(built) + i] = more[i]
        /\ \A n \in DOMAIN (built \o more) : n \in DOMAIN built \/ n - Len(built) \in DOMAIN more
    BY <1>1, <1>3, JoinedAt
  <2> QED BY <1>3, <1>4, <2>1
<1>6. AsBuilt'
  <2>1. ASSUME NEW n \in DOMAIN built'
        PROVE  built'[n].element.n = n /\ KindOf(built'[n].author, built'[n].element.ptxt)
    <3>1. CASE n \in DOMAIN built
      BY <1>1, <1>5, <3>1 DEF AsBuilt
    <3>2. CASE n - Len(built) \in DOMAIN data
      <4>1. n = Len(built) + (n - Len(built))
        BY <1>2, <1>5
      <4>2. built'[n] = more[n - Len(built)]
        BY <1>5, <3>2, <4>1
      <4> QED BY <1>3, <3>2, <4>1, <4>2
    <3> QED BY <1>5, <3>1, <3>2
  <2> QED BY <2>1 DEF AsBuilt, KindOf, ptxt_set, Marked
<1>7. Numbers(data) = DOMAIN built' \ DOMAIN built /\ NoRepeat(data)
  <2>1. NoRepeat(data)
    BY <1>2 DEF NoRepeat
  <2>2. Numbers(data) \subseteq DOMAIN built' \ DOMAIN built
    BY <1>2, <1>5 DEF Numbers
  <2>3. ASSUME NEW n \in DOMAIN built', n \notin DOMAIN built PROVE n \in Numbers(data)
    <3>1. n - Len(built) \in DOMAIN data /\ n = Len(built) + (n - Len(built))
      BY <1>2, <1>5, <2>3
    <3> QED BY <3>1 DEF Numbers
  <2> QED BY <2>1, <2>2, <2>3
<1>8. Numbers(data) \intersect DOMAIN built = {} /\ DOMAIN built' = DOMAIN built \union Numbers(data)
  BY <1>5, <1>7
<1>9. SplitNow
  BY PlacesAreSplit DEF SecureInv
<1>10. Queued(internal_q, "INTERNAL")' /\ Queued(external_q, "EXTERNAL")' /\ AsHandled'
  BY <1>5, StillBuilt
<1>11. Numbers(internal_q)' = Numbers(internal_q) /\ Numbers(external_q)' = Numbers(external_q)
       /\ Numbers(handled)' = Numbers(handled)
  BY DEF Numbers
<1>12. FailsOnlyThen'
  BY <1>5 DEF SecureInv, FailsOnlyThen, LongOMIdSent, Overruns, HeadIsRead, HasText
<1>13. CASE Written(login, data) /\ UNCHANGED lost
  <2> DEFINE m == [login |-> login, data |-> data]
  <2>1. net' = Append(net, m) /\ m \in M
    BY <1>13 DEF Written
  <2>2. /\ net' \in Seq(M) /\ OnNet' = OnNet \union Numbers(data)
        /\ \A i \in DOMAIN net' :
              (i \in DOMAIN net /\ net'[i] = net[i]) \/ (i = Len(net) + 1 /\ net'[i] = m)
    <3> HIDE DEF M
    <3>1. m.data = data
      OBVIOUS
    <3> HIDE DEF m
    <3> QED BY <1>1, <2>1, <3>1, NetGrows
  <2>3. OnTheirWay'
    <3>1. ASSUME NEW i \in DOMAIN net'
          PROVE  /\ Len(net'[i].data) \in {1, 2} /\ NoRepeat(net'[i].data)
                 /\ \A j \in DOMAIN net'[i].data :
                       LET e == net'[i].data[j]
                       IN  /\ e.n \in DOMAIN built' /\ e = built'[e.n].element
                           /\ net'[i].login = built'[e.n].login
      <4>1. CASE i \in DOMAIN net /\ net'[i] = net[i]
        BY <1>1, <1>5, <4>1 DEF OnTheirWay
      <4>2. CASE net'[i] = m
        BY <1>3, <1>5, <1>7, <4>2
      <4> QED BY <2>2, <4>1, <4>2
    <3>2. ASSUME NEW i \in DOMAIN net', NEW j \in DOMAIN net', i # j
          PROVE  Numbers(net'[i].data) \intersect Numbers(net'[j].data) = {}
      <4>1. \A k \in DOMAIN net : Numbers(net[k].data) \subseteq DOMAIN built
        BY <1>1 DEF OnTheirWay, Numbers
      <4>2. CASE i \in DOMAIN net /\ net'[i] = net[i] /\ j \in DOMAIN net /\ net'[j] = net[j]
        BY <1>1, <3>2, <4>2 DEF OnTheirWay
      <4>3. CASE i \in DOMAIN net /\ net'[i] = net[i] /\ net'[j] = m
        BY <1>8, <4>1, <4>3
      <4>4. CASE j \in DOMAIN net /\ net'[j] = net[j] /\ net'[i] = m
        BY <1>8, <4>1, <4>4
      <4> QED BY <2>2, <3>2, <4>2, <4>3, <4>4
    <3> QED BY <3>1, <3>2 DEF OnTheirWay, Numbers, NoRepeat
  <2>4. AsLost'
    BY <1>1, <1>5, <1>13, <1>9 DEF AsLost, SplitNow, Split, Readable, coder_decrypt
  <2>5. SplitNow'
    <3>1. Split(DOMAIN built \union Numbers(data), OnNet \union Numbers(data), Numbers(internal_q),
                Numbers(external_q), Numbers(handled), DOMAIN lost)
      BY <1>8, <1>9, OneMore DEF SplitNow
    <3> QED BY <1>8, <1>11, <1>13, <2>2, <3>1 DEF SplitNow
  <2>6. Shapes'
    BY <1>5, <2>2 DEF SecureInv, Shapes, B
  <2> QED BY <1>6, <1>10, <1>0, <1>12, <2>3, <2>4, <2>5, <2>6, PlacesStaySplit DEF SecureInv
<1>14. CASE Len(data) = 1 /\ Lose({data[1].n}, "refused") /\ UNCHANGED net
  <2>1. Numbers(data) = {data[1].n}
    BY <1>2, <1>14 DEF Numbers
  <2>2. DOMAIN lost' = DOMAIN lost \union Numbers(data)
        /\ \A n \in DOMAIN lost' : lost'[n] = IF n \in Numbers(data) THEN "refused" ELSE lost[n]
    BY <1>14, <2>1 DEF Lose
  <2>3. OnTheirWay'
    <3>1. ASSUME NEW i \in DOMAIN net'
          PROVE  /\ Len(net'[i].data) \in {1, 2} /\ NoRepeat(net'[i].data)
                 /\ \A j \in DOMAIN net'[i].data :
                       LET e == net'[i].data[j]
                       IN  /\ e.n \in DOMAIN built' /\ e = built'[e.n].element
                           /\ net'[i].login = built'[e.n].login
      <4>1. i \in DOMAIN net /\ net'[i] = net[i]
        BY <1>14
      <4>2. /\ Len(net[i].data) \in {1, 2} /\ NoRepeat(net[i].data)
            /\ \A j \in DOMAIN net[i].data :
                  LET e == net[i].data[j]
                  IN  e.n \in DOMAIN built /\ e = built[e.n].element /\ net[i].login = built[e.n].login
        BY <1>1, <4>1 DEF OnTheirWay
      <4> QED BY <1>5, <4>1, <4>2
    <3>2. ASSUME NEW i \in DOMAIN net', NEW j \in DOMAIN net', i # j
          PROVE  Numbers(net'[i].data) \intersect Numbers(net'[j].data) = {}
      BY <1>1, <1>14, <3>2 DEF OnTheirWay
    <3> QED BY <3>1, <3>2 DEF OnTheirWay, Numbers, NoRepeat
  <2>4. AsLost'
    <3>1. ASSUME NEW n \in DOMAIN lost', lost'[n] # "refused"
          PROVE  n \in DOMAIN lost /\ lost'[n] = lost[n] /\ n \in DOMAIN built /\ built'[n] = built[n]
      BY <1>5, <1>9, <2>2, <3>1 DEF SplitNow, Split
    <3>2. \A n \in DOMAIN lost' : lost'[n] \in {"refused", "unreadable", "cut", "malformed"}
      BY <1>1, <2>2, <3>1 DEF AsLost
    <3> QED BY <1>1, <3>1, <3>2 DEF AsLost, Readable, coder_decrypt
  <2>5. SplitNow'
    <3>1. Split(DOMAIN built \union Numbers(data), OnNet, Numbers(internal_q),
                Numbers(external_q), Numbers(handled), DOMAIN lost \union Numbers(data))
      BY <1>8, <1>9, OneMore DEF SplitNow
    <3>2. OnNet' = OnNet
      BY <1>14 DEF OnNet, Numbers
    <3> QED BY <1>8, <1>11, <2>2, <3>1, <3>2 DEF SplitNow
  <2>6. Shapes'
    BY <1>5, <1>14 DEF SecureInv, Shapes, B
  <2> QED BY <1>6, <1>10, <1>0, <1>12, <2>3, <2>4, <2>5, <2>6, PlacesStaySplit DEF SecureInv
<1> QED BY <1>13, <1>14
Classes == {"INTERNAL", "EXTERNAL", "unknown"}

(* An element with its number and its text.                                *)
Numbered(e, i, class, text) ==
    e \in PlainElement /\ e.n = Len(built) + i /\ e.ptxt = [class |-> class, original |-> text]

LEMMA ElementFacts ==
  ASSUME Shapes, NEW i \in Nat, NEW key \in Key, NEW text \in Documents,
         NEW class \in Classes
  PROVE  Numbered(Element(i, key, class, text), i, class, text)
<1> USE DEF Classes
<1>1. Len(built) + i \in Nat
  BY DEF Shapes
<1>2. [class |-> class, original |-> text] \in [class : {"INTERNAL", "EXTERNAL", "unknown"}, original : Documents]
  OBVIOUS
<1> DEFINE p == [class |-> class, original |-> text]
           n == Len(built) + i
<1>3. Element(i, key, class, text) = [n |-> n, key |-> key, ptxt |-> p]
  BY DEF Element
<1> HIDE DEF p, n
<1>4. [n |-> n, key |-> key, ptxt |-> p] \in PlainElement
  BY <1>1, <1>2 DEF PlainElement, n, p
<1>5. [n |-> n, key |-> key, ptxt |-> p].n = n /\ [n |-> n, key |-> key, ptxt |-> p].ptxt = p
  OBVIOUS
<1> QED BY <1>3, <1>4, <1>5 DEF n, p, Numbered

LEMMA Keys ==
  ASSUME Shapes, NEW l \in Login
  PROVE  to[l][1] \in Key /\ to[l][2] \in Key
BY DEF Shapes

LEMMA WriteStep ==
  ASSUME SecureInv, NEW l \in Login, NEW author \in {"own", "application"}, NEW text \in Documents,
         KindOf(author, [class |-> ptxt_set(text), original |-> text]),
         Encrypted_write(l, text, author)
  PROVE  SecureInv'
<1> DEFINE e == Element(1, to[l][1], ptxt_set(text), text)
           data == <<e>>
<1>1. e \in PlainElement /\ e.n = Len(built) + 1 /\ e.ptxt = [class |-> ptxt_set(text), original |-> text]
  <2>1. ptxt_set(text) \in {"INTERNAL", "EXTERNAL", "unknown"}
    BY DEF ptxt_set
  <2>2. Shapes /\ to[l][1] \in Key
    BY Keys DEF SecureInv
  <2> HIDE DEF e
  <2>3. e \in PlainElement /\ e.n = Len(built) + 1 /\ e.ptxt = [class |-> ptxt_set(text), original |-> text]
    <3> DEFINE c == ptxt_set(text)
               k == to[l][1]
    <3>1. c \in Classes /\ k \in Key /\ e = Element(1, k, c, text)
      BY <2>1, <2>2 DEF e, Classes
    <3> HIDE DEF c, k
    <3>2. Numbered(Element(1, k, c, text), 1, c, text)
      BY <2>2, <3>1, ElementFacts, 1 \in Nat, Zenon
    <3> QED BY <3>1, <3>2 DEF c, Numbered
  <2> QED BY <2>3
<1>2. /\ Sent(l, data, author)
      /\ \/ Written(l, data) /\ UNCHANGED lost
         \/ Lose({data[1].n}, "refused") /\ UNCHANGED net
      /\ UNCHANGED <<to, from, internal_q, external_q, handled, ptxt_list, up, junk>>
  BY Zenon DEF Encrypted_write
<1> HIDE DEF e
<1>3. data \in Seq(PlainElement) /\ Len(data) = 1 /\ DOMAIN data = {1} /\ data[1] = e
  BY <1>1
<1> HIDE DEF data
<1>4. \A i \in DOMAIN data : data[i].n = Len(built) + i /\ KindOf(author, data[i].ptxt)
  BY <1>1, <1>3
<1> QED BY <1>2, <1>3, <1>4, SendStep

LEMMA OwnStep == SecureInv /\ SendMessage => SecureInv'
<1> SUFFICES ASSUME SecureInv, SendMessage PROVE SecureInv'
  OBVIOUS
<1>1. PICK m \in OwnMessages, l \in Login : Encrypted_write(l, serializeMessage(m), "own")
  BY DEF SendMessage
<1>2. serializeMessage(m) \in PeerMessages
  BY DEF PeerMessages
<1> QED BY <1>1, <1>2, WriteStep DEF Documents, KindOf

LEMMA TextStep == SecureInv /\ SendText => SecureInv'
<1> SUFFICES ASSUME SecureInv, SendText PROVE SecureInv'
  OBVIOUS
<1>1. PICK l \in Login, t \in {"rSMsg", "fit"}, x \in {"fit", "eRMsg"} :
         Encrypted_write(l, [mType |-> t, text |-> x], "application")
  BY DEF SendText
<1>2. [mType |-> t, text |-> x] \in ApplicationTexts
  BY DEF ApplicationTexts
<1> QED BY <1>1, <1>2, WriteStep DEF Documents, KindOf

LEMMA ChallengeStep == SecureInv /\ Challenge_encode => SecureInv'
<1> SUFFICES ASSUME SecureInv, Challenge_encode PROVE SecureInv'
  OBVIOUS
<1> DEFINE request == serializeMessage([type |-> "ChangePwdRequest", mId |-> "fit", pwd |-> "fit"])
           ping == serializeMessage([type |-> "Ping", mId |-> "fit", pad |-> "fit"])
           One(l) == Element(1, to[l][1], ptxt_set(request), request)
           Two(l) == Element(2, to[l][2], ptxt_set(ping), ping)
<1>1. PICK l \in Login :
         /\ Sent(l, <<One(l), Two(l)>>, "own") /\ Written(l, <<One(l), Two(l)>>)
         /\ UNCHANGED <<to, from, internal_q, external_q, handled, lost, ptxt_list, up, junk>>
  BY DEF Challenge_encode
<1>2. request \in PeerMessages /\ ping \in PeerMessages
  BY DEF PeerMessages
<1> HIDE DEF request, ping
<1>3. /\ One(l) \in PlainElement /\ One(l).n = Len(built) + 1
      /\ One(l).ptxt = [class |-> ptxt_set(request), original |-> request]
  <2> DEFINE c == ptxt_set(request)
             k == to[l][1]
  <2>1. c \in Classes /\ request \in Documents
    BY <1>2 DEF Documents, ptxt_set, Classes
  <2>2. Shapes /\ k \in Key
    BY Keys DEF SecureInv
  <2>3. One(l) = Element(1, k, c, request)
    OBVIOUS
  <2> HIDE DEF c, k, One
  <2>4. Numbered(Element(1, k, c, request), 1, c, request)
    BY <2>1, <2>2, ElementFacts, 1 \in Nat, Zenon
  <2> QED BY <2>3, <2>4 DEF c, Numbered
<1>4. /\ Two(l) \in PlainElement /\ Two(l).n = Len(built) + 2
      /\ Two(l).ptxt = [class |-> ptxt_set(ping), original |-> ping]
  <2> DEFINE c == ptxt_set(ping)
             k == to[l][2]
  <2>1. c \in Classes /\ ping \in Documents
    BY <1>2 DEF Documents, ptxt_set, Classes
  <2>2. Shapes /\ k \in Key
    BY Keys DEF SecureInv
  <2>3. Two(l) = Element(2, k, c, ping)
    OBVIOUS
  <2> HIDE DEF c, k, Two
  <2>4. Numbered(Element(2, k, c, ping), 2, c, ping)
    BY <2>1, <2>2, ElementFacts, 2 \in Nat, Zenon
  <2> QED BY <2>3, <2>4 DEF c, Numbered
<1> DEFINE data == <<One(l), Two(l)>>
<1> HIDE DEF One, Two
<1>5. data \in Seq(PlainElement) /\ Len(data) = 2 /\ DOMAIN data = {1, 2}
      /\ data[1] = One(l) /\ data[2] = Two(l)
  BY <1>3, <1>4
<1>6. Sent(l, data, "own") /\ Written(l, data)
  BY <1>1
<1> HIDE DEF data
<1>7. \A i \in DOMAIN data : data[i].n = Len(built) + i /\ KindOf("own", data[i].ptxt)
  BY <1>2, <1>3, <1>4, <1>5 DEF KindOf
<1> QED BY <1>1, <1>5, <1>6, <1>7, SendStep

LEMMA OtherStep == SecureInv /\ OtherPeerSends => SecureInv'
<1> SUFFICES ASSUME SecureInv, OtherPeerSends PROVE SecureInv'
  OBVIOUS
<1>1. PICK l \in Login, whole \in PeerMessages :
         \E text \in {whole} \union Altered(whole), class \in Classes :
         /\ Sent(l, <<Element(1, to[l][1], class, text)>>, "other")
         /\ Written(l, <<Element(1, to[l][1], class, text)>>)
         /\ UNCHANGED <<to, from, internal_q, external_q, handled, lost, ptxt_list, up, junk>>
  BY DEF OtherPeerSends, Classes
<1>2. PICK text \in {whole} \union Altered(whole), class \in Classes :
         /\ Sent(l, <<Element(1, to[l][1], class, text)>>, "other")
         /\ Written(l, <<Element(1, to[l][1], class, text)>>)
         /\ UNCHANGED <<to, from, internal_q, external_q, handled, lost, ptxt_list, up, junk>>
  BY <1>1
<1> DEFINE e == Element(1, to[l][1], class, text)
           data == <<e>>
<1>3. e \in PlainElement /\ e.n = Len(built) + 1 /\ e.ptxt = [class |-> class, original |-> text]
  <2> DEFINE k == to[l][1]
  <2>1. text \in Documents /\ class \in Classes
    BY DEF Documents, Changed
  <2>2. Shapes /\ k \in Key
    BY Keys DEF SecureInv
  <2>3. e = Element(1, k, class, text)
    OBVIOUS
  <2> HIDE DEF k, e
  <2>4. Numbered(Element(1, k, class, text), 1, class, text)
    BY <2>1, <2>2, ElementFacts, 1 \in Nat, Zenon
  <2> QED BY <2>3, <2>4 DEF Numbered
<1>4. Sent(l, data, "other") /\ Written(l, data)
  BY <1>2
<1> HIDE DEF e
<1>5. data \in Seq(PlainElement) /\ Len(data) = 1 /\ DOMAIN data = {1} /\ data[1] = e
  BY <1>3
<1> HIDE DEF data
<1>6. \A i \in DOMAIN data : data[i].n = Len(built) + i /\ KindOf("other", data[i].ptxt)
  <2>1. text \in PeerMessages \union Changed
    BY DEF Changed
  <2> QED BY <1>3, <1>5, <2>1 DEF KindOf
<1> QED BY <1>2, <1>4, <1>5, <1>6, SendStep
-----------------------------------------------------------------------------
(* Receiving.                                                              *)

(* A message on its way.                                                   *)
Travels(m) ==
    /\ m.login \in Login /\ m.data \in Seq(PlainElement) /\ Len(m.data) \in {1, 2} /\ NoRepeat(m.data)
    /\ \A j \in DOMAIN m.data :
          LET e == m.data[j]
          IN  e.n \in DOMAIN built /\ e = built[e.n].element /\ m.login = built[e.n].login

LEMMA FirstTravels ==
  ASSUME Shapes, OnTheirWay, net # <<>>
  PROVE  Travels(Head(net))
<1> DEFINE M == [login : Login, data : Seq(PlainElement)]
<1>0. net \in Seq(M)
  BY DEF Shapes
<1> HIDE DEF M
<1>1. Head(net) = net[1] /\ 1 \in DOMAIN net
  BY <1>0, TakenOff
<1>2. Head(net) \in M
  BY <1>0, <1>1
<1>3. Head(net).login \in Login /\ Head(net).data \in Seq(PlainElement)
  BY <1>2 DEF M
<1>4. /\ Len(net[1].data) \in {1, 2} /\ NoRepeat(net[1].data)
      /\ \A j \in DOMAIN net[1].data :
            LET e == net[1].data[j]
            IN  e.n \in DOMAIN built /\ e = built[e.n].element /\ net[1].login = built[e.n].login
  BY <1>1, Zenon DEF OnTheirWay
<1> QED BY <1>1, <1>3, <1>4, Zenon DEF Travels

(* The numbers of a message that are in neither queue.                     *)
LeftOut(m) == {m.data[i].n : i \in DOMAIN m.data \ Valid(m.login, m.data)}

LEMMA ThreeParts ==
  ASSUME NEW m, Travels(m)
  PROVE  /\ Numbers(m.data) = Selected(m, "INTERNAL") \union Selected(m, "EXTERNAL") \union LeftOut(m)
         /\ Selected(m, "INTERNAL") \intersect Selected(m, "EXTERNAL") = {}
         /\ Selected(m, "INTERNAL") \intersect LeftOut(m) = {}
         /\ Selected(m, "EXTERNAL") \intersect LeftOut(m) = {}
<1>1. Valid(m.login, m.data) \subseteq DOMAIN m.data
  BY DEF Valid
<1>2. \A i \in Valid(m.login, m.data) : m.data[i].ptxt.class \in {"INTERNAL", "EXTERNAL"}
  BY DEF Valid, Readable, ptxt_deserial
<1>3. \A i, j \in DOMAIN m.data : m.data[i].n = m.data[j].n => i = j
  BY DEF Travels, NoRepeat
<1>4. Numbers(m.data) \subseteq Selected(m, "INTERNAL") \union Selected(m, "EXTERNAL") \union LeftOut(m)
  BY <1>2 DEF Numbers, Selected, LeftOut
<1>5. Selected(m, "INTERNAL") \union Selected(m, "EXTERNAL") \union LeftOut(m) \subseteq Numbers(m.data)
  BY <1>1 DEF Numbers, Selected, LeftOut
<1>6. Selected(m, "INTERNAL") \intersect Selected(m, "EXTERNAL") = {}
  BY <1>1, <1>3 DEF Selected
<1>7. ASSUME NEW class PROVE Selected(m, class) \intersect LeftOut(m) = {}
  BY <1>1, <1>3 DEF Selected, LeftOut
<1> QED BY <1>4, <1>5, <1>6, <1>7

LEMMA QueueGrows ==
  ASSUME NEW q \in Seq(Entries), NEW class, Queued(q, class), NEW m, Travels(m),
         Numbers(q) \intersect Numbers(m.data) = {}
  PROVE  /\ q \o Kept(m, class) \in Seq(Entries)
         /\ Queued(q \o Kept(m, class), class)
         /\ Numbers(q \o Kept(m, class)) = Numbers(q) \union Selected(m, class)
<1> DEFINE k == Kept(m, class)
<1>1. /\ k \in Seq(Entries) /\ NoRepeat(k) /\ Numbers(k) = Selected(m, class)
      /\ \A i \in DOMAIN k : \E j \in Valid(m.login, m.data) :
            /\ m.data[j].ptxt.class = class
            /\ k[i] = [n |-> m.data[j].n, doc |-> m.data[j].ptxt.original, auth |-> m.login]
  <2> HIDE DEF k
  <2>1. m.login \in Login /\ m.data \in Seq(PlainElement) /\ Len(m.data) \in {1, 2} /\ NoRepeat(m.data)
    BY DEF Travels
  <2>2. k = Kept(m, class)
    BY DEF k
  <2>3. WellKept(k, m, class)
    BY <2>1, <2>2, KeptElements, Zenon
  <2> QED BY <2>3 DEF WellKept
<1>2. Selected(m, class) \subseteq Numbers(m.data)
  BY DEF Selected, Numbers, Valid
<1>3. ASSUME NEW i \in DOMAIN k
      PROVE  /\ k[i].n \in DOMAIN built
             /\ LET b == built[k[i].n]
                IN  /\ b.login = k[i].auth /\ b.element.ptxt.original = k[i].doc
                    /\ b.element.ptxt.class = class /\ ptxt_is_valid(b.element.ptxt)
  <2>1. PICK j \in Valid(m.login, m.data) :
           /\ m.data[j].ptxt.class = class
           /\ k[i] = [n |-> m.data[j].n, doc |-> m.data[j].ptxt.original, auth |-> m.login]
    BY <1>1
  <2> HIDE DEF k
  <2>2. j \in DOMAIN m.data /\ ptxt_is_valid(m.data[j].ptxt)
    BY DEF Valid, Readable
  <2>3. /\ m.data[j].n \in DOMAIN built /\ m.data[j] = built[m.data[j].n].element
        /\ m.login = built[m.data[j].n].login
    BY <2>2 DEF Travels
  <2>4. k[i].n = m.data[j].n /\ k[i].doc = m.data[j].ptxt.original /\ k[i].auth = m.login
    BY <2>1
  <2> QED BY <2>1, <2>2, <2>3, <2>4
<1> HIDE DEF k
<1>4. /\ q \o k \in Seq(Entries) /\ Numbers(q \o k) = Numbers(q) \union Numbers(k) /\ NoRepeat(q \o k)
      /\ \A i \in DOMAIN (q \o k) :
            (i \in DOMAIN q /\ (q \o k)[i] = q[i])
              \/ (i - Len(q) \in DOMAIN k /\ (q \o k)[i] = k[i - Len(q)])
  BY <1>1, <1>2, Joined DEF Queued
<1>5. ASSUME NEW i \in DOMAIN (q \o k)
      PROVE  /\ (q \o k)[i].n \in DOMAIN built
             /\ LET b == built[(q \o k)[i].n]
                IN  /\ b.login = (q \o k)[i].auth /\ b.element.ptxt.original = (q \o k)[i].doc
                    /\ b.element.ptxt.class = class /\ ptxt_is_valid(b.element.ptxt)
  <2>1. CASE i \in DOMAIN q /\ (q \o k)[i] = q[i]
    BY <2>1 DEF Queued
  <2>2. CASE i - Len(q) \in DOMAIN k /\ (q \o k)[i] = k[i - Len(q)]
    BY <1>3, <2>2
  <2> QED BY <1>4, <2>1, <2>2
<1>6. Queued(q \o k, class)
  BY <1>4, <1>5 DEF Queued
<1> QED BY <1>1, <1>4, <1>6 DEF k

LEMMA ReceiveStep == SecureInv /\ cyber_receive => SecureInv'
<1> SUFFICES ASSUME SecureInv, cyber_receive PROVE SecureInv'
  OBVIOUS
<1> DEFINE m == Head(net)
           M == [login : Login, data : Seq(PlainElement)]
<1>1. /\ Shapes /\ AsBuilt /\ OnTheirWay /\ AsHandled /\ AsLost /\ InOnePlace
      /\ Queued(internal_q, "INTERNAL") /\ Queued(external_q, "EXTERNAL")
  BY DEF SecureInv
<1>2. /\ net # <<>> /\ net' = Tail(net) /\ ptxt_list' = "freed"
      /\ internal_q' = internal_q \o Kept(m, "INTERNAL")
      /\ external_q' = external_q \o Kept(m, "EXTERNAL")
      /\ Lose(LeftOut(m), "unreadable")
      /\ UNCHANGED <<to, from, built, handled, up, junk>>
  BY DEF cyber_receive, LeftOut
<1>3. Travels(m)
  BY <1>1, <1>2, FirstTravels
<1>4. SplitNow
  BY <1>1, PlacesAreSplit
<1>5. net \in Seq(M) /\ internal_q \in Seq(Entries) /\ external_q \in Seq(Entries)
  BY <1>1 DEF Shapes, Entries
<1>6. /\ OnNet' = OnNet \ Numbers(m.data) /\ Numbers(m.data) \subseteq OnNet /\ OnTheirWay'
  BY <1>1, <1>2, <1>5, NetShrinks
<1>7. net' \in Seq(M)
  BY <1>2, <1>5, TakenOff
<1> HIDE DEF m, M
<1>8. Numbers(internal_q) \intersect Numbers(m.data) = {} /\ Numbers(external_q) \intersect Numbers(m.data) = {}
  BY <1>4, <1>6 DEF SplitNow, Split
<1>9. /\ internal_q' \in Seq(Entries) /\ Queued(internal_q \o Kept(m, "INTERNAL"), "INTERNAL")
      /\ Numbers(internal_q)' = Numbers(internal_q) \union Selected(m, "INTERNAL")
  <2>1. /\ internal_q \o Kept(m, "INTERNAL") \in Seq(Entries)
        /\ Numbers(internal_q \o Kept(m, "INTERNAL")) = Numbers(internal_q) \union Selected(m, "INTERNAL")
        /\ Queued(internal_q \o Kept(m, "INTERNAL"), "INTERNAL")
    BY <1>1, <1>3, <1>5, <1>8, QueueGrows
  <2>2. Numbers(internal_q)' = Numbers(internal_q \o Kept(m, "INTERNAL"))
    BY <1>2 DEF Numbers
  <2> QED BY <1>2, <2>1, <2>2
<1>10. /\ external_q' \in Seq(Entries) /\ Queued(external_q \o Kept(m, "EXTERNAL"), "EXTERNAL")
       /\ Numbers(external_q)' = Numbers(external_q) \union Selected(m, "EXTERNAL")
  <2>1. /\ external_q \o Kept(m, "EXTERNAL") \in Seq(Entries)
        /\ Numbers(external_q \o Kept(m, "EXTERNAL")) = Numbers(external_q) \union Selected(m, "EXTERNAL")
        /\ Queued(external_q \o Kept(m, "EXTERNAL"), "EXTERNAL")
    BY <1>1, <1>3, <1>5, <1>8, QueueGrows
  <2>2. Numbers(external_q)' = Numbers(external_q \o Kept(m, "EXTERNAL"))
    BY <1>2 DEF Numbers
  <2> QED BY <1>2, <2>1, <2>2
<1>11. Queued(internal_q, "INTERNAL")'
  BY <1>2, <1>9 DEF Queued, NoRepeat
<1>12. Queued(external_q, "EXTERNAL")'
  BY <1>2, <1>10 DEF Queued, NoRepeat
<1>13. AsBuilt' /\ AsHandled'
  <2>1. AsBuilt'
    BY <1>1, <1>2 DEF AsBuilt
  <2>2. AsHandled'
    BY <1>1, <1>2 DEF AsHandled, NoRepeat
  <2> QED BY <2>1, <2>2
<1>14. DOMAIN lost' = DOMAIN lost \union LeftOut(m)
       /\ \A n \in DOMAIN lost' : lost'[n] = IF n \in LeftOut(m) THEN "unreadable" ELSE lost[n]
  BY <1>2 DEF Lose
<1>15. AsLost'
  <2>1. ASSUME NEW n \in LeftOut(m) PROVE ~Readable(built[n].login, built[n].element)
    <3>1. PICK i \in DOMAIN m.data : n = m.data[i].n /\ i \notin Valid(m.login, m.data)
      BY DEF LeftOut
    <3>2. ~Readable(m.login, m.data[i])
      BY <3>1 DEF Valid
    <3>3. m.data[i] = built[n].element /\ m.login = built[n].login
      BY <1>3, <3>1 DEF Travels
    <3> QED BY <3>2, <3>3
  <2>2. \A n \in DOMAIN lost' : lost'[n] \in {"refused", "unreadable", "cut", "malformed"}
    BY <1>1, <1>14 DEF AsLost
  <2>3. ASSUME NEW n \in DOMAIN lost', n \in DOMAIN built
        PROVE  /\ lost'[n] = "malformed" => Refusable(built[n].element.ptxt.original)
               /\ lost'[n] = "unreadable" => ~Readable(built[n].login, built[n].element)
    <3>1. CASE n \in LeftOut(m)
      BY <1>14, <2>1, <3>1
    <3>2. CASE n \notin LeftOut(m)
      BY <1>1, <1>14, <2>3, <3>2 DEF AsLost
    <3> QED BY <3>1, <3>2
  <2> QED BY <1>2, <2>2, <2>3 DEF AsLost, Readable, coder_decrypt
<1>16. SplitNow'
  <2>1. /\ Numbers(m.data) = Selected(m, "INTERNAL") \union Selected(m, "EXTERNAL") \union LeftOut(m)
        /\ Selected(m, "INTERNAL") \intersect Selected(m, "EXTERNAL") = {}
        /\ Selected(m, "INTERNAL") \intersect LeftOut(m) = {}
        /\ Selected(m, "EXTERNAL") \intersect LeftOut(m) = {}
    BY <1>3, ThreeParts
  <2>2. Split(DOMAIN built, OnNet \ Numbers(m.data), Numbers(internal_q) \union Selected(m, "INTERNAL"),
              Numbers(external_q) \union Selected(m, "EXTERNAL"), Numbers(handled), DOMAIN lost \union LeftOut(m))
    BY <1>4, <1>6, <2>1, OneRead DEF SplitNow
  <2>3. Numbers(handled)' = Numbers(handled) /\ DOMAIN built' = DOMAIN built
    BY <1>2 DEF Numbers
  <2> QED BY <1>6, <1>9, <1>10, <1>14, <2>2, <2>3 DEF SplitNow
<1>17. Shapes'
  BY <1>1, <1>2, <1>7, <1>9, <1>10 DEF Shapes, Entries, M
<1>18. /\ DOMAIN from' \subseteq Login /\ up' \in BOOLEAN /\ junk' \in 0 .. MaxJunk
       /\ ptxt_list' \in {"undefined", "freed"}
  BY <1>2 DEF SecureInv
<1>19. FailsOnlyThen'
  BY <1>2 DEF SecureInv, FailsOnlyThen, LongOMIdSent, Overruns, HeadIsRead, HasText
<1> QED BY <1>19, <1>6, <1>11, <1>12, <1>13, <1>15, <1>16, <1>17, <1>18, PlacesStaySplit DEF SecureInv

LEMMA JunkStep == SecureInv /\ JunkArrives => SecureInv'
<1> SUFFICES ASSUME SecureInv, JunkArrives PROVE SecureInv'
  OBVIOUS
<1> DEFINE m == Head(net)
           M == [login : Login, data : Seq(PlainElement)]
<1>1. /\ Shapes /\ AsBuilt /\ OnTheirWay /\ AsHandled /\ AsLost /\ InOnePlace
      /\ Queued(internal_q, "INTERNAL") /\ Queued(external_q, "EXTERNAL")
  BY DEF SecureInv
<1>2. /\ net # <<>> /\ net' = Tail(net) /\ junk < MaxJunk /\ junk' = junk + 1
      /\ Lose(Numbers(m.data), "cut") /\ up' \in BOOLEAN
      /\ UNCHANGED <<to, from, built, internal_q, external_q, handled, ptxt_list>>
  BY DEF JunkArrives, Numbers
<1>3. SplitNow
  BY <1>1, PlacesAreSplit
<1>4. net \in Seq(M)
  BY <1>1 DEF Shapes
<1>5. /\ OnNet' = OnNet \ Numbers(m.data) /\ Numbers(m.data) \subseteq OnNet /\ OnTheirWay'
  BY <1>1, <1>2, <1>4, NetShrinks
<1>6. net' \in Seq(M)
  BY <1>2, <1>4, TakenOff
<1> HIDE DEF m, M
<1>7. Queued(internal_q, "INTERNAL")' /\ Queued(external_q, "EXTERNAL")' /\ AsHandled'
  BY <1>2, StillBuilt
<1>8. AsBuilt'
  BY <1>1, <1>2 DEF AsBuilt
<1>9. DOMAIN lost' = DOMAIN lost \union Numbers(m.data)
      /\ \A n \in DOMAIN lost' : lost'[n] = IF n \in Numbers(m.data) THEN "cut" ELSE lost[n]
  BY <1>2 DEF Lose
<1>10. AsLost'
  <2>1. ASSUME NEW n \in DOMAIN lost', lost'[n] # "cut" PROVE n \in DOMAIN lost /\ lost'[n] = lost[n]
    BY <1>9, <2>1
  <2>2. \A n \in DOMAIN lost' : lost'[n] \in {"refused", "unreadable", "cut", "malformed"}
    BY <1>1, <1>9 DEF AsLost
  <2> QED BY <1>1, <1>2, <2>1, <2>2 DEF AsLost, Readable, coder_decrypt
<1>11. SplitNow'
  <2>1. Split(DOMAIN built, OnNet \ Numbers(m.data), Numbers(internal_q), Numbers(external_q),
              Numbers(handled), DOMAIN lost \union Numbers(m.data))
    BY <1>3, <1>5 DEF SplitNow, Split
  <2>2. /\ Numbers(handled)' = Numbers(handled) /\ Numbers(internal_q)' = Numbers(internal_q)
        /\ Numbers(external_q)' = Numbers(external_q) /\ DOMAIN built' = DOMAIN built
    BY <1>2 DEF Numbers
  <2> QED BY <1>5, <1>9, <2>1, <2>2 DEF SplitNow
<1>12. Shapes'
  BY <1>1, <1>2, <1>6 DEF Shapes, M
<1>13. /\ DOMAIN from' \subseteq Login /\ up' \in BOOLEAN /\ junk' \in 0 .. MaxJunk
       /\ ptxt_list' \in {"undefined", "freed"}
  BY <1>2, EnvelopeAssumption DEF SecureInv
<1>14. FailsOnlyThen'
  BY <1>2, EnvelopeAssumption DEF SecureInv, FailsOnlyThen
<1> QED BY <1>14, <1>5, <1>7, <1>8, <1>10, <1>11, <1>12, <1>13, PlacesStaySplit DEF SecureInv

(* What is known of an element that was built.                             *)
LEMMA BuiltAs ==
  ASSUME SecureInv, NEW n \in DOMAIN built
  PROVE  /\ built[n].author \in {"own", "application", "other"} /\ built[n].login \in Login
         /\ built[n].element.ptxt.original \in Documents
         /\ KindOf(built[n].author, built[n].element.ptxt) /\ built[n].element.n = n
<1> DEFINE B == [author : {"own", "application", "other"}, login : Login, element : PlainElement]
<1>1. built \in Seq(B)
  BY DEF SecureInv, Shapes
<1> HIDE DEF B
<1>2. built[n] \in B
  BY <1>1
<1>3. /\ built[n].author \in {"own", "application", "other"} /\ built[n].login \in Login
      /\ built[n].element \in PlainElement
  BY <1>2 DEF B
<1>4. built[n].element.ptxt.original \in Documents
  BY <1>3 DEF PlainElement
<1> QED BY <1>3, <1>4 DEF SecureInv, AsBuilt

(* cyber_receive_internal.                                                 *)
LEMMA HandleStep == SecureInv /\ cyber_receive_internal => SecureInv'
<1> SUFFICES ASSUME SecureInv, cyber_receive_internal PROVE SecureInv'
  OBVIOUS
<1> DEFINE e == Head(internal_q)
           H == [n : Nat, msg : UNION {deserializeMessage(d) : d \in Documents}, auth : Login]
<1>1. /\ Shapes /\ AsBuilt /\ OnTheirWay /\ AsHandled /\ AsLost /\ InOnePlace
      /\ Queued(internal_q, "INTERNAL") /\ Queued(external_q, "EXTERNAL")
  BY DEF SecureInv
<1>2. /\ internal_q # <<>> /\ internal_q' = Tail(internal_q)
      /\ up' \in BOOLEAN /\ UNCHANGED <<to, from, built, net, external_q, ptxt_list, junk>>
  BY DEF cyber_receive_internal
<1>3. \/ Refusable(e.doc) /\ Lose({e.n}, "malformed") /\ UNCHANGED handled
      \/ /\ \E x \in deserializeMessage(e.doc) : handled' = Append(handled, [n |-> e.n, msg |-> x, auth |-> e.auth])
         /\ UNCHANGED lost
  BY DEF cyber_receive_internal, Refusable
<1>4. SplitNow
  BY <1>1, PlacesAreSplit
<1>5. internal_q \in Seq(Entries) /\ handled \in Seq(H)
  BY <1>1 DEF Shapes, Entries
<1>6. /\ internal_q' \in Seq(Entries) /\ e = internal_q[1] /\ 1 \in DOMAIN internal_q
      /\ \A i \in DOMAIN Tail(internal_q) : i + 1 \in DOMAIN internal_q /\ Tail(internal_q)[i] = internal_q[i + 1]
      /\ NoRepeat(Tail(internal_q)) /\ Numbers(Tail(internal_q)) = Numbers(internal_q) \ {e.n}
  BY <1>1, <1>2, <1>5, TakenOff DEF Queued
<1>7. e.n \in Nat /\ e.doc \in Documents /\ e.auth \in Login
  <2>1. e \in Entries
    BY <1>5, <1>6
  <2> QED BY <2>1 DEF Entries
<1> HIDE DEF e, H
<1>8. /\ e.n \in DOMAIN built /\ e.n \in Numbers(internal_q)
      /\ built[e.n].login = e.auth /\ built[e.n].element.ptxt.original = e.doc
      /\ built[e.n].element.ptxt.class = "INTERNAL"
  BY <1>1, <1>6 DEF Queued, Numbers
<1>9. Queued(internal_q, "INTERNAL")'
  <2>1. NoRepeat(internal_q)'
    BY <1>2, <1>6 DEF NoRepeat
  <2>2. ASSUME NEW i \in DOMAIN internal_q'
        PROVE  /\ internal_q'[i].n \in DOMAIN built
               /\ LET b == built[internal_q'[i].n]
                  IN  /\ b.login = internal_q'[i].auth /\ b.element.ptxt.original = internal_q'[i].doc
                      /\ b.element.ptxt.class = "INTERNAL" /\ ptxt_is_valid(b.element.ptxt)
    BY <1>1, <1>2, <1>6 DEF Queued
  <2> QED BY <1>2, <2>1, <2>2 DEF Queued
<1>10. Queued(external_q, "EXTERNAL")' /\ AsBuilt' /\ OnTheirWay' /\ OnNet' = OnNet
  <2>1. Queued(external_q, "EXTERNAL")'
    BY <1>1, <1>2 DEF Queued, NoRepeat
  <2>2. AsBuilt'
    BY <1>1, <1>2 DEF AsBuilt
  <2>3. OnTheirWay' /\ OnNet' = OnNet
    BY <1>1, <1>2, NetStays
  <2> QED BY <2>1, <2>2, <2>3
<1>11. Numbers(internal_q)' = Numbers(internal_q) \ {e.n} /\ Numbers(external_q)' = Numbers(external_q)
  BY <1>2, <1>6 DEF Numbers
<1>12. /\ DOMAIN from' \subseteq Login /\ up' \in BOOLEAN /\ junk' \in 0 .. MaxJunk
       /\ ptxt_list' \in {"undefined", "freed"}
  BY <1>2 DEF SecureInv
<1>13. FailsOnlyThen'
  <2>1. CASE up'
    BY <2>1 DEF FailsOnlyThen
  <2>2. CASE ~up'
    <3>1. Overruns(e.doc)
      BY <2>2 DEF cyber_receive_internal, e
    <3>2. /\ KindOf(built[e.n].author, built[e.n].element.ptxt)
          /\ built[e.n].author \in {"own", "application", "other"}
      BY <1>8, BuiltAs
    <3>3. built[e.n].author = "other"
      BY <1>8, <3>1, <3>2, OwnDocument, WellWrittenIsRead, ApplicationText DEF KindOf
    <3>4. LongOMIdSent
      BY <1>8, <3>1, <3>3 DEF LongOMIdSent
    <3>5. LongOMIdSent'
      BY <1>2, <3>4 DEF LongOMIdSent, Overruns, HeadIsRead, HasText
    <3> QED BY <3>5 DEF FailsOnlyThen
  <2> QED BY <2>1, <2>2
<1>14. CASE Refusable(e.doc) /\ Lose({e.n}, "malformed") /\ UNCHANGED handled
  <2>1. /\ DOMAIN lost' = DOMAIN lost \union {e.n}
        /\ \A n \in DOMAIN lost' : lost'[n] = IF n = e.n THEN "malformed" ELSE lost[n]
    BY <1>14 DEF Lose
  <2>2. AsHandled'
    BY <1>1, <1>2, <1>14 DEF AsHandled, NoRepeat
  <2>3. AsLost'
    <3>1. ASSUME NEW n \in DOMAIN lost', n # e.n PROVE n \in DOMAIN lost /\ lost'[n] = lost[n]
      BY <2>1, <3>1
    <3>2. \A n \in DOMAIN lost' : lost'[n] \in {"refused", "unreadable", "cut", "malformed"}
      BY <1>1, <2>1 DEF AsLost
    <3>3. e.n \in DOMAIN lost' /\ lost'[e.n] = "malformed"
          /\ Refusable(built[e.n].element.ptxt.original)
      BY <1>8, <1>14, <2>1
    <3>4. ASSUME NEW n \in DOMAIN lost', n \in DOMAIN built
          PROVE  /\ lost'[n] = "malformed" => Refusable(built[n].element.ptxt.original)
                 /\ lost'[n] = "unreadable" => ~Readable(built[n].login, built[n].element)
      <4>1. CASE n = e.n
        BY <3>3, <4>1
      <4>2. CASE n # e.n
        BY <1>1, <3>1, <3>4, <4>2 DEF AsLost
      <4> QED BY <4>1, <4>2
    <3> QED BY <1>2, <3>2, <3>4 DEF AsLost, Readable, coder_decrypt
  <2>4. SplitNow'
    <3>1. Split(DOMAIN built, OnNet, Numbers(internal_q) \ {e.n}, Numbers(external_q), Numbers(handled),
                DOMAIN lost \union {e.n})
      BY <1>4, <1>8, OneTaken DEF SplitNow
    <3>2. Numbers(handled)' = Numbers(handled) /\ DOMAIN built' = DOMAIN built
      BY <1>2, <1>14 DEF Numbers
    <3> QED BY <1>10, <1>11, <2>1, <3>1, <3>2 DEF SplitNow
  <2>5. Shapes'
    BY <1>1, <1>2, <1>6, <1>14 DEF Shapes, Entries
  <2> QED BY <1>9, <1>10, <1>12, <1>13, <2>2, <2>3, <2>4, <2>5, PlacesStaySplit DEF SecureInv
<1>15. ASSUME NEW x \in deserializeMessage(e.doc),
              handled' = Append(handled, [n |-> e.n, msg |-> x, auth |-> e.auth]), UNCHANGED lost
       PROVE  SecureInv'
  <2> DEFINE r == [n |-> e.n, msg |-> x, auth |-> e.auth]
             one == <<r>>
  <2>1. r \in H
    BY <1>7 DEF H
  <2>2. r.n = e.n /\ r.msg = x /\ r.auth = e.auth
    OBVIOUS
  <2>3. handled' = Append(handled, r)
    BY <1>15
  <2> HIDE DEF r
  <2>4. one \in Seq(H) /\ DOMAIN one = {1} /\ one[1] = r /\ handled' = handled \o one
    BY <1>5, <2>1, <2>3
  <2> HIDE DEF one
  <2>5. NoRepeat(one) /\ Numbers(one) = {e.n}
    BY <2>2, <2>4 DEF NoRepeat, Numbers
  <2>6. Numbers(handled) \intersect {e.n} = {}
    BY <1>4, <1>8 DEF SplitNow, Split
  <2>7. /\ handled' \in Seq(H) /\ Numbers(handled \o one) = Numbers(handled) \union {e.n}
        /\ NoRepeat(handled \o one)
        /\ \A i \in DOMAIN (handled \o one) :
              (i \in DOMAIN handled /\ (handled \o one)[i] = handled[i])
                \/ (i - Len(handled) \in DOMAIN one /\ (handled \o one)[i] = one[i - Len(handled)])
    <3>1. NoRepeat(handled)
      BY <1>1 DEF AsHandled
    <3> QED BY <1>5, <2>4, <2>5, <2>6, <3>1, Joined
  <2>8. ASSUME NEW i \in DOMAIN handled'
        PROVE  (i \in DOMAIN handled /\ handled'[i] = handled[i]) \/ handled'[i] = r
    BY <2>4, <2>7
  <2>9. AsHandled'
    <3>1. NoRepeat(handled)'
      BY <2>4, <2>7 DEF NoRepeat
    <3>2. ASSUME NEW i \in DOMAIN handled'
          PROVE  /\ handled'[i].n \in DOMAIN built
                 /\ LET b == built[handled'[i].n]
                    IN  /\ b.login = handled'[i].auth /\ b.element.ptxt.class = "INTERNAL"
                        /\ handled'[i].msg \in deserializeMessage(b.element.ptxt.original)
      <4>1. CASE i \in DOMAIN handled /\ handled'[i] = handled[i]
        BY <1>1, <4>1 DEF AsHandled
      <4>2. CASE handled'[i] = r
        BY <1>8, <1>15, <2>2, <4>2
      <4> QED BY <2>8, <4>1, <4>2
    <3> QED BY <1>2, <3>1, <3>2 DEF AsHandled
  <2>10. AsLost'
    BY <1>1, <1>2, <1>15 DEF AsLost, Readable, coder_decrypt
  <2>11. SplitNow'
    <3>1. Split(DOMAIN built, OnNet, Numbers(internal_q) \ {e.n}, Numbers(external_q),
                Numbers(handled) \union {e.n}, DOMAIN lost)
      BY <1>4, <1>8, OneTaken DEF SplitNow
    <3>2. Numbers(handled)' = Numbers(handled) \union {e.n} /\ DOMAIN built' = DOMAIN built
      BY <1>2, <2>4, <2>7 DEF Numbers
    <3> QED BY <1>10, <1>11, <1>15, <3>1, <3>2 DEF SplitNow
  <2>12. Shapes'
    BY <1>1, <1>2, <1>6, <2>7 DEF Shapes, Entries, H
  <2> QED BY <1>9, <1>10, <1>12, <1>13, <2>9, <2>10, <2>11, <2>12, PlacesStaySplit DEF SecureInv
<1> QED BY <1>3, <1>14, <1>15

LEMMA IdleStep == SecureInv /\ UNCHANGED securevars => SecureInv'
<1> SUFFICES ASSUME SecureInv, UNCHANGED securevars PROVE SecureInv'
  OBVIOUS
<1> USE DEF securevars
<1>1. Shapes' /\ AsBuilt'
  BY DEF SecureInv, Shapes, AsBuilt
<1>2. OnTheirWay'
  <2>1. OnTheirWay /\ UNCHANGED <<net, built>>
    BY DEF SecureInv
  <2> QED BY <2>1, NetStays
<1>3. AsHandled' /\ Queued(internal_q, "INTERNAL")' /\ Queued(external_q, "EXTERNAL")'
  BY StillBuilt
<1>4. AsLost'
  BY DEF SecureInv, AsLost, Readable, coder_decrypt
<1>5. SplitNow'
  BY PlacesAreSplit DEF SecureInv, SplitNow, OnNet, Numbers
<1>6. /\ DOMAIN from' \subseteq Login /\ up' \in BOOLEAN /\ junk' \in 0 .. MaxJunk
      /\ ptxt_list' \in {"undefined", "freed"}
  BY DEF SecureInv
<1>7. FailsOnlyThen'
  BY DEF SecureInv, FailsOnlyThen, LongOMIdSent, Overruns, HeadIsRead, HasText
<1> QED BY <1>7, <1>1, <1>2, <1>3, <1>4, <1>5, <1>6, PlacesStaySplit DEF SecureInv

LEMMA SecureStart == SecureInit => SecureInv
<1> SUFFICES ASSUME SecureInit PROVE SecureInv
  OBVIOUS
<1>1. /\ built = <<>> /\ net = <<>> /\ internal_q = <<>> /\ external_q = <<>> /\ handled = <<>>
      /\ lost = <<>> /\ ptxt_list = "undefined" /\ up = TRUE /\ junk = 0
      /\ to \in [Login -> {k \in Key \X Key : k[1] # k[2]}] /\ DOMAIN from \subseteq Login
  BY DEF SecureInit
<1>2. Shapes
  BY <1>1 DEF Shapes
<1>3. AsBuilt /\ OnTheirWay /\ AsHandled /\ AsLost
  BY <1>1 DEF AsBuilt, OnTheirWay, AsHandled, AsLost, NoRepeat
<1>4. Queued(internal_q, "INTERNAL") /\ Queued(external_q, "EXTERNAL")
  BY <1>1 DEF Queued, NoRepeat
<1>5. SplitNow
  BY <1>1 DEF SplitNow, Split, OnNet, Numbers
<1>6. up \in BOOLEAN /\ junk \in 0 .. MaxJunk
  BY <1>1, EnvelopeAssumption
<1>7. FailsOnlyThen
  BY <1>1 DEF FailsOnlyThen
<1> QED BY <1>7, <1>1, <1>2, <1>3, <1>4, <1>5, <1>6, PlacesAreSplit DEF SecureInv

LEMMA SecureStep == SecureInv /\ [SecureNext]_securevars => SecureInv'
BY OwnStep, TextStep, ChallengeStep, OtherStep, ReceiveStep, JunkStep, HandleStep, IdleStep DEF SecureNext
-----------------------------------------------------------------------------
(* What the invariant gives.                                               *)

(* Where a number is, it is there once.                                    *)
LEMMA Once ==
  ASSUME NEW q, NoRepeat(q), NEW n
  PROVE  Cardinality({i \in DOMAIN q : q[i].n = n}) = IF n \in Numbers(q) THEN 1 ELSE 0
<1> DEFINE at == {i \in DOMAIN q : q[i].n = n}
<1>1. CASE n \in Numbers(q)
  <2>1. PICK i \in DOMAIN q : q[i].n = n
    BY <1>1 DEF Numbers
  <2>2. at = {i}
    BY <2>1 DEF NoRepeat
  <2> QED BY <1>1, <2>2, FS_Singleton
<1>2. CASE n \notin Numbers(q)
  <2>1. at = {}
    BY <1>2 DEF Numbers
  <2> QED BY <1>2, <2>1, FS_EmptySet
<1> QED BY <1>1, <1>2

LEMMA OnceOnNet ==
  ASSUME OnTheirWay, NEW n
  PROVE  Cardinality({i \in DOMAIN net : \E j \in DOMAIN net[i].data : net[i].data[j].n = n})
           = IF n \in OnNet THEN 1 ELSE 0
<1> DEFINE at == {i \in DOMAIN net : \E j \in DOMAIN net[i].data : net[i].data[j].n = n}
<1>1. at = {i \in DOMAIN net : n \in Numbers(net[i].data)}
  BY DEF Numbers
<1>2. CASE n \in OnNet
  <2>1. PICK i \in DOMAIN net : n \in Numbers(net[i].data)
    BY <1>2 DEF OnNet
  <2>2. at = {i}
    BY <1>1, <2>1 DEF OnTheirWay
  <2> QED BY <1>2, <2>2, FS_Singleton
<1>3. CASE n \notin OnNet
  <2>1. at = {}
    BY <1>1, <1>3 DEF OnNet
  <2> QED BY <1>3, <2>1, FS_EmptySet
<1> QED BY <1>2, <1>3

LEMMA EachIsOnce == SecureInv => EachOnce
<1> SUFFICES ASSUME SecureInv, NEW n \in DOMAIN built
             PROVE  Cardinality({i \in DOMAIN net : \E j \in DOMAIN net[i].data : net[i].data[j].n = n})
                      + Cardinality({i \in DOMAIN internal_q : internal_q[i].n = n})
                      + Cardinality({i \in DOMAIN external_q : external_q[i].n = n})
                      + Cardinality({i \in DOMAIN handled : handled[i].n = n})
                      + Cardinality(DOMAIN lost \intersect {n}) = 1
  BY DEF EachOnce
<1>1. /\ NoRepeat(internal_q) /\ NoRepeat(external_q) /\ NoRepeat(handled) /\ OnTheirWay /\ SplitNow
  BY PlacesAreSplit DEF SecureInv, Queued, AsHandled
<1>2. Cardinality({i \in DOMAIN net : \E j \in DOMAIN net[i].data : net[i].data[j].n = n})
        = IF n \in OnNet THEN 1 ELSE 0
  BY <1>1, OnceOnNet
<1>3. /\ Cardinality({i \in DOMAIN internal_q : internal_q[i].n = n}) = IF n \in Numbers(internal_q) THEN 1 ELSE 0
      /\ Cardinality({i \in DOMAIN external_q : external_q[i].n = n}) = IF n \in Numbers(external_q) THEN 1 ELSE 0
      /\ Cardinality({i \in DOMAIN handled : handled[i].n = n}) = IF n \in Numbers(handled) THEN 1 ELSE 0
  BY <1>1, Once
<1>4. Cardinality(DOMAIN lost \intersect {n}) = IF n \in DOMAIN lost THEN 1 ELSE 0
  <2>1. CASE n \in DOMAIN lost
    <3>1. DOMAIN lost \intersect {n} = {n}
      BY <2>1
    <3> QED BY <2>1, <3>1, FS_Singleton
  <2>2. CASE n \notin DOMAIN lost
    <3>1. DOMAIN lost \intersect {n} = {}
      BY <2>2
    <3> QED BY <2>2, <3>1, FS_EmptySet
  <2> QED BY <2>1, <2>2
<1>5. \/ n \in OnNet /\ n \notin Numbers(internal_q) /\ n \notin Numbers(external_q)
           /\ n \notin Numbers(handled) /\ n \notin DOMAIN lost
      \/ n \notin OnNet /\ n \in Numbers(internal_q) /\ n \notin Numbers(external_q)
           /\ n \notin Numbers(handled) /\ n \notin DOMAIN lost
      \/ n \notin OnNet /\ n \notin Numbers(internal_q) /\ n \in Numbers(external_q)
           /\ n \notin Numbers(handled) /\ n \notin DOMAIN lost
      \/ n \notin OnNet /\ n \notin Numbers(internal_q) /\ n \notin Numbers(external_q)
           /\ n \in Numbers(handled) /\ n \notin DOMAIN lost
      \/ n \notin OnNet /\ n \notin Numbers(internal_q) /\ n \notin Numbers(external_q)
           /\ n \notin Numbers(handled) /\ n \in DOMAIN lost
  BY <1>1 DEF SplitNow, Split
<1> QED BY <1>2, <1>3, <1>4, <1>5

(* A built message, with what KindOf says of it.                           *)
LEMMA RoutedAsSent == SecureInv => RoutedByKind
<1> SUFFICES ASSUME SecureInv PROVE RoutedByKind
  OBVIOUS
<1>1. ASSUME NEW i \in DOMAIN handled PROVE built[handled[i].n].author # "application"
  <2>1. /\ handled[i].n \in DOMAIN built
        /\ handled[i].msg \in deserializeMessage(built[handled[i].n].element.ptxt.original)
    BY DEF SecureInv, AsHandled
  <2> QED BY <2>1, BuiltAs, ApplicationText DEF KindOf
<1>2. ASSUME NEW i \in DOMAIN external_q, built[external_q[i].n].author = "own"
      PROVE  LET d == built[external_q[i].n].element.ptxt.original
             IN  d["type"] = "Pong" /\ d["pad"] = "rSMsg"
  <2> DEFINE p == built[external_q[i].n].element.ptxt
  <2>1. external_q[i].n \in DOMAIN built /\ p.class = "EXTERNAL"
    BY DEF SecureInv, Queued
  <2>2. KindOf("own", p)
    BY <1>2, <2>1, BuiltAs
  <2> HIDE DEF p
  <2>3. p.original \in PeerMessages /\ ptxt_set(p.original) = "EXTERNAL"
    BY <2>1, <2>2 DEF KindOf
  <2>4. p.original["type"] = "Pong" /\ p.original["pad"] = "rSMsg"
    BY <2>3, OwnDocument, WellWrittenIsRead
  <2> QED BY <2>4 DEF p
<1>3. ASSUME NEW i \in DOMAIN internal_q, built[internal_q[i].n].author = "application"
      PROVE  internal_q[i].doc["mType"] # "rSMsg"
  <2> DEFINE p == built[internal_q[i].n].element.ptxt
  <2>1. internal_q[i].n \in DOMAIN built /\ p.class = "INTERNAL" /\ p.original = internal_q[i].doc
    BY DEF SecureInv, Queued
  <2>2. KindOf("application", p)
    BY <1>3, <2>1, BuiltAs
  <2> HIDE DEF p
  <2>3. p.original \in ApplicationTexts /\ ptxt_set(p.original) = "INTERNAL"
    BY <2>1, <2>2 DEF KindOf
  <2> QED BY <2>1, <2>3, ApplicationText
<1> QED BY <1>1, <1>2, <1>3 DEF RoutedByKind

LEMMA OwnIsRead == SecureInv => OwnIsUnderstood /\ ReadableIsKept
<1> SUFFICES ASSUME SecureInv PROVE OwnIsUnderstood /\ ReadableIsKept
  OBVIOUS
<1>1. ASSUME NEW n \in DOMAIN built, built[n].author = "own"
      PROVE  /\ ptxt_deserial(built[n].element.ptxt) /\ ptxt_is_valid(built[n].element.ptxt)
             /\ ~Refusable(built[n].element.ptxt.original)
  <2> DEFINE p == built[n].element.ptxt
  <2>1. KindOf("own", p)
    BY <1>1, BuiltAs
  <2> HIDE DEF p
  <2>2. p.original \in PeerMessages /\ p.class = ptxt_set(p.original)
    BY <2>1 DEF KindOf
  <2>3. /\ ptxt_set(p.original) \in {"INTERNAL", "EXTERNAL"} /\ Marked(p.original, "eRMsg")
        /\ ~Refusable(p.original)
    BY <2>2, OwnDocument, WellWrittenIsRead DEF Refusable
  <2>4. ptxt_deserial(p) /\ ptxt_is_valid(p)
    BY <2>2, <2>3 DEF ptxt_deserial, ptxt_is_valid, Words
  <2> QED BY <2>3, <2>4 DEF p
<1>2. ASSUME NEW n \in DOMAIN lost
      PROVE  /\ n \in DOMAIN built
             /\ lost[n] = "malformed" => Refusable(built[n].element.ptxt.original)
             /\ lost[n] = "unreadable" => ~Readable(built[n].login, built[n].element)
  <2>1. n \in DOMAIN built
    BY PlacesAreSplit DEF SecureInv, SplitNow, Split
  <2> QED BY <2>1 DEF SecureInv, AsLost
<1>3. ASSUME NEW n \in DOMAIN lost, built[n].author = "own" PROVE lost[n] # "malformed"
  BY <1>1, <1>2, <1>3
<1>4. ASSUME NEW i \in DOMAIN handled, built[handled[i].n].author = "own"
      PROVE  /\ handled[i].auth = built[handled[i].n].login
             /\ \A k \in {"mId", "type"} \union MessageFields[built[handled[i].n].element.ptxt.original["type"]] :
                   handled[i].msg[k] = built[handled[i].n].element.ptxt.original[k]
  <2> DEFINE b == built[handled[i].n]
             d == b.element.ptxt.original
             m == handled[i].msg
  <2>1. b.login = handled[i].auth /\ m \in deserializeMessage(d) /\ ~Overruns(d)
    BY <1>1, <1>4 DEF SecureInv, AsHandled, Refusable
  <2> HIDE DEF b, d, m
  <2>2. /\ m.type = d["type"] /\ DOMAIN m = {"mId", "type"} \union MessageFields[m.type]
        /\ \A k \in DOMAIN m : m[k] = d[k]
    BY <2>1, ReadMessage
  <2>3. \A k \in {"mId", "type"} \union MessageFields[d["type"]] : m[k] = d[k]
    BY <2>2
  <2> QED BY <2>1, <2>3 DEF b, d, m
<1>5. ASSUME NEW n \in DOMAIN lost, built[n].author = "own", built[n].login \in DOMAIN from,
             from[built[n].login].active, from[built[n].login].pwd = built[n].element.key
      PROVE  lost[n] # "unreadable"
  <2>1. Readable(built[n].login, built[n].element)
    BY <1>1, <1>2, <1>5 DEF Readable, coder_decrypt
  <2> QED BY <1>2, <2>1
<1>6. OwnIsUnderstood
  BY <1>3, <1>4 DEF OwnIsUnderstood
<1>7. ReadableIsKept
  BY <1>5 DEF ReadableIsKept
<1> QED BY <1>6, <1>7

LEMMA HandledAreChecked == SecureInv => HandledIsChecked
<1> SUFFICES ASSUME SecureInv, NEW i \in DOMAIN handled
             PROVE  LET m == handled[i].msg
                    IN  /\ MessageFields[m.type] \subseteq DOMAIN m
                        /\ \A f \in MessageFields[m.type] : m[f] # "empty" /\ (m[f] \in NoText => f = "status")
                        /\ m.type = "ChangePwdRequest" => m.pwd # "long"
  BY DEF HandledIsChecked
<1>1. handled[i].msg \in deserializeMessage(built[handled[i].n].element.ptxt.original)
  BY DEF SecureInv, AsHandled
<1> QED BY <1>1, ReadMessage

LEMMA SecureTypes == SecureInv => SecureTypeOK
<1> SUFFICES ASSUME SecureInv PROVE SecureTypeOK
  OBVIOUS
<1>1. ASSUME NEW n \in DOMAIN built
      PROVE  /\ built[n].author \in {"own", "application", "other"}
             /\ Range(built[n].element.ptxt.original) \subseteq Text \union NoText
  BY BuiltAs, DocumentTexts
<1>2. DOMAIN lost \subseteq DOMAIN built
  BY PlacesAreSplit DEF SecureInv, SplitNow, Split
<1>3. \A n \in DOMAIN lost : lost[n] \in {"refused", "unreadable", "cut", "malformed"}
  BY DEF SecureInv, AsLost
<1>4. ASSUME NEW i \in DOMAIN net PROVE net[i].login \in Login /\ net[i].data # <<>>
  <2> DEFINE M == [login : Login, data : Seq(PlainElement)]
  <2>1. net \in Seq(M)
    BY DEF SecureInv, Shapes
  <2> HIDE DEF M
  <2>2. net[i] \in M
    BY <2>1
  <2>3. net[i].login \in Login
    BY <2>2 DEF M
  <2>4. Len(net[i].data) \in {1, 2}
    BY DEF SecureInv, OnTheirWay
  <2>5. ASSUME net[i].data = <<>> PROVE FALSE
    <3>1. Len(<<>>) \in {1, 2}
      BY <2>4, <2>5
    <3> QED BY <3>1
  <2> QED BY <2>3, <2>5
<1>5. ASSUME NEW i \in DOMAIN handled PROVE handled[i].auth \in Login /\ handled[i].msg.type \in MessageTypes
  <2>1. /\ handled[i].n \in DOMAIN built /\ built[handled[i].n].login = handled[i].auth
        /\ handled[i].msg \in deserializeMessage(built[handled[i].n].element.ptxt.original)
    BY DEF SecureInv, AsHandled
  <2>2. handled[i].auth \in Login
    BY <2>1, BuiltAs
  <2>3. handled[i].msg.type \in MessageTypes
    BY <2>1, ReadMessage
  <2> QED BY <2>2, <2>3
<1> QED BY <1>1, <1>2, <1>3, <1>4, <1>5 DEF SecureTypeOK, SecureInv

LEMMA FaithfulNow == SecureInv => SessionIsFaithful
BY SecureTypes, RoutedAsSent, OwnIsRead, HandledAreChecked, EachIsOnce DEF SessionIsFaithful, SecureInv

(***************************************************************************)
(* Every message of a session reaches the layer it is for, once and whole, *)
(* and what is handled is checked, or it is lost for a reason of its own   *)
(* (coder.c:137, :420 to :470, :1824): what SecureInv keeps, action by     *)
(* action.  The exceptions are in the statement: a Pong that repeats       *)
(* "rSMsg" goes to the application (RoutedByKind), and after a strcpy of   *)
(* an oMId that is too long (coder.c:1110, :1146) the receiver may handle  *)
(* another message than the one sent, refuse it or fail (FailsOnlyThen).   *)
(***************************************************************************)
THEOREM SessionStaysFaithful == SecureSpec => [](SecureInv /\ SessionIsFaithful)
<1>1. SecureInv /\ [SecureNext]_securevars => SecureInv'
  BY SecureStep
<1>2. SecureSpec => []SecureInv
  BY <1>1, SecureStart, PTL DEF SecureSpec
<1>3. SecureInv => SessionIsFaithful
  BY FaithfulNow
<1> QED BY <1>2, <1>3, PTL

(***************************************************************************)
(* The same where the session is one of the layers checked together, and    *)
(* of two others: each keeps its property, since the others leave it alone. *)
(***************************************************************************)
THEOREM MessagesStayFaithful ==
  MessagesSpec => [](SessionIsFaithful /\ IdentityAsGiven /\ RequestsAreAnswered)
<1>1. MessagesInit => SecureInit /\ OptionsInit /\ RequestsInit
  BY DEF MessagesInit
<1>2. [MessagesNext]_allvars => [SecureNext]_securevars /\ [OptionsNext]_line /\ [RequestsNext]_requests
  BY DEF MessagesNext, allvars, securevars, line, requests
<1>3. SecureInv /\ [SecureNext]_securevars => SecureInv'
  BY SecureStep
<1>4. OptionsInv /\ [OptionsNext]_line => OptionsInv'
  BY OptionsStep
<1>5. AnswersInv /\ [RequestsNext]_requests => AnswersInv'
  BY AnswersStep
<1>6. OptionsInit => OptionsInv
  BY OptionsStart
<1>7. RequestsInit => AnswersInv
  BY AnswersStart
<1>8. OptionsInv => IdentityAsGiven
  BY DEF OptionsInv
<1>9. AnswersInv => RequestsAreAnswered
  BY DEF AnswersInv
<1> QED
  BY <1>1, <1>2, <1>3, <1>4, <1>5, <1>6, <1>7, <1>8, <1>9, SecureStart, FaithfulNow, PTL DEF MessagesSpec
=============================================================================
