------------------------------ MODULE Envelope ------------------------------
(***************************************************************************)
(* The way of one message of a session through the coder (coder.c): it is  *)
(* checked and serialised, classed by the marker found in its text, put in *)
(* an Encrypted message, alone or with a second element under another      *)
(* password, decrypted element by element by the peer's cyber_receive,     *)
(* routed by its class, and the internal ones are deserialised and checked *)
(* again.  ChallengeSession takes all of this for granted; the queues and  *)
(* the threads are those of MsgQueue and SessionThreads.                   *)
(*                                                                         *)
(* A text is represented by what the code asks of it: "fit" has an         *)
(* accepted length, "empty" and "long" (for an mId: another) have not; the *)
(* other strings stand for themselves.  "number", "true" and "false" are   *)
(* the JSON values that are no text.  The number n of a message stands for *)
(* its mId.                                                                *)
(***************************************************************************)
EXTENDS Naturals, Sequences, FiniteSets, Functions

CONSTANTS Login,    \* logins of the sender, known to the receiver or not
          Key,      \* passwords
          MaxSend,  \* bound: messages and challenges sent
          MaxOther, \* bound: those that another implementation sends
          MaxJunk   \* bound: payloads that arrive mutilated

ASSUME EnvelopeAssumption == {MaxSend, MaxOther, MaxJunk} \subseteq Nat

VARIABLES
    to,          \* the sender's entries: password and new password of each login
    from,        \* the receiver's: password and active, of the logins it knows
    built,       \* built[n]: message n, its author, its login and what was encrypted
    net,         \* Encrypted messages on their way
    internal_q,  \* of the receiver: elements with the entry that opened them
    external_q,
    handled,     \* what cyber_process_internal_msg was given
    lost,        \* lost[n]: why message n went no further
    ptxt_list,   \* the pointer of cyber_receive before the next payload
    up,          \* the receiver has not failed
    junk

securevars == <<to, from, built, net, internal_q, external_q, handled, lost, ptxt_list, up, junk>>

-----------------------------------------------------------------------------
(* Messages and documents.                                                 *)

\* The fields of each type, and the JSON values they accept.
MessageFields ==
    [AllClear          |-> {},
     ChangePwdRequest  |-> {"pwd"},
     ChangePwdResponse |-> {"oMId", "status"},
     Ping              |-> {"pad"},
     Pong              |-> {"pad", "oMId"}]
MessageTypes == DOMAIN MessageFields
Words == {"rSMsg", "eRMsg"}
NoText == {"number", "true", "false"}
Text == {"empty", "fit", "long"} \union Words \union MessageTypes

\* A member of the document that is there with the JSON type asked for.
HasText(doc, key) == key \in DOMAIN doc /\ doc[key] \notin NoText
HasField(doc, key) ==
    IF key = "status" THEN key \in DOMAIN doc /\ doc[key] \in {"true", "false"} ELSE HasText(doc, key)

\* Mutant: an empty password passes.
messageCheckFields_AnyPwd(m) ==
    /\ m.mId = "fit"
    /\ "pad" \in DOMAIN m => m.pad # "empty"
    /\ "oMId" \in DOMAIN m => m.oMId # "empty"

\* messageCheckFields.  A password that is too short is only logged.
messageCheckFields(m) ==
    /\ m.mId = "fit"
    /\ "pwd" \in DOMAIN m => m.pwd \notin {"empty", "long"}
    /\ "pad" \in DOMAIN m => m.pad # "empty"
    /\ "oMId" \in DOMAIN m => m.oMId # "empty"

\* Mutant: the answered message is not named in a Pong.
serializeMessage_PongAlone(m) ==
    [k \in {"mType"} \union (IF m.type = "Pong" THEN DOMAIN m \ {"oMId"} ELSE DOMAIN m) |->
        IF k = "mType" THEN "eRMsg" ELSE m[k]]

\* serializeMessage, of a message that passed messageCheckFields.
serializeMessage(m) ==
    [k \in {"mType"} \union DOMAIN m |-> IF k = "mType" THEN "eRMsg" ELSE m[k]]

\* The first tests of deserializeMessage.
HeadIsRead(doc) ==
    /\ HasText(doc, "mType") /\ doc["mType"] = "eRMsg"
    /\ HasText(doc, "mId") /\ doc["mId"] = "fit"
    /\ HasText(doc, "type") /\ doc["type"] \in MessageTypes

\* Mutant: the array has no room for the end of the string.
Overruns_NoTerminator(doc) ==
    /\ HeadIsRead(doc) /\ doc["type"] \in {"ChangePwdResponse", "Pong"}
    /\ doc["type"] = "Pong" => HasText(doc, "pad")
    /\ HasText(doc, "oMId") /\ doc["oMId"] \in {"fit", "long"}

\* strcpy of an oMId, whatever its length, into an array of UUID_STR_LEN: a long one
\* runs over what follows in the Message (the padding, the type) and over the heap.
Overruns(doc) ==
    /\ HeadIsRead(doc) /\ doc["type"] \in {"ChangePwdResponse", "Pong"}
    /\ doc["type"] = "Pong" => HasText(doc, "pad")
    /\ HasText(doc, "oMId") /\ doc["oMId"] = "long"

\* What such a message can be taken for: itself, when the text ends before anything
\* that is used, or, when it reaches the type, one that uses nothing behind the array;
\* a Pong read as a response has the first character for its status.
Overwritten(m) ==
    {m, [type |-> "AllClear", mId |-> m.mId]} \union
        (IF m.type = "Pong"
           THEN {[type |-> "ChangePwdResponse", mId |-> m.mId, oMId |-> m.oMId, status |-> "true"]} ELSE {})

\* deserializeMessage: the messages that may come out, none when it fails.
deserializeMessage(doc) ==
    IF HeadIsRead(doc) /\ \A f \in MessageFields[doc["type"]] : HasField(doc, f)
      THEN LET m == [k \in {"mId", "type"} \union MessageFields[doc["type"]] |-> doc[k]]
           IN  {x \in IF Overruns(doc) THEN Overwritten(m) ELSE {m} : messageCheckFields(x)}
      ELSE {}

-----------------------------------------------------------------------------
(* Plain texts.                                                            *)

\* strstr of a marker in quotes: one of the texts of the document is that word.
Marked(doc, word) == \E k \in DOMAIN doc : doc[k] = word

\* Mutant: the markers are looked for in the other order.
ptxt_set_InternalFirst(doc) ==
    IF Marked(doc, "eRMsg") THEN "INTERNAL" ELSE IF Marked(doc, "rSMsg") THEN "EXTERNAL" ELSE "unknown"

\* ptxt_set: the class of a text; without a marker it is dropped.
ptxt_set(doc) ==
    IF Marked(doc, "rSMsg") THEN "EXTERNAL" ELSE IF Marked(doc, "eRMsg") THEN "INTERNAL" ELSE "unknown"

\* coder_decrypt: the entry of the login is known and active and its password opens the element.
coder_decrypt(login, e) == login \in DOMAIN from /\ from[login].active /\ from[login].pwd = e.key

\* ptxt_deserial: the class is one of the two.
ptxt_deserial(ptxt) == ptxt.class \in {"INTERNAL", "EXTERNAL"}

\* ptxt_is_valid.  The time window is not active: the option that sets it ends
\* the program.
ptxt_is_valid(ptxt) == \E w \in Words : Marked(ptxt.original, w)

\* An element that is decrypted, deserialised and found valid.
Readable(login, e) == coder_decrypt(login, e) /\ ptxt_deserial(e.ptxt) /\ ptxt_is_valid(e.ptxt)

\* Mutant: the first element that does not open ends the loop.
Valid_StopsAtFirst(login, data) ==
    {i \in DOMAIN data : \A j \in 1 .. i : Readable(login, data[j])}

\* The loop of Encrypted_decode: the elements that are kept.
Valid(login, data) == {i \in DOMAIN data : Readable(login, data[i])}

-----------------------------------------------------------------------------

SecureInit ==
    /\ to \in [Login -> {k \in Key \X Key : k[1] # k[2]}]
    /\ \E known \in SUBSET Login : from \in [known -> [pwd : Key, active : BOOLEAN]]
    /\ built = <<>> /\ net = <<>>
    /\ internal_q = <<>> /\ external_q = <<>> /\ handled = <<>>
    /\ lost = <<>>
    /\ ptxt_list = "undefined" /\ up = TRUE /\ junk = 0

\* An element as it is encrypted: its number, its key, its plain text with the class.
Element(i, key, class, doc) ==
    [n |-> Len(built) + i, key |-> key, ptxt |-> [class |-> class, original |-> doc]]

\* The elements are on record, whether they are written or not.
Sent(login, data, author) ==
    built' = built \o [i \in DOMAIN data |-> [author |-> author, login |-> login, element |-> data[i]]]

Written(login, data) == net' = Append(net, [login |-> login, data |-> data])

Lose(ns, why) == lost' = [n \in DOMAIN lost \union ns |-> IF n \in ns THEN why ELSE lost[n]]

\* Encrypted_write of one text: classed, encoded with the password of the login, written.
Encrypted_write(login, doc, author) ==
    LET data == <<Element(1, to[login][1], ptxt_set(doc), doc)>>
    IN  /\ Sent(login, data, author)
        /\ IF ptxt_set(doc) = "unknown"
             THEN Lose({data[1].n}, "refused") /\ UNCHANGED net
             ELSE Written(login, data) /\ UNCHANGED lost
        /\ UNCHANGED <<to, from, internal_q, external_q, handled, ptxt_list, up, junk>>

\* The messages a site makes for itself, with initMessage, sendAllClear and the
\* answers of cyber_process_internal_msg.  A Pong has the padding of the Ping it
\* answers, which another implementation may have chosen: any text but the empty one,
\* a marker as well ("fit" stands for every other).
OwnMessages ==
    {[type |-> "AllClear", mId |-> "fit"]}
      \union {[type |-> "Pong", mId |-> "fit", pad |-> x, oMId |-> "fit"] : x \in {"fit"} \union Words}
      \union {[type |-> "ChangePwdResponse", mId |-> "fit", oMId |-> "fit", status |-> b] : b \in {"true", "false"}}

\* _sendMessage.
SendMessage ==
    \E m \in OwnMessages, l \in Login :
        /\ Len(built) < MaxSend
        /\ messageCheckFields(m)
        /\ Encrypted_write(l, serializeMessage(m), "own")

\* The application hands any text to _send: an RSMP message, one that quotes a
\* marker, a text that has none.
SendText ==
    \E l \in Login, mType \in {"rSMsg", "fit"}, text \in {"fit", "eRMsg"} :
        /\ Len(built) < MaxSend
        /\ Encrypted_write(l, [mType |-> mType, text |-> text], "application")

\* Challenge_encode: request and Ping under two passwords in one message.
Challenge_encode ==
    \E l \in Login :
        LET request == serializeMessage([type |-> "ChangePwdRequest", mId |-> "fit", pwd |-> "fit"])
            ping == serializeMessage([type |-> "Ping", mId |-> "fit", pad |-> "fit"])
            data == <<Element(1, to[l][1], ptxt_set(request), request),
                      Element(2, to[l][2], ptxt_set(ping), ping)>>
        IN  /\ Len(built) < MaxSend
            /\ Sent(l, data, "own")
            /\ Written(l, data)
            /\ UNCHANGED <<to, from, internal_q, external_q, handled, lost, ptxt_list, up, junk>>

\* Another implementation of the protocol: its message is one of the protocol, or a
\* member is missing, of another type, of any length or quotes a marker of RSMP;
\* the class is any.
Lacking(doc, x) == [k \in DOMAIN doc \ {x} |-> doc[k]]
Having(doc, x, v) == [doc EXCEPT ![x] = v]
Altered(doc) ==
    {Lacking(doc, x) : x \in DOMAIN doc}
      \union {Having(doc, x, v) : x \in DOMAIN doc, v \in {"number", "empty", "long", "rSMsg"}}
PeerMessages ==
    {serializeMessage(m) : m \in OwnMessages \union
        {[type |-> "ChangePwdRequest", mId |-> "fit", pwd |-> "fit"],
         [type |-> "Ping", mId |-> "fit", pad |-> "fit"]}}
OtherPeerSends ==
    \E l \in Login, whole \in PeerMessages :
      \E doc \in {whole} \union Altered(whole), class \in {"INTERNAL", "EXTERNAL", "unknown"} :
        /\ Len(built) < MaxSend
        /\ Cardinality({n \in DOMAIN built : built[n].author = "other"}) < MaxOther
        /\ Sent(l, <<Element(1, to[l][1], class, doc)>>, "other")
        /\ Written(l, <<Element(1, to[l][1], class, doc)>>)
        /\ UNCHANGED <<to, from, internal_q, external_q, handled, lost, ptxt_list, up, junk>>

-----------------------------------------------------------------------------

\* The numbers of a set, in their order.
InOrder(ns) ==
    CHOOSE s \in [1 .. Cardinality(ns) -> ns] : \A i, j \in DOMAIN s : i < j => s[i] < s[j]

\* The elements chosen, in their order, with the entry that opened them.
Opened(m, chosen) ==
    [k \in DOMAIN InOrder(chosen) |->
        LET e == m.data[InOrder(chosen)[k]]
        IN  [n |-> e.n, doc |-> e.ptxt.original, auth |-> m.login]]

\* Mutant: what is not internal is pushed, and so is what is.
Kept_Both(m, class) ==
    Opened(m, {i \in Valid(m.login, m.data) : class = "EXTERNAL" \/ m.data[i].ptxt.class = class})

\* The two branches of cyber_receive's loop: the kept elements of one class.
Kept(m, class) == Opened(m, {i \in Valid(m.login, m.data) : m.data[i].ptxt.class = class})

\* cyber_receive with Encrypted_decode: what is kept goes to the queue of its class.
cyber_receive ==
    /\ up /\ net # <<>>
    /\ LET m == Head(net)
       IN  /\ internal_q' = internal_q \o Kept(m, "INTERNAL")
           /\ external_q' = external_q \o Kept(m, "EXTERNAL")
           /\ Lose({m.data[i].n : i \in DOMAIN m.data \ Valid(m.login, m.data)}, "unreadable")
    /\ net' = Tail(net)
    /\ ptxt_list' = "freed"
    /\ UNCHANGED <<to, from, built, handled, up, junk>>

\* A payload cut by a read timeout, or of another kind: Encrypted_decode fails
\* before it assigns ptxt_list, which cyber_receive frees all the same.  The
\* variable has no value before the first whole payload; after one, its place on
\* the stack holds what _free left there.
JunkArrives ==
    /\ up /\ net # <<>> /\ junk < MaxJunk
    /\ junk' = junk + 1
    /\ Lose({Head(net).data[i].n : i \in DOMAIN Head(net).data}, "cut")
    /\ net' = Tail(net)
    /\ up' \in IF ptxt_list = "undefined" THEN BOOLEAN ELSE {TRUE}
    /\ UNCHANGED <<to, from, built, internal_q, external_q, handled, ptxt_list>>

\* cyber_receive_internal: one message taken from its queue.  After an overrun it may
\* be refused or handled, and the process may fail at once; what the damaged heap causes
\* later is left out.
cyber_receive_internal ==
    /\ up /\ internal_q # <<>>
    /\ LET e == Head(internal_q)
       IN  /\ \/ /\ deserializeMessage(e.doc) = {} \/ Overruns(e.doc)
                 /\ Lose({e.n}, "malformed") /\ UNCHANGED handled
              \/ /\ \E m \in deserializeMessage(e.doc) :
                       handled' = Append(handled, [n |-> e.n, msg |-> m, auth |-> e.auth])
                 /\ UNCHANGED lost
           /\ up' \in IF Overruns(e.doc) THEN BOOLEAN ELSE {TRUE}
    /\ internal_q' = Tail(internal_q)
    /\ UNCHANGED <<to, from, built, net, external_q, ptxt_list, junk>>

SecureNext ==
    \/ SendMessage \/ SendText \/ Challenge_encode \/ OtherPeerSends
    \/ cyber_receive \/ JunkArrives \/ cyber_receive_internal

SecureSpec == SecureInit /\ [][SecureNext]_securevars

-----------------------------------------------------------------------------
(* Properties.                                                             *)

\* Types of the variables.
SecureTypeOK ==
    /\ DOMAIN from \subseteq Login
    /\ \A n \in DOMAIN built : /\ built[n].author \in {"own", "application", "other"}
                             /\ Range(built[n].element.ptxt.original) \subseteq Text \union NoText
    /\ DOMAIN lost \subseteq DOMAIN built
    /\ \A n \in DOMAIN lost : lost[n] \in {"refused", "unreadable", "cut", "malformed"}
    /\ \A i \in DOMAIN net : net[i].login \in Login /\ net[i].data # <<>>
    /\ \A i \in DOMAIN handled : handled[i].auth \in Login /\ handled[i].msg.type \in MessageTypes
    /\ up \in BOOLEAN /\ junk \in 0 .. MaxJunk /\ ptxt_list \in {"undefined", "freed"}

\* What the application sends is never acted on by the session: ptxt_set classes a text
\* by the words found anywhere in it, not by its mType (coder.c:137), so a text that
\* only quotes "eRMsg" reaches the internal queue; an RSMP message never does.  For the
\* same reason a Pong that repeats the padding "rSMsg" reaches the peer's application;
\* no other message of the session does.
RoutedByKind ==
    /\ \A i \in DOMAIN handled : built[handled[i].n].author # "application"
    /\ \A i \in DOMAIN internal_q :
         built[internal_q[i].n].author = "application" => internal_q[i].doc["mType"] # "rSMsg"
    /\ \A i \in DOMAIN external_q :
         LET b == built[external_q[i].n]
         IN  b.author = "own" =>
               b.element.ptxt.original["type"] = "Pong" /\ b.element.ptxt.original["pad"] = "rSMsg"

\* Two sites that run this code understand each other: what serializeMessage builds is
\* never refused by deserializeMessage, and the message handled is the message built,
\* under the entry of the login it was sent with.
OwnIsUnderstood ==
    /\ \A n \in DOMAIN lost : built[n].author = "own" => lost[n] # "malformed"
    /\ \A i \in DOMAIN handled :
         LET b == built[handled[i].n]
         IN  b.author = "own" =>
               /\ handled[i].auth = b.login
               /\ \A k \in {"mId", "type"} \union MessageFields[b.element.ptxt.original["type"]] :
                     handled[i].msg[k] = b.element.ptxt.original[k]

\* What cyber_process_internal_msg is given, from this program or from another
\* implementation that omits or changes one member, has every field of its type, none
\* of them empty, and a password that fits its buffer.  The length of an oMId is not
\* among what is checked: see OMIdFits.
HandledIsChecked ==
    \A i \in DOMAIN handled :
        LET m == handled[i].msg
        IN  /\ MessageFields[m.type] \subseteq DOMAIN m
            /\ \A f \in MessageFields[m.type] : m[f] # "empty" /\ (m[f] \in NoText => f = "status")
            /\ m.type = "ChangePwdRequest" => m.pwd # "long"

\* Every message is in one place: on its way, in one queue, handled, or lost.
EachOnce ==
    \A n \in DOMAIN built :
        Cardinality({i \in DOMAIN net : \E j \in DOMAIN net[i].data : net[i].data[j].n = n})
          + Cardinality({i \in DOMAIN internal_q : internal_q[i].n = n})
          + Cardinality({i \in DOMAIN external_q : external_q[i].n = n})
          + Cardinality({i \in DOMAIN handled : handled[i].n = n})
          + Cardinality(DOMAIN lost \intersect {n}) = 1

\* An element that the receiver can open is not given up for its neighbour: of a
\* challenge, a peer that has switched already reads the Ping, one that has not reads
\* the request (coder.c:1824, "On passe au suivant").
ReadableIsKept ==
    \A n \in DOMAIN lost :
        LET b == built[n]
        IN  /\ b.author = "own" /\ b.login \in DOMAIN from
            /\ from[b.login].active /\ from[b.login].pwd = b.element.key
            => lost[n] # "unreadable"

\* Is there a message of another implementation whose oMId is too long?
LongOMIdSent ==
    \E n \in DOMAIN built : built[n].author = "other" /\ Overruns(built[n].element.ptxt.original)

\* The receiver fails for two reasons only, a payload it cannot decode and an oMId that
\* is too long: two sites that run this code do not bring each other down while their
\* payloads arrive whole.
FailsOnlyThen == up \/ junk > 0 \/ LongOMIdSent

\* What the coder guarantees of a session's messages: each reaches the layer it is for,
\* once and whole, and is not lost while it can be read; but for a Pong that repeats a
\* marker and for the length of an oMId, as said above.
SessionIsFaithful ==
    /\ SecureTypeOK /\ RoutedByKind /\ OwnIsUnderstood /\ HandledIsChecked
    /\ EachOnce /\ ReadableIsKept /\ FailsOnlyThen

-----------------------------------------------------------------------------
(* What is meant and not kept.                                             *)

\* A payload that cannot be decoded is dropped and nothing else: Encrypted_decode
\* promises the list in ptxt_list.
JunkIsOnlyDropped == up \/ LongOMIdSent

\* A message that is accepted has an oMId that fits its array, and one that does not is
\* refused (coder.c:1110 and 1146 copy it before messageCheckFields, which asks only
\* whether it is empty).
OMIdFits ==
    /\ \A i \in DOMAIN handled : "oMId" \in DOMAIN handled[i].msg => handled[i].msg.oMId # "long"
    /\ up \/ junk > 0

\* The messages of the session stay out of the application: the marker looked for is
\* called the "mType canari" (coder.c:143), yet a Pong carries the padding of the Ping.
OwnStaysInternal == \A i \in DOMAIN external_q : built[external_q[i].n].author # "own"
=============================================================================
