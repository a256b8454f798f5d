------------------------------- MODULE RsmpCodec -------------------------------
(***************************************************************************)
(* The JSON coder of RSMP messages (rsmp/coder/json.c) at work: a message  *)
(* is built through its constructor and its fields, written to a payload,  *)
(* changed at one place by a peer that follows another version of the      *)
(* protocol, read back, and released.                                      *)
(***************************************************************************)
EXTENDS RsmpMessages

CONSTANTS MaxEdits,     \* fields the application sets before it sends
          MaxItems,     \* items the application adds to arrays
          MaxChanges    \* places where the payload differs at the reader

ASSUME CodecAssumption == MaxEdits \in Nat /\ MaxItems \in Nat /\ MaxChanges \in Nat

VARIABLES phase,        \* where the message is in its life
          type,         \* its type
          msg,          \* the message at the sender
          payload,      \* the JSON value on the wire
          got,          \* what rsmp_json_payload2msg returned
          edits, items, changes,
          leaked        \* members of released messages that stay allocated

vars == <<phase, type, msg, payload, got, edits, items, changes, leaked>>

Json(t, x)   == [t |-> t, v |-> x]
JsonNull     == Json("null", Null)
JsonString(x) == Json("string", x)
NotJson      == Json("garbage", Null)

\* The contexts of the two processes, as rsmp_context_initialize leaves them.
Context ==
    [xNId |-> Null, ntsOId |-> "AA+BBCCC=DDDEEFFF", cId |-> "AA+BBCCC=DDDEEFFF",
     SXL |-> "", RSMP |-> <<[vers |-> "3.2.1"]>>,
     siteId |-> <<[sId |-> "CLIENT_SVMS"]>>]

-------------------------------------------------------------------------------
(***************************************************************************)
(* Encoding.                                                               *)
(***************************************************************************)
json_object_from_var(var) ==
    CASE var.type = "bool"            -> Json("boolean", var.data)
      [] var.type = "string"          ->
            JsonString(IF var.data = Null THEN "" ELSE var.data)
      [] var.type \in {"int", "uint"} -> Json("int", var.data)
      [] OTHER                        -> JsonNull

json_add_field(m, desc) == json_object_from_var(Encode(desc, m[desc.lib]))

json_add_item(item, desc) ==
    Json("object",
         [lib \in Libs(desc) |-> json_add_field(item, find_field(desc, lib))])

json_add_array(m, desc) ==
    Json("array", [i \in DOMAIN m[desc.lib] |-> json_add_item(m[desc.lib][i], desc.array)])

json_add_table(m, desc) ==
    Json("array", [i \in DOMAIN m[desc.lib] |->
                      json_object_from_var(Encode(desc, m[desc.lib][i]))])

json_add_fields(m, desc) ==
    [lib \in Libs(desc) |->
        LET d == find_field(desc, lib)
        IN  CASE d.mark = "field" -> json_add_field(m, d)
              [] d.mark = "array" -> json_add_array(m, d)
              [] d.mark = "table" -> json_add_table(m, d)]

\* The strings of a payload.
Strings(obj) ==
    LET Text(j) == IF j.t = "string" THEN {j.v} ELSE {}
        Deep(j) == IF j.t = "object" THEN UNION {Text(j.v[k]) : k \in DOMAIN j.v}
                   ELSE Text(j)
    IN  UNION {IF obj[k].t = "array"
               THEN UNION {Deep(obj[k].v[i]) : i \in DOMAIN obj[k].v}
               ELSE Text(obj[k]) : k \in DOMAIN obj}

\* The versions of the signal exchange lists are added under the key SXLG to
\* every payload in which the text "Version" occurs in quotes.
add_eSXLG_to_json(obj) ==
    LET SXLG == Json("array", [i \in DOMAIN rsmp_sg_lib |->
                                  Json("object", [sg |-> JsonString(rsmp_sg_lib[i])])])
    IN  [k \in DOMAIN obj \cup {"SXLG"} |-> IF k = "SXLG" THEN SXLG ELSE obj[k]]

rsmp_json_msg2payload(t, m) ==
    LET obj == json_add_fields(m, rsmp_msg_desc[t])
    IN  Json("object", IF "Version" \in Strings(obj) THEN add_eSXLG_to_json(obj)
                       ELSE obj)

-------------------------------------------------------------------------------
(***************************************************************************)
(* Decoding.  An outcome has a status: ok, error, or abort where json-c's  *)
(* assertion stops the process (json_object_array_length of what is no     *)
(* array).                                                                 *)
(***************************************************************************)
Outcome(status, value) == [status |-> status, value |-> value]

json2vars(j) ==
    CASE j.t = "string"  -> rsmp_var_auto_string(j.v)
      [] j.t = "boolean" -> rsmp_var_auto_bool(j.v)
      [] j.t \in {"int", "double"} -> [type |-> j.t, data |-> j.v]
      [] j.t = "null"    -> rsmp_var_new

\* Arrays and objects give no variable, which is an error.
json_extract_field(j, desc, old, junk) ==
    IF j.t \in {"array", "object"} THEN Outcome("error", old)
    ELSE LET r == Decode(desc, json2vars(j), old, junk)
         IN  Outcome(IF r.ret = 0 THEN "ok" ELSE "error", r.value)

\* The loops stop at the first item or field that is not decoded.
First(outcomes) ==
    LET bad == {i \in DOMAIN outcomes : outcomes[i].status # "ok"}
    IN  IF bad = {} THEN "ok"
        ELSE outcomes[CHOOSE i \in bad : \A k \in bad : i <= k].status

\* Mutant: a key that is missing keeps the field's default.
rsmp_json_object_get_Default(obj, lib, found) ==
    IF obj.t = "object" /\ lib \in DOMAIN obj.v /\ obj.v[lib].t # "null"
    THEN found[lib] ELSE Outcome("ok", Null)

\* A key that is missing or null is an error; nothing else has keys.
rsmp_json_object_get(obj, lib, found) ==
    IF obj.t = "object" /\ lib \in DOMAIN obj.v /\ obj.v[lib].t # "null"
    THEN found[lib] ELSE Outcome("error", Null)

\* The fields of one item of an array.
json_extract_item(obj, desc, junk) ==
    LET item     == NewItem(desc)
        keys     == IF obj.t = "object" THEN DOMAIN obj.v \cap Libs(desc) ELSE {}
        found    == [lib \in keys |->
                        json_extract_field(obj.v[lib], find_field(desc, lib), item[lib], junk)]
        outcomes == [i \in DOMAIN desc |-> rsmp_json_object_get(obj, desc[i].lib, found)]
        status   == First(outcomes)
    IN  Outcome(status, [lib \in Libs(desc) |->
            outcomes[CHOOSE i \in DOMAIN desc : desc[i].lib = lib].value])

json_extract_array(j, desc, junk) ==
    IF j.t # "array" THEN Outcome("abort", <<>>)
    ELSE LET outcomes == [i \in DOMAIN j.v |-> json_extract_item(j.v[i], desc.array, junk)]
         IN  Outcome(First(outcomes), [i \in DOMAIN j.v |-> outcomes[i].value])

json_extract_table(j, desc, junk) ==
    IF j.t # "array" THEN Outcome("abort", <<>>)
    ELSE LET outcomes == [i \in DOMAIN j.v |-> json_extract_field(j.v[i], desc, FALSE, junk)]
         IN  Outcome(First(outcomes), [i \in DOMAIN j.v |-> outcomes[i].value])

json_extract_fields(obj, m, desc, junk) ==
    LET found == [lib \in DOMAIN obj.v \cap Libs(desc) |->
                    LET d == find_field(desc, lib)
                        j == obj.v[lib]
                    IN  CASE d.mark = "field" -> json_extract_field(j, d, m[lib], junk)
                          [] d.mark = "array" -> json_extract_array(j, d, junk)
                          [] d.mark = "table" -> json_extract_table(j, d, junk)]
        outcomes == [i \in DOMAIN desc |-> rsmp_json_object_get(obj, desc[i].lib, found)]
        status   == First(outcomes)
    IN  Outcome(status, [lib \in Libs(desc) |->
            outcomes[CHOOSE i \in DOMAIN desc : desc[i].lib = lib].value])

rsmp_json_key_value_check(obj, key) ==
    obj.t = "object" /\ key \in DOMAIN obj.v /\ obj.v[key].t = "string"

rsmp_json_mType_check(obj) ==
    rsmp_json_key_value_check(obj, "mType") /\ obj.v["mType"].v = mType_value

\* The type of the message, NULL when there is none of that name.
rsmp_json_extract_type(obj) ==
    IF rsmp_json_key_value_check(obj, "type")
       /\ \E i \in DOMAIN rsmp_type_lib : rsmp_type_lib[i] = obj.v["type"].v
    THEN obj.v["type"].v ELSE Null

Result(status, t, m) == [status |-> status, type |-> t, msg |-> m]
NoMessage == Result("none", Null, <<>>)

\* What the caller gets: no message, a message, or the address of a message
\* that has been freed because a field was not decoded.  A type without an
\* entry in the table has no constructor to call.
rsmp_json_payload2msg(obj, junk) ==
    LET t == rsmp_json_extract_type(obj)
    IN  IF obj = NotJson \/ ~rsmp_json_mType_check(obj) \/ t = Null THEN NoMessage
        ELSE IF t \notin Types THEN Result("abort", t, <<>>)
        ELSE LET new == rsmp_message_new(t, "uuid-b", "date-b", Context)
                 out == json_extract_fields(obj, new, rsmp_msg_desc[t], junk)
             IN  CASE out.status = "ok"    -> Result("ok", t, out.value)
                   [] out.status = "error" -> Result("freed", t, <<>>)
                   [] out.status = "abort" -> Result("abort", t, <<>>)

-------------------------------------------------------------------------------
(***************************************************************************)
(* The life of a message.                                                  *)
(***************************************************************************)
Init ==
    /\ phase = "build"
    /\ type \in Types
    /\ msg = rsmp_message_new(type, "uuid-a", "date-a", Context)
    /\ payload = NotJson
    /\ got = NoMessage
    /\ edits = 0 /\ items = 0 /\ changes = 0
    /\ leaked = {}

\* Values the application gives to a field.
Sample(desc) ==
    CASE desc.kind \in {"str", "v"} -> {"", "text", "Version"}
      [] desc.kind = "enum"         -> DOMAIN desc.names \cap Range0(Len(desc.names))
      [] desc.kind = "bool"         -> BOOLEAN
      [] desc.kind = "uuid"         -> {"uuid-b"}
      [] desc.kind = "ts"           -> {"date-b"}
      [] desc.kind = "mType"        -> {Null}

Fields == rsmp_msg_desc[type]

\* rsmp_str_set and its kin: the application sets a member.
SetField ==
    /\ phase = "build" /\ edits < MaxEdits
    /\ \E i \in DOMAIN Fields :
          /\ Fields[i].mark = "field" /\ Fields[i].lib \notin {"type", "mType"}
          /\ \E x \in Sample(Fields[i]) : msg' = [msg EXCEPT ![Fields[i].lib] = x]
    /\ edits' = edits + 1
    /\ UNCHANGED <<phase, type, payload, got, items, changes, leaked>>

\* rsmp_array_..._new_item, then the item's members.
AddItem ==
    /\ phase = "build" /\ items < MaxItems
    /\ \E i \in DOMAIN Fields :
          /\ Fields[i].mark = "array"
          /\ \E k \in DOMAIN Fields[i].array :
                \E x \in Sample(Fields[i].array[k]) :
                    msg' = [msg EXCEPT ![Fields[i].lib] =
                              Append(@, [NewItem(Fields[i].array)
                                            EXCEPT ![Fields[i].array[k].lib] = x])]
    /\ items' = items + 1
    /\ UNCHANGED <<phase, type, payload, got, edits, changes, leaked>>

\* A member of a table.
SetTable ==
    /\ phase = "build" /\ edits < MaxEdits
    /\ \E i \in DOMAIN Fields :
          /\ Fields[i].mark = "table"
          /\ \E k \in DOMAIN msg[Fields[i].lib] :
                msg' = [msg EXCEPT ![Fields[i].lib][k] = ~@]
    /\ edits' = edits + 1
    /\ UNCHANGED <<phase, type, payload, got, items, changes, leaked>>

\* sendMessage: the message becomes a payload.
Send ==
    /\ phase = "build"
    /\ payload' = rsmp_json_msg2payload(type, msg)
    /\ phase' = "wire"
    /\ UNCHANGED <<type, msg, got, edits, items, changes, leaked>>

\* Other values that a key may have.
Others == {JsonNull, Json("boolean", TRUE), Json("int", 1), JsonString(""),
           JsonString("text"), JsonString("Watchdog"),
           JsonString("StatusRequestAckIncluded"), Json("array", <<>>),
           Json("object", [k \in {} |-> JsonNull])}

Without(obj, key) == [k \in DOMAIN obj \ {key} |-> obj[k]]

\* Another implementation omits a key or gives it another value, at the top or
\* in an item of an array, or the payload is no JSON at all.
Change ==
    /\ phase = "wire" /\ changes < MaxChanges /\ payload # NotJson
    /\ LET obj == payload.v
       IN  \/ payload' = NotJson
           \/ \E key \in DOMAIN obj :
                 \/ payload' = Json("object", Without(obj, key))
                 \/ \E x \in Others : payload' = Json("object", [obj EXCEPT ![key] = x])
                 \/ /\ obj[key].t = "array"
                    /\ \E i \in DOMAIN obj[key].v :
                          \/ \E x \in Others :
                                payload' = Json("object", [obj EXCEPT ![key].v[i] = x])
                          \/ /\ obj[key].v[i].t = "object"
                             /\ \E k \in DOMAIN obj[key].v[i].v :
                                   \/ payload' = Json("object",
                                        [obj EXCEPT ![key].v[i].v = Without(@, k)])
                                   \/ \E x \in Others : payload' = Json("object",
                                        [obj EXCEPT ![key].v[i].v[k] = x])
    /\ changes' = changes + 1
    /\ UNCHANGED <<phase, type, msg, got, edits, items, leaked>>

\* waitForMessage at the reader.
Receive ==
    /\ phase = "wire"
    /\ \E junk \in {Epoch, "date-b"} : got' = rsmp_json_payload2msg(payload, junk)
    /\ phase' = "received"
    /\ UNCHANGED <<type, msg, payload, edits, items, changes, leaked>>

\* The reader is done with a message and frees it.
Free ==
    /\ phase = "received" /\ got.status = "ok"
    /\ leaked' = Owned(got.type, got.msg) \ rsmp_message_free[got.type]
    /\ phase' = "freed"
    /\ UNCHANGED <<type, msg, payload, got, edits, items, changes>>

Next == SetField \/ AddItem \/ SetTable \/ Send \/ Change \/ Receive \/ Free

Spec == Init /\ [][Next]_vars

-------------------------------------------------------------------------------
(***************************************************************************)
(* Properties.                                                             *)
(***************************************************************************)
\* Every message at hand has the fields of its type, and a result of the
\* decoder is one of its outcomes (rsmp_json_payload2msg).
TypeOK ==
    /\ phase \in {"build", "wire", "received", "freed"}
    /\ type \in Types /\ DOMAIN msg = Libs(Fields)
    /\ got.status \in {"none", "ok", "freed", "abort"}
    /\ got.status = "ok" => DOMAIN got.msg = Libs(rsmp_msg_desc[got.type])
    /\ edits <= MaxEdits /\ items <= MaxItems /\ changes <= MaxChanges

\* A NULL text is written as an empty one.
NoNull(d, m) ==
    LET Scalar(x) == IF x = Null THEN "" ELSE x
    IN  [lib \in DOMAIN m |->
            LET f == find_field(d, lib)
            IN  CASE f.mark = "field" /\ f.kind = "str" -> Scalar(m[lib])
                  [] f.mark = "array" ->
                        [i \in DOMAIN m[lib] |->
                            [k \in DOMAIN m[lib][i] |->
                                IF find_field(f.array, k).kind = "str"
                                THEN Scalar(m[lib][i][k]) ELSE m[lib][i][k]]]
                  [] OTHER -> m[lib]]

\* Whatever message the application builds with the setters, the peer that
\* receives its payload unchanged decodes the same message, up to NULL texts:
\* no combination of defaults and values is written that the decoders refuse
\* (rsmp_json_msg2payload, rsmp_json_payload2msg and every pair of codecs).
RoundTrip ==
    phase = "received" /\ changes = 0 =>
        /\ got.status = "ok" /\ got.type = type
        /\ NoNull(Fields, got.msg) = NoNull(Fields, msg)

\* A payload from which a field of its table is missing, at the top or in an
\* item, is never accepted, whatever else it contains (json_extract_fields).
AcceptedIsComplete ==
    got.status = "ok" =>
        \A i \in DOMAIN rsmp_msg_desc[got.type] :
            LET d == rsmp_msg_desc[got.type][i]
            IN  /\ d.lib \in DOMAIN payload.v
                /\ d.mark = "array" =>
                      /\ Len(got.msg[d.lib]) = Len(payload.v[d.lib].v)
                      /\ \A k \in DOMAIN payload.v[d.lib].v :
                            Libs(d.array) \subseteq DOMAIN payload.v[d.lib].v[k].v

\* A text that was accepted for a field is the text the field is written with
\* again: no decoder maps a text it does not know to a default (the decoders
\* of enumerations, identifiers and texts; dates apart).
AcceptedTexts ==
    got.status = "ok" =>
        \A i \in DOMAIN rsmp_msg_desc[got.type] :
            LET d == rsmp_msg_desc[got.type][i]
            IN  d.mark = "field" /\ d.kind # "ts" /\ payload.v[d.lib].t = "string" =>
                    \/ json_add_field(got.msg, d).v = payload.v[d.lib].v
                    \/ d.kind = "uuid" /\ payload.v[d.lib].v = ""

\* Freeing a received message leaves no member allocated, apart from the items
\* of the three subscription messages (rsmp_msg_..._free).
OnlyKnownLeaks ==
    leaked \subseteq (IF got.type \in {"StatusSubscribe", "StatusUpdate", "StatusUnsubscribe"}
                      THEN {"sS"} ELSE {})

\* What the decoder promises of any payload: what it accepts is complete and as
\* it was written, and nothing of it stays behind (rsmp_json_payload2msg).
DecodedIsSound == TypeOK /\ AcceptedIsComplete /\ AcceptedTexts /\ OnlyKnownLeaks

\* A payload that is not decoded gives the caller no message: waitForMessage
\* reports "failed to decode the message" on a NULL pointer only.
FailureIsReported == got.status # "freed"

\* The decoder of a date reports what it cannot read ("@return ==0 si OK, !=O si
\* Pb", rsmp_field_decode_t): an accepted date is the one in the payload.
AcceptedDates ==
    got.status = "ok" =>
        \A i \in DOMAIN rsmp_msg_desc[got.type] :
            LET d == rsmp_msg_desc[got.type][i]
            IN  d.mark = "field" /\ d.kind = "ts" =>
                    got.msg[d.lib] = payload.v[d.lib].v

\* A version message carries the versions of the signal exchange lists under
\* the key eSXLG (the comment in rsmp_json_msg2payload).
VersionCarriesESXLG ==
    phase = "wire" /\ changes = 0 /\ type = "Version" => "eSXLG" \in DOMAIN payload.v
===============================================================================
