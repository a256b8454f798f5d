------------------------------ MODULE Display ------------------------------
(***************************************************************************)
(* The messages of variable message signs (rsmp/sxl/display): each status  *)
(* and command has a C structure, an encoder to JSON and a decoder, and a  *)
(* handler that the SXL layer calls with the text of the first argument    *)
(* and the response to fill (Dispatch models that layer).                  *)
(*                                                                         *)
(* A document maps the keys it has to their values.  Of the texts, an      *)
(* identifier of each structure is kept; a text is "" or fits its array,   *)
(* or is "full": at least as long as the array.  The nested parts of an    *)
(* M31 message, and what is only logged, are one value.                    *)
(***************************************************************************)
EXTENDS Naturals, Sequences, FiniteSets, TLC

CONSTANTS Id,       \* identifiers that fit their array
          Body,     \* values of everything that is not an identifier
          MaxList   \* bound: elements of a list

VARIABLES
    call,      \* the call under way: kind and, when this code encoded it, the structure
    doc,       \* the document
    step,      \* "idle", "given" to the handler, "returned"
    parsed,    \* what the decoder left in the handler's structure
    ret,       \* the handler's return value
    response,  \* response->v and response->age
    up         \* the handler did not fail

vars == <<call, doc, step, parsed, ret, response, up>>

Commands == {"M31", "M32", "M40", "M41"}
Statuses == {"S10", "S20", "S30", "S40"}
Kind == Commands \union Statuses

Text == Id \union {"", "full"}
Lists(S) == UNION {[1 .. n -> S] : n \in 0 .. MaxList}

-----------------------------------------------------------------------------
(* Structures and encoders.                                                *)

\* The structures an application fills.
Messages == [msgId : Id, body : Body]
Template == [templateId : Id, readonly : BOOLEAN, zones : Lists([zoneId : Id, colors : 0 .. 1, options : Body])]
Structures(kind) ==
    CASE kind = "M31" -> Lists(Messages)
      [] kind \in {"M32", "S30"} -> Lists(Id)
      [] kind = "M40" -> [msgId : Id, timing : Body, dynamicData : Id \union {""}]
      [] kind = "M41" -> [msgId : Id, displayPriority : Body]
      [] kind = "S10" -> [displayType : Id, limits : Body, size : Body, groups : Body \union {"none"}]
      [] kind = "S20" -> Lists(Template)
      [] kind = "S40" -> Lists(Messages)

\* A document with one key.
Wrapper(key, value) == [k \in {key} |-> value]

\* encode_disp_s30_status_response.
encode_disp_s30(res) == Wrapper("msgIdList", res)

\* encode_disp_m31_command_request.
encode_disp_m31(req) == Wrapper("messages", req)

\* encode_disp_m32_command_request: no object for an empty list.
encode_disp_m32(req) == Wrapper("msgIdList", req)

\* encode_disp_m40_command_request: dynamicData only when there is some.
encode_disp_m40(req) ==
    Wrapper("msgId", req.msgId) @@ Wrapper("timing", req.timing)
        @@ (IF req.dynamicData = "" THEN <<>> ELSE Wrapper("dynamicData", req.dynamicData))

\* encode_disp_m41_command_request.
encode_disp_m41(req) == Wrapper("msgId", req.msgId) @@ Wrapper("displayPriority", req.displayPriority)

\* Mutant: the templates are added without their zones.
encode_disp_s20_NoZones(res) ==
    Wrapper("templates", [i \in DOMAIN res |-> [templateId |-> res[i].templateId, readonly |-> res[i].readonly]])

\* encode_disp_s20_status_response: of the colours, the list and not its length.
encode_disp_s20(res) ==
    Wrapper("templates",
            [i \in DOMAIN res |->
               [templateId |-> res[i].templateId, readonly |-> res[i].readonly,
                zones |-> [j \in DOMAIN res[i].zones |->
                             [zoneId |-> res[i].zones[j].zoneId,
                              supportedColors |-> res[i].zones[j].colors,
                              options |-> res[i].zones[j].options]]]])

\* encode_disp_s10_status_response: null when there is no group.
encode_disp_s10(res) ==
    [displayType |-> res.displayType, limits |-> res.limits, size |-> res.size,
     predefinedGroups |-> IF res.groups = "none" THEN "null" ELSE res.groups]

\* encode_disp_s40_status_response.
encode_disp_s40(res) == Wrapper("displayPoolList", res)

Encoded(kind, s) ==
    CASE kind = "S30" -> encode_disp_s30(s)
      [] kind = "M31" -> encode_disp_m31(s)
      [] kind = "M32" -> encode_disp_m32(s)
      [] kind = "M40" -> encode_disp_m40(s)
      [] kind = "M41" -> encode_disp_m41(s)
      [] kind = "S20" -> encode_disp_s20(s)
      [] kind = "S10" -> encode_disp_s10(s)
      [] kind = "S40" -> encode_disp_s40(s)

-----------------------------------------------------------------------------
(* Decoders: the set of what they may leave, empty when they fail.         *)

\* strncpy with the size of the array: a text that fills it is not terminated,
\* and is read on into what follows.
strncpy_all(t) == IF t = "full" THEN "unterminated" ELSE t

\* Mutant: the last byte is used too.
strncpy_less_All(t) == strncpy_all(t)

\* strncpy with the size less one, into a zeroed structure.
strncpy_less(t) == IF t = "full" THEN "cut" ELSE t

\* The text of a key in a zeroed structure.
TextOf(d, key) == IF key \in DOMAIN d THEN strncpy_all(d[key]) ELSE ""

\* decode_disp_m31_command_response and decode_disp_m32_command_response.
decode_ret_messages(d) ==
    IF "retMessages" \in DOMAIN d
      THEN {[i \in DOMAIN d["retMessages"] |-> TextOf(d["retMessages"][i], "msgId")]} ELSE {}

\* decode_disp_m40_command_response and decode_disp_m41_command_response: the
\* handlers' structure is not initialised, so a key that is missing leaves
\* whatever the stack holds.
decode_msg_id(d) ==
    IF "msgId" \in DOMAIN d THEN {strncpy_all(d["msgId"])} ELSE {"", "leftover"}

\* decode_disp_s30_status_response, with strdup.
decode_disp_s30(d) == IF "msgIdList" \in DOMAIN d THEN {d["msgIdList"]} ELSE {}

\* decode_disp_s40_status_response.
decode_disp_s40(d) ==
    IF "displayPoolList" \in DOMAIN d
      THEN {[i \in DOMAIN d["displayPoolList"] |->
               LET e == d["displayPoolList"][i]
               IN  [msgId |-> TextOf(e, "msgId"), body |-> IF "body" \in DOMAIN e THEN e["body"] ELSE "zero"]]}
      ELSE {}

\* decode_disp_s10_status_response: size and groups stay zero.
decode_disp_s10(d) ==
    {[displayType |-> IF "displayType" \in DOMAIN d THEN strncpy_less(d["displayType"]) ELSE "",
      limits |-> IF "limits" \in DOMAIN d THEN d["limits"] ELSE "zero",
      size |-> "zero", groups |-> "zero"]}

\* decode_disp_s20_status_response: the number of colours is the value of a key of its own.
decode_disp_s20(d) ==
    IF "templates" \in DOMAIN d
      THEN {[i \in DOMAIN d["templates"] |->
               LET t == d["templates"][i]
               IN  [templateId |-> IF "templateId" \in DOMAIN t THEN strncpy_less(t["templateId"]) ELSE "",
                    readonly |-> IF "readonly" \in DOMAIN t THEN t["readonly"] ELSE FALSE,
                    zones |-> IF "zones" \in DOMAIN t
                                THEN [j \in DOMAIN t["zones"] |->
                                        LET z == t["zones"][j]
                                        IN  [zoneId |-> IF "zoneId" \in DOMAIN z THEN strncpy_less(z["zoneId"]) ELSE "",
                                             colors |-> IF "colorCount" \in DOMAIN z THEN z["colorCount"] ELSE 0,
                                             options |-> "zero"]]
                                ELSE <<>>]]}
      ELSE {}

Decoded(kind, d) ==
    CASE kind \in {"M31", "M32"} -> decode_ret_messages(d)
      [] kind \in {"M40", "M41"} -> decode_msg_id(d)
      [] kind = "S30" -> decode_disp_s30(d)
      [] kind = "S40" -> decode_disp_s40(d)
      [] kind = "S10" -> decode_disp_s10(d)
      [] kind = "S20" -> decode_disp_s20(d)

-----------------------------------------------------------------------------
(* Handlers.  A handler's outcome: return value, response, and whether it  *)
(* comes back at all.                                                      *)

Untouched == [v |-> "", age |-> "unset"]
Returns(code, r) == [ret |-> code, response |-> r, up |-> TRUE]
Fails == [ret |-> "none", response |-> Untouched, up |-> FALSE]
Error == Returns("generic", Untouched)
Ack == [v |-> "ACK", age |-> "unset"]

\* handle_disp_m31: the first entry is read though there may be none; once "ACK" is
\* in the response, rsmp_array_char_set gives the array back, taken for an error.
handle_disp_m31(p) ==
    IF p = <<>> THEN {Error, Returns("generic", Ack)}
    ELSE IF p[1] = "" THEN {Error} ELSE {Returns("generic", Ack)}

\* handle_disp_m32: the decoded entries are read as pointers to texts.
handle_disp_m32(p) == IF p = <<>> THEN {Error} ELSE IF p[1] = "" THEN {Error} ELSE {Fails}

\* Mutant: the identifier is not looked at.
handle_disp_m40_AnyId(p) == {Returns("no_error", [v |-> "ACK", age |-> "no"])}

\* handle_disp_m40.
handle_disp_m40(p) == IF p = "" THEN {Error} ELSE {Returns("no_error", [v |-> "ACK", age |-> "no"])}

\* handle_disp_m41: as m31.
handle_disp_m41(p) == IF p = "" THEN {Error} ELSE {Returns("generic", Ack)}

\* handle_disp_s10, handle_disp_s20, handle_disp_s40: the response has an age and no value.
Answered == Returns("no_error", [v |-> "", age |-> "no"])
handle_disp_s10(p) == IF p.displayType = "" THEN {Error} ELSE {Answered}
handle_disp_s20(p) == IF p = <<>> THEN {Error} ELSE {Answered}
handle_disp_s40(p) == IF p = <<>> THEN {Error} ELSE {Answered}

\* handle_disp_s30: its errors are returned as no error.  Before the answer,
\* rsmp_array_char_new reads through a pointer that has no value yet.
handle_disp_s30(p) ==
    IF p = <<>> THEN {Returns("no_error", Untouched)}
                ELSE {Returns("no_error", [v |-> "ACK", age |-> "no"]), Fails}

Outcomes(kind, p) ==
    CASE kind = "M31" -> handle_disp_m31(p)
      [] kind = "M32" -> handle_disp_m32(p)
      [] kind = "M40" -> handle_disp_m40(p)
      [] kind = "M41" -> handle_disp_m41(p)
      [] kind = "S10" -> handle_disp_s10(p)
      [] kind = "S20" -> handle_disp_s20(p)
      [] kind = "S30" -> handle_disp_s30(p)
      [] kind = "S40" -> handle_disp_s40(p)

\* The first lines of a handler: an empty request and a decoder that fails.
Refused(kind) == IF kind = "S30" THEN Returns("no_error", Untouched) ELSE Error

-----------------------------------------------------------------------------

Init ==
    /\ call = [kind |-> "none"] /\ doc = <<>> /\ step = "idle" /\ parsed = "none"
    /\ ret = "none" /\ response = Untouched /\ up = TRUE

\* A site that runs this code encodes a structure.
Encode ==
    /\ step = "idle"
    /\ \E kind \in Kind :
         \E s \in Structures(kind) :
            /\ kind = "M32" => s # <<>>
            /\ call' = [kind |-> kind, structure |-> s]
            /\ doc' = Encoded(kind, s)
    /\ step' = "given"
    /\ UNCHANGED <<parsed, ret, response, up>>

\* A document of another implementation: the keys are there or not, and its texts
\* have any length.
Partial(key, values) == {<<>>} \union {Wrapper(key, v) : v \in values}
Foreign(kind) ==
    CASE kind \in {"M31", "M32"} -> Partial("retMessages", Lists(Partial("msgId", Text)))
      [] kind \in {"M40", "M41"} -> Partial("msgId", Text)
      [] kind = "S30" -> Partial("msgIdList", Lists(Text))
      [] kind = "S40" -> Partial("displayPoolList", Lists(Partial("msgId", Text)))
      [] kind = "S10" -> Partial("displayType", Text)
      [] kind = "S20" -> Partial("templates", Lists(Partial("templateId", Text)))
OtherSends ==
    /\ step = "idle"
    /\ \E kind \in Kind : \E d \in Foreign(kind) : call' = [kind |-> kind] /\ doc' = d
    /\ step' = "given"
    /\ UNCHANGED <<parsed, ret, response, up>>

Done(o) == ret' = o.ret /\ response' = o.response /\ up' = o.up

\* The handler of the kind is called with the document.
Handle ==
    /\ step = "given"
    /\ step' = "returned"
    /\ \/ Decoded(call.kind, doc) = {} /\ Done(Refused(call.kind)) /\ UNCHANGED parsed
       \/ \E p \in Decoded(call.kind, doc) :
            parsed' = p /\ \E o \in Outcomes(call.kind, p) : Done(o)
    /\ UNCHANGED <<call, doc>>

\* The SXL layer has taken the outcome, with a new response for the next call.
Taken ==
    /\ step = "returned" /\ up
    /\ call' = [kind |-> "none"] /\ doc' = <<>> /\ step' = "idle" /\ parsed' = "none"
    /\ ret' = "none" /\ response' = Untouched
    /\ UNCHANGED up

Next == Encode \/ OtherSends \/ Handle \/ Taken

Spec == Init /\ [][Next]_vars

-----------------------------------------------------------------------------
(* Properties.                                                             *)

Own == step = "returned" /\ "structure" \in DOMAIN call
Read == step = "returned" /\ Decoded(call.kind, doc) # {}

\* Types; a status is decoded into structures that were zeroed first.
TypeOK ==
    /\ step \in {"idle", "given", "returned"}
    /\ ret \in {"none", "generic", "no_error"}
    /\ response \in [v : {"", "ACK"}, age : {"unset", "no"}]
    /\ up \in BOOLEAN
    /\ Read /\ call.kind = "S10" => {parsed.limits, parsed.size, parsed.groups} \subseteq Body \union {"zero"}

\* What a status decoder reads is what the encoder of the other site wrote: the lists
\* keep their length and order, the identifiers and the limits are the same.
StatusAsRead ==
    Own =>
      /\ call.kind \in {"S30", "S40"} => parsed = call.structure
      /\ call.kind = "S10" => /\ parsed.displayType = call.structure.displayType
                             /\ parsed.limits = call.structure.limits
      /\ call.kind = "S20" =>
           /\ Len(parsed) = Len(call.structure)
           /\ \A i \in DOMAIN parsed :
                LET p == parsed[i]
                    t == call.structure[i]
                IN  /\ p.templateId = t.templateId /\ p.readonly = t.readonly
                    /\ [j \in DOMAIN p.zones |-> p.zones[j].zoneId] = [j \in DOMAIN t.zones |-> t.zones[j].zoneId]

\* Whatever the length of the texts received, those of S10 and S20 end inside their
\* array (disp_json_generic.c:506, 528, 643); those of the commands and of S40 need not.
StatusTextsEnd ==
    Read =>
      /\ call.kind = "S10" => parsed.displayType # "unterminated"
      /\ call.kind = "S20" => \A i \in DOMAIN parsed : parsed[i].templateId # "unterminated"

\* "ACK" is only put in the response to a command that names a message, but for two
\* reads of memory that was not written: an M31 with an empty list, and an M40 or an
\* M41 without the key.
AckNamesMessage ==
    step = "returned" /\ call.kind \in Commands /\ response.v = "ACK" =>
      IF call.kind \in {"M31", "M32"} THEN parsed = <<>> \/ parsed[1] # ""
                                      ELSE "msgId" \in DOMAIN doc => doc["msgId"] # ""

\* What the documents of a sign promise: a status is read as it was written and ends
\* inside its arrays, a command is acknowledged for the message it names.
SignIsFaithful == TypeOK /\ StatusAsRead /\ StatusTextsEnd /\ AckNamesMessage

\* "Ce handler traite la reception d'un message ... et prepare une reponse standardisee"
\* (disp_m31_handler.c:65): the request that this code encodes is accepted by the
\* handler of this code, which returns 0 on success.
OwnRequestAccepted == Own /\ call.kind \in Commands /\ call.structure # <<>> => ret = "no_error"

\* "msgId vide ou invalide" (disp_m40_handler.c:68): a command without an identifier is refused.
MissingIdRefused ==
    step = "returned" /\ call.kind \in {"M40", "M41"} /\ "msgId" \notin DOMAIN doc
      => ret = "generic" /\ response = Untouched

\* "encoder et decoder des messages RSMP" (display/README.md:5): what a site encodes as
\* its status is what the other site decodes, the number of colours included ("Lire le
\* nombre de couleurs supportees", disp_json_generic.c:537).
StatusIsWhole == Own /\ call.kind \in Statuses => parsed = call.structure
=============================================================================
