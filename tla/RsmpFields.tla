------------------------------ MODULE RsmpFields ------------------------------
(***************************************************************************)
(* The fields of RSMP messages (rsmp/fields, rsmp/vars, rsmp/coder/vars.h).*)
(*                                                                         *)
(* A field of a C structure is written to and read from a typed variable   *)
(* (rsmp_var_t), which json.c turns into JSON and back.  Every field is    *)
(* bound to the encoder and the decoder of its type by the macro           *)
(* rsmp_field_desc; here a field is a descriptor with its type.            *)
(*                                                                         *)
(* Texts are opaque values.  A decoder takes the variable, the value the   *)
(* field has before, and junk: the time that mktime makes of the           *)
(* uninitialised struct tm when a text is no date.                         *)
(***************************************************************************)
EXTENDS Naturals, Sequences

\* A NULL char pointer, a cleared uuid, and the time of a zeroed HoroDate.
Null        == "(null)"
ClearedUuid == "00000000-0000"
Epoch       == "1970-01-01"

\* The texts that uuid_parse accepts and the dates that strptime reads.
Uuids == {ClearedUuid, "uuid-a", "uuid-b"}
Dates == {Epoch, "date-a", "date-b"}

Range0(n) == 0 .. (n - 1)

-------------------------------------------------------------------------------
(***************************************************************************)
(* Typed variables.                                                        *)
(***************************************************************************)
VarTypes == {"bool", "string", "int", "uint", "double", "null"}

\* A text, possibly NULL, which is a string of length 0.
rsmp_var_auto_string(in) == [type |-> "string", data |-> in]

rsmp_var_auto_bool(in) == [type |-> "bool", data |-> in]

rsmp_var_new == [type |-> "null", data |-> Null]

IsString(var) == var.type = "string"

Done(value)  == [ret |-> 0, value |-> value]
Fails(value) == [ret |-> 1, value |-> value]

-------------------------------------------------------------------------------
(***************************************************************************)
(* Encoders and decoders of the types.                                     *)
(***************************************************************************)
str_encode(field) == rsmp_var_auto_string(field)

str_decode(var, field) ==
    IF IsString(var) THEN Done(var.data) ELSE Fails(field)

uuid_encode(field) == rsmp_var_auto_string(field)

\* Anything but a string leaves the identifier as it was, without an error.
uuid_decode(var, field) ==
    CASE ~IsString(var)                      -> Done(field)
      [] IsString(var) /\ var.data \in {Null, ""} -> Done(ClearedUuid)
      [] IsString(var) /\ var.data \in Uuids -> Done(var.data)
      [] OTHER                               -> Fails(field)

ts_encode(field) == rsmp_var_auto_string(field)

\* strptime's result is not looked at.
str2ZuluHorodate(str, junk) == IF str \in Dates THEN str ELSE junk

rsmp_ts_from_string(str, junk) ==
    LET ts == str2ZuluHorodate(str, junk)
    IN  IF ts # Epoch THEN Done(ts) ELSE Fails(ts)

ts_decode(var, field, junk) ==
    IF IsString(var) THEN rsmp_ts_from_string(var.data, junk) ELSE Fails(field)

bool_encode(field) == rsmp_var_auto_bool(field)

bool_decode(var, field) ==
    IF var.type = "bool" THEN Done(var.data) ELSE Fails(field)

\* An array of char: what is not a string is ignored.
v_encode(field) == rsmp_var_auto_string(field)

v_decode(var, field) ==
    IF IsString(var) THEN Done(var.data) ELSE Done(field)

mType_value == "rSMsg"

mType_encode(field) == rsmp_var_auto_string(mType_value)

mType_decode(var, field) ==
    IF IsString(var) /\ var.data # mType_value THEN Fails(field) ELSE Done(field)

\* Mutant: the search starts at the second name.
rsmp_lib_find_SkipsFirst(lib, str) ==
    LET found == {i \in DOMAIN lib : i > 1 /\ lib[i] = str}
    IN  IF found # {} THEN (CHOOSE i \in found : \A j \in found : i <= j) - 1
        ELSE Len(lib)

\* The index of the name in the table, its size when there is none.
rsmp_lib_find(lib, str) ==
    LET found == {i \in DOMAIN lib : lib[i] = str}
    IN  IF found # {} THEN (CHOOSE i \in found : \A j \in found : i <= j) - 1
        ELSE Len(lib)

\* An index past the table gives a NULL text.
lib_get(lib, i) == IF i < Len(lib) THEN lib[i + 1] ELSE Null

enum_encode(lib, field) == rsmp_var_auto_string(lib_get(lib, field))

\* Mutant: an unknown name is no error.
enum_decode_TakesAny(lib, strict, var, field) ==
    IF IsString(var)
    THEN LET i == rsmp_lib_find(lib, var.data)
         IN  IF i < Len(lib) THEN Done(i) ELSE Done(field)
    ELSE IF strict THEN Fails(field) ELSE Done(field)

\* Some enumerations refuse what is not a string, the others ignore it.
enum_decode(lib, strict, var, field) ==
    IF IsString(var)
    THEN LET i == rsmp_lib_find(lib, var.data)
         IN  IF i < Len(lib) THEN Done(i) ELSE Fails(field)
    ELSE IF strict THEN Fails(field) ELSE Done(field)

-------------------------------------------------------------------------------
(***************************************************************************)
(* Descriptors.                                                            *)
(***************************************************************************)
Desc(lib, mark, kind, names, strict, array) ==
    [lib |-> lib, mark |-> mark, kind |-> kind, names |-> names,
     strict |-> strict, array |-> array]

rsmp_field_desc(lib, kind) == Desc(lib, "field", kind, <<>>, TRUE, <<>>)

EnumField(lib, names)       == Desc(lib, "field", "enum", names, FALSE, <<>>)
StrictEnumField(lib, names) == Desc(lib, "field", "enum", names, TRUE, <<>>)

rsmp_field_desc_table(lib, kind) == Desc(lib, "table", kind, <<>>, TRUE, <<>>)

rsmp_field_desc_array(lib, array) == Desc(lib, "array", "object", <<>>, TRUE, array)

\* The value of a field of a structure that calloc returned.
Zero(desc) ==
    IF desc.mark # "field" THEN <<>>
    ELSE CASE desc.kind = "enum"             -> 0
           [] desc.kind = "bool"             -> FALSE
           [] desc.kind = "uuid"             -> ClearedUuid
           [] desc.kind = "ts"               -> Epoch
           [] desc.kind = "v"                -> ""
           [] desc.kind \in {"str", "mType"} -> Null

Encode(desc, field) ==
    CASE desc.kind = "str"   -> str_encode(field)
      [] desc.kind = "uuid"  -> uuid_encode(field)
      [] desc.kind = "ts"    -> ts_encode(field)
      [] desc.kind = "bool"  -> bool_encode(field)
      [] desc.kind = "v"     -> v_encode(field)
      [] desc.kind = "mType" -> mType_encode(field)
      [] desc.kind = "enum"  -> enum_encode(desc.names, field)

Decode(desc, var, field, junk) ==
    CASE desc.kind = "str"   -> str_decode(var, field)
      [] desc.kind = "uuid"  -> uuid_decode(var, field)
      [] desc.kind = "ts"    -> ts_decode(var, field, junk)
      [] desc.kind = "bool"  -> bool_decode(var, field)
      [] desc.kind = "v"     -> v_decode(var, field)
      [] desc.kind = "mType" -> mType_decode(var, field)
      [] desc.kind = "enum"  -> enum_decode(desc.names, desc.strict, var, field)

-------------------------------------------------------------------------------
(***************************************************************************)
(* The names of the enumerations, in the order of their values.            *)
(***************************************************************************)
rsmp_aS_lib  == <<"inActive", "Active">>
rsmp_ack_lib == <<"notAcknowledged", "Acknowledged">>
rsmp_sS_lib  == <<"Suspended", "notSuspended">>
rsmp_cat_lib == <<"T", "D">>
rsmp_q_lib   == <<"unknown", "recent", "old", "undefined">>
rsmp_age_lib == <<"unknown", "recent", "old", "undefined">>
rsmp_aSp_lib == <<"Issue", "Request", "Acknowledge", "Suspend", "Resume">>
rsmp_pri_lib == <<"1", "2", "3">>
rsmp_sg_lib  == <<"GEN", "SLT", "IO", "VAR">>
rsmp_type_lib ==
    <<"Alarm", "AggregatedStatus", "AggregatedStatusRequest", "StatusRequest",
      "StatusResponse", "StatusSubscribe", "StatusUpdate", "StatusUnsubscribe",
      "CommandRequest", "CommandRequestAckIncluded", "CommandResponseAckIncluded",
      "StatusResponseAckIncluded", "StatusRequestAckIncluded", "CommandResponse",
      "MessageAck", "MessageNotAck", "Version", "Watchdog">>

(***************************************************************************)
(* The fields: first the enumerations, then texts, identifiers, dates and  *)
(* booleans.                                                               *)
(***************************************************************************)
rsmp_aS    == EnumField("aS", rsmp_aS_lib)
rsmp_ack   == EnumField("ack", rsmp_ack_lib)
rsmp_sS    == EnumField("sS", rsmp_sS_lib)
rsmp_cat   == EnumField("cat", rsmp_cat_lib)
rsmp_q     == EnumField("q", rsmp_q_lib)
rsmp_type  == EnumField("type", rsmp_type_lib)
rsmp_age   == StrictEnumField("age", rsmp_age_lib)
rsmp_aSp   == StrictEnumField("aSp", rsmp_aSp_lib)
rsmp_pri   == StrictEnumField("pri", rsmp_pri_lib)
rsmp_mType == rsmp_field_desc("mType", "mType")
rsmp_v     == rsmp_field_desc("v", "v")

rsmp_SXL    == rsmp_field_desc("SXL", "str")
rsmp_aCId   == rsmp_field_desc("aCId", "str")
rsmp_cCI    == rsmp_field_desc("cCI", "str")
rsmp_cId    == rsmp_field_desc("cId", "str")
rsmp_cO     == rsmp_field_desc("cO", "str")
rsmp_fP     == rsmp_field_desc("fP", "str")
rsmp_fS     == rsmp_field_desc("fS", "str")
rsmp_n      == rsmp_field_desc("n", "str")
rsmp_ntsOId == rsmp_field_desc("ntsOId", "str")
rsmp_rea    == rsmp_field_desc("rea", "str")
rsmp_s      == rsmp_field_desc("s", "str")
rsmp_sCI    == rsmp_field_desc("sCI", "str")
rsmp_sId    == rsmp_field_desc("sId", "str")
rsmp_uRt    == rsmp_field_desc("uRt", "str")
rsmp_vers   == rsmp_field_desc("vers", "str")
rsmp_xACId  == rsmp_field_desc("xACId", "str")
rsmp_xNACId == rsmp_field_desc("xNACId", "str")
rsmp_xNId   == rsmp_field_desc("xNId", "str")

rsmp_mId  == rsmp_field_desc("mId", "uuid")
rsmp_oMId == rsmp_field_desc("oMId", "uuid")

rsmp_aSTS == rsmp_field_desc("aSTS", "ts")
rsmp_aTs  == rsmp_field_desc("aTs", "ts")
rsmp_cTS  == rsmp_field_desc("cTS", "ts")
rsmp_sTs  == rsmp_field_desc("sTs", "ts")
rsmp_wTs  == rsmp_field_desc("wTs", "ts")

rsmp_sOc == rsmp_field_desc("sOc", "bool")
rsmp_se  == rsmp_field_desc_table("se", "bool")
===============================================================================
