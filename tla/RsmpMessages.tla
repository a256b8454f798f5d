----------------------------- MODULE RsmpMessages -----------------------------
(***************************************************************************)
(* The messages of RSMP (rsmp/messages): for each type the table of its    *)
(* fields, its constructor and what its destructor releases.               *)
(*                                                                         *)
(* A message is a function from the names of its fields to their values;   *)
(* an array of structures is a sequence of such functions.                 *)
(***************************************************************************)
EXTENDS RsmpFields

Libs(desc) == {desc[i].lib : i \in DOMAIN desc}

\* rsmp_message_desc_find_field_by_type
find_field(desc, lib) == desc[CHOOSE i \in DOMAIN desc : desc[i].lib = lib]

-------------------------------------------------------------------------------
(***************************************************************************)
(* Tables of fields.                                                       *)
(***************************************************************************)
RSMP_desc   == <<rsmp_vers>>
siteId_desc == <<rsmp_sId>>

Header == <<rsmp_mType, rsmp_type, rsmp_mId>>
Target == <<rsmp_ntsOId, rsmp_xNId, rsmp_cId>>

Version_desc ==
    Header \o <<rsmp_field_desc_array("RSMP", RSMP_desc),
                rsmp_field_desc_array("siteId", siteId_desc), rsmp_SXL>>

Watchdog_desc == Header \o <<rsmp_wTs>>

MessageAck_desc == <<rsmp_mType, rsmp_type, rsmp_oMId>>

MessageNotAck_desc == <<rsmp_mType, rsmp_type, rsmp_oMId, rsmp_rea>>

CommandRequest_arg_desc == <<rsmp_cCI, rsmp_n, rsmp_cO, rsmp_v>>

CommandRequest_desc ==
    Header \o Target \o <<rsmp_field_desc_array("arg", CommandRequest_arg_desc)>>

CommandResponse_rvs_desc == <<rsmp_cCI, rsmp_n, rsmp_v, rsmp_age>>

CommandResponse_desc ==
    Header \o Target
    \o <<rsmp_cTS, rsmp_field_desc_array("rvs", CommandResponse_rvs_desc)>>

StatusRequest_desc ==
    Header \o Target \o <<rsmp_field_desc_array("sS", <<rsmp_sCI, rsmp_n>>)>>

StatusResponse_desc ==
    Header \o Target
    \o <<rsmp_sTs,
         rsmp_field_desc_array("sS", <<rsmp_sCI, rsmp_n, rsmp_s, rsmp_q>>)>>

StatusSubscribe_desc ==
    Header \o Target
    \o <<rsmp_field_desc_array("sS", <<rsmp_sCI, rsmp_n, rsmp_uRt, rsmp_sOc>>)>>

StatusUpdate_desc ==
    Header \o Target
    \o <<rsmp_sTs,
         rsmp_field_desc_array("sS", <<rsmp_sCI, rsmp_n, rsmp_s, rsmp_q>>)>>

StatusUnsubscribe_desc ==
    Header \o Target \o <<rsmp_field_desc_array("sS", <<rsmp_sCI, rsmp_n>>)>>

AggregatedStatusRequest_desc == Header \o Target

AggregatedStatus_desc ==
    Header \o Target \o <<rsmp_aSTS, rsmp_fP, rsmp_fS, rsmp_se>>

Alarm_desc ==
    Header \o Target
    \o <<rsmp_aCId, rsmp_xACId, rsmp_xNACId, rsmp_aSp, rsmp_ack, rsmp_aS, rsmp_sS,
         rsmp_aTs, rsmp_cat, rsmp_pri,
         rsmp_field_desc_array("rvs", <<rsmp_n, rsmp_v>>)>>

\* The types of the table __rsmp_msg_desc that have an entry.
rsmp_msg_desc ==
    [Alarm |-> Alarm_desc, AggregatedStatus |-> AggregatedStatus_desc,
     AggregatedStatusRequest |-> AggregatedStatusRequest_desc,
     StatusRequest |-> StatusRequest_desc, StatusResponse |-> StatusResponse_desc,
     StatusSubscribe |-> StatusSubscribe_desc, StatusUpdate |-> StatusUpdate_desc,
     StatusUnsubscribe |-> StatusUnsubscribe_desc,
     CommandRequest |-> CommandRequest_desc,
     CommandResponse |-> CommandResponse_desc, MessageAck |-> MessageAck_desc,
     MessageNotAck |-> MessageNotAck_desc, Version |-> Version_desc,
     Watchdog |-> Watchdog_desc]

Types == DOMAIN rsmp_msg_desc

-------------------------------------------------------------------------------
(***************************************************************************)
(* Constructors.  id and now are what uuid_generate and the clock give.    *)
(***************************************************************************)
NewItem(desc) == [lib \in Libs(desc) |-> Zero(find_field(desc, lib))]

calloc(type) ==
    [NewItem(rsmp_msg_desc[type]) EXCEPT !["type"] = rsmp_lib_find(rsmp_type_lib, type)]

FromContext == {"xNId", "ntsOId", "cId", "SXL", "RSMP", "siteId"}

\* Mutant: the context is copied whole, whatever the table of the message says.
rsmp_context_set_Whole(msg, context) ==
    [lib \in DOMAIN msg \cup FromContext |->
        IF lib \in FromContext THEN context[lib] ELSE msg[lib]]

\* The values of the process's context are copied into the fields of their name.
rsmp_context_set(msg, context) ==
    [lib \in DOMAIN msg |-> IF lib \in FromContext THEN context[lib] ELSE msg[lib]]

Identified(type, id, context) ==
    rsmp_context_set([calloc(type) EXCEPT !["mId"] = id], context)

Stamped(type, id, context, lib, now) ==
    [Identified(type, id, context) EXCEPT ![lib] = now]

Version_new(id, now, context)         == Identified("Version", id, context)
Watchdog_new(id, now, context)        == Stamped("Watchdog", id, context, "wTs", now)
MessageAck_new(id, now, context)      == calloc("MessageAck")
MessageNotAck_new(id, now, context)   == calloc("MessageNotAck")
CommandRequest_new(id, now, context)  == Identified("CommandRequest", id, context)
CommandResponse_new(id, now, context) ==
    Stamped("CommandResponse", id, context, "cTS", now)
StatusRequest_new(id, now, context)   == Identified("StatusRequest", id, context)
StatusResponse_new(id, now, context)  ==
    Stamped("StatusResponse", id, context, "sTs", now)
StatusSubscribe_new(id, now, context) == Identified("StatusSubscribe", id, context)
StatusUpdate_new(id, now, context)    ==
    Stamped("StatusUpdate", id, context, "sTs", now)
StatusUnsubscribe_new(id, now, context) ==
    Identified("StatusUnsubscribe", id, context)
AggregatedStatusRequest_new(id, now, context) ==
    Identified("AggregatedStatusRequest", id, context)
AggregatedStatus_new(id, now, context) ==
    [Stamped("AggregatedStatus", id, context, "aSTS", now)
        EXCEPT !["se"] = [i \in 1 .. 8 |-> FALSE]]
Alarm_new(id, now, context) == Stamped("Alarm", id, context, "aTs", now)

\* The constructor of the message's entry in the table.
rsmp_message_new(type, id, now, context) ==
    CASE type = "Version"           -> Version_new(id, now, context)
      [] type = "Watchdog"          -> Watchdog_new(id, now, context)
      [] type = "MessageAck"        -> MessageAck_new(id, now, context)
      [] type = "MessageNotAck"     -> MessageNotAck_new(id, now, context)
      [] type = "CommandRequest"    -> CommandRequest_new(id, now, context)
      [] type = "CommandResponse"   -> CommandResponse_new(id, now, context)
      [] type = "StatusRequest"     -> StatusRequest_new(id, now, context)
      [] type = "StatusResponse"    -> StatusResponse_new(id, now, context)
      [] type = "StatusSubscribe"   -> StatusSubscribe_new(id, now, context)
      [] type = "StatusUpdate"      -> StatusUpdate_new(id, now, context)
      [] type = "StatusUnsubscribe" -> StatusUnsubscribe_new(id, now, context)
      [] type = "AggregatedStatusRequest" -> AggregatedStatusRequest_new(id, now, context)
      [] type = "AggregatedStatus"  -> AggregatedStatus_new(id, now, context)
      [] type = "Alarm"             -> Alarm_new(id, now, context)

-------------------------------------------------------------------------------
(***************************************************************************)
(* Destructors: the members they release besides the structure itself.     *)
(***************************************************************************)
TargetFree == {"ntsOId", "xNId", "cId"}

Version_free                 == {"SXL", "RSMP", "siteId"}
Watchdog_free                == {}
MessageAck_free              == {}
MessageNotAck_free           == {"rea"}
CommandRequest_free          == TargetFree \cup {"arg"}
CommandResponse_free         == TargetFree \cup {"rvs"}
StatusRequest_free           == TargetFree \cup {"sS"}
StatusResponse_free          == TargetFree \cup {"sS"}
StatusSubscribe_free         == TargetFree
StatusUpdate_free            == TargetFree
StatusUnsubscribe_free       == TargetFree
AggregatedStatusRequest_free == TargetFree
AggregatedStatus_free        == TargetFree \cup {"fP", "fS", "se"}
\* Mutant: the values of the alarm stay allocated.
Alarm_free_KeepsValues       == TargetFree \cup {"aCId", "xACId", "xNACId"}
Alarm_free                   == TargetFree \cup {"aCId", "xACId", "xNACId", "rvs"}

\* The destructor of the message's entry in the table.
rsmp_message_free ==
    [Alarm |-> Alarm_free, AggregatedStatus |-> AggregatedStatus_free,
     AggregatedStatusRequest |-> AggregatedStatusRequest_free,
     StatusRequest |-> StatusRequest_free, StatusResponse |-> StatusResponse_free,
     StatusSubscribe |-> StatusSubscribe_free, StatusUpdate |-> StatusUpdate_free,
     StatusUnsubscribe |-> StatusUnsubscribe_free,
     CommandRequest |-> CommandRequest_free,
     CommandResponse |-> CommandResponse_free, MessageAck |-> MessageAck_free,
     MessageNotAck |-> MessageNotAck_free, Version |-> Version_free,
     Watchdog |-> Watchdog_free]

\* The members of a message that hold memory of their own.
Owned(type, msg) ==
    LET desc == rsmp_msg_desc[type]
    IN  {lib \in Libs(desc) :
            LET d == find_field(desc, lib)
            IN  IF d.mark = "field" THEN d.kind = "str" /\ msg[lib] # Null
                ELSE msg[lib] # <<>>}

===============================================================================
