------------------------------ MODULE RsmpContext ------------------------------
(***************************************************************************)
(* The identity of the site in RSMP messages (rsmp/env/rsmp-context.c):    *)
(* the options of the command line (--rsmp label:value,...) fill the       *)
(* global context one after the other, rsmp_context_initialize completes   *)
(* it with defaults, and every constructor copies it into its message.     *)
(***************************************************************************)
EXTENDS RsmpFields

CONSTANTS Labels,        \* labels of options
          Values,        \* values of options
          MaxOptions     \* options on the command line

ASSUME OptionsAssumption == MaxOptions \in Nat

VARIABLES options,       \* the options of the command line
          next,          \* index of the option to decode
          ctx,           \* _rsmp_context_default, NoContext before its first use
          sId_set,       \* an sId has been seen by rsmp_context_from_str
          ret,           \* result of rsmp_context_from_str
          stage,         \* parsing, started, running, or dead
          version        \* the last Version message, or NoContext

line == <<options, next, ctx, sId_set, ret, stage, version>>

NoContext == [none |-> TRUE]

\* An option is a label with a value, or a word without separator.
NoSeparator == [label |-> Null, value |-> Null]
Option == [label : Labels, value : Values] \cup {NoSeparator}

-------------------------------------------------------------------------------
(***************************************************************************)
(* The table of the names of fields.  The enumeration has entries that the *)
(* table leaves out, whose name is NULL.                                   *)
(***************************************************************************)
rsmp_fields ==
    <<"aCId", "ack", "age", "arg", "aS", "aSp", "aSTS", "aTs", "cat", "cCI", "cId",
      "cO", "cTS", "fP", "fS", "mId", "mType", "n", "ntsOId", "oMId", "pri", "q",
      "rea", "RSMP", "rvs", "s", "sCI", "se", "sId", "siteId", "sOc", "sS", "sTs",
      "SXL", "eSXLG", "sg", "type", "uRt", "v", "vers", "wTs", "xACId", "xNACId",
      "xNId", "uId", "data", "login", "cipher", "ackMessage">>

rsmp_fields_tab ==
    [i \in DOMAIN rsmp_fields |->
        IF rsmp_fields[i] \in {"eSXLG", "sg", "ackMessage"} THEN Null
        ELSE rsmp_fields[i]]

\* The names that the search compares before the one it looks for; comparing
\* with a NULL name ends the process.
rsmp_field_from_lib(lib) ==
    LET hits  == {i \in DOMAIN rsmp_fields_tab : rsmp_fields_tab[i] = lib}
        nulls == {i \in DOMAIN rsmp_fields_tab : rsmp_fields_tab[i] = Null}
    IN  IF \E i \in hits : \A k \in nulls : i < k THEN lib ELSE "crash"

-------------------------------------------------------------------------------
(***************************************************************************)
(* Operations on the context.                                              *)
(***************************************************************************)
SXL_DEFAULT == ""
NTSOID_DEFAULT == "AA+BBCCC=DDDEEFFF"

\* Created at its first use.
rsmp_context_get_global ==
    IF ctx # NoContext THEN ctx
    ELSE [RSMP |-> <<>>, siteId |-> <<>>, eSXLG |-> <<>>, SXL |-> SXL_DEFAULT,
          ntsOId |-> NTSOID_DEFAULT, cId |-> NTSOID_DEFAULT, xNId |-> Null, sId |-> Null]

rsmp_context_RSMP_add(item, value)   == [item EXCEPT !.RSMP = Append(@, value)]
rsmp_context_siteId_add(item, value) == [item EXCEPT !.siteId = Append(@, value)]
rsmp_context_eSXLG_add(item, sg, vers) ==
    [item EXCEPT !.eSXLG = Append(@, [sg |-> sg, vers |-> vers])]
rsmp_context_SXL_set(item, value)    == [item EXCEPT !.SXL = value]
rsmp_context_sId_set(item, value)    == [item EXCEPT !.sId = value]
rsmp_context_ntsOId_set(item, value) == [item EXCEPT !.ntsOId = value]
rsmp_context_cId_set(item, value)    == [item EXCEPT !.cId = value]
rsmp_context_xNId_set(item, value)   == [item EXCEPT !.xNId = value]

\* Mutant: every sId of the list replaces the site's own.
Apply_LastSId(item, field, value, seen) ==
    CASE field = "sId" -> rsmp_context_sId_set(rsmp_context_siteId_add(item, value), value)
      [] field = "cId" -> rsmp_context_cId_set(item, value)
      [] OTHER         -> item

\* The effect of an option that is known.
Apply(item, field, value, seen) ==
    CASE field = "vers"   -> rsmp_context_RSMP_add(item, value)
      [] field = "sId"    ->
            LET added == rsmp_context_siteId_add(item, value)
            IN  IF seen THEN added ELSE rsmp_context_sId_set(added, value)
      [] field = "xNId"   -> rsmp_context_xNId_set(item, value)
      [] field = "SXL"    -> rsmp_context_SXL_set(item, value)
      [] field = "ntsOId" -> rsmp_context_ntsOId_set(item, value)
      [] field = "cId"    -> rsmp_context_cId_set(item, value)

Settable == {"vers", "sId", "xNId", "SXL", "ntsOId", "cId"}

OptionsInit ==
    /\ options \in UNION {[1 .. n -> Option] : n \in 0 .. MaxOptions}
    /\ next = 1 /\ ctx = NoContext /\ sId_set = FALSE /\ ret = 0
    /\ stage = "parsing" /\ version = NoContext

\* Mutant: the loop goes on after an error.
MoreOptions_IgnoresError == stage = "parsing" /\ next <= Len(options)

\* The condition of the loop of rsmp_context_from_str.
MoreOptions == stage = "parsing" /\ next <= Len(options) /\ ret = 0

\* One option with a label.
TakeOption ==
    /\ MoreOptions /\ options[next] # NoSeparator
    /\ LET o     == options[next]
           field == rsmp_field_from_lib(o.label)
       IN  \/ /\ field \in Settable
              /\ ctx' = Apply(rsmp_context_get_global, field, o.value, sId_set)
              /\ sId_set' = (sId_set \/ field = "sId")
              /\ UNCHANGED <<ret, stage>>
           \/ /\ field = "crash"
              /\ stage' = "dead"
              /\ UNCHANGED <<ctx, sId_set, ret>>
           \/ /\ field \notin Settable \cup {"crash"}
              /\ ret' = 1
              /\ ctx' = rsmp_context_get_global
              /\ UNCHANGED <<sId_set, stage>>
    /\ next' = next + 1
    /\ UNCHANGED <<options, version>>

\* One without separator.
SyntaxError ==
    /\ MoreOptions /\ options[next] = NoSeparator
    /\ ret' = 1
    /\ ctx' = rsmp_context_get_global
    /\ next' = next + 1
    /\ UNCHANGED <<options, sId_set, stage, version>>

\* The caller does not look at the result.
ParsingDone ==
    /\ stage = "parsing" /\ (next > Len(options) \/ ret # 0)
    /\ stage' = "started"
    /\ UNCHANGED <<options, next, ctx, sId_set, ret, version>>

eSXLG_default == <<[sg |-> "GEN", vers |-> "1.0.0"], [sg |-> "SLT", vers |-> "0.5.2"]>>

\* Mutant: no default for the version of the protocol.
Completed_SitesOnly(item) ==
    [item EXCEPT !.siteId = IF @ = <<>> THEN <<"CLIENT_SVMS">> ELSE @]

\* Defaults for what the options left empty.
Completed(item) ==
    [item EXCEPT !.RSMP   = IF @ = <<>> THEN <<"3.2.1">> ELSE @,
                 !.siteId = IF @ = <<>> THEN <<"CLIENT_SVMS">> ELSE @,
                 !.eSXLG  = IF @ = <<>> THEN eSXLG_default ELSE @]

\* rsmp_context_global_log, which initialises first.
rsmp_context_initialize ==
    /\ stage = "started"
    /\ ctx' = Completed(rsmp_context_get_global)
    /\ stage' = "running"
    /\ UNCHANGED <<options, next, sId_set, ret, version>>

\* A Version message is built for a new session: rsmp_context_set.
NewVersion ==
    /\ stage = "running"
    /\ version' = [RSMP |-> ctx.RSMP, siteId |-> ctx.siteId, SXL |-> ctx.SXL]
    /\ UNCHANGED <<options, next, ctx, sId_set, ret, stage>>

OptionsNext == TakeOption \/ SyntaxError \/ ParsingDone \/ rsmp_context_initialize \/ NewVersion

OptionsSpec == OptionsInit /\ [][OptionsNext]_line

-------------------------------------------------------------------------------
(***************************************************************************)
(* Properties.                                                             *)
(***************************************************************************)
SiteContext ==
    [RSMP : Seq(Values \union {"3.2.1"}), siteId : Seq(Values \union {"CLIENT_SVMS"}),
     eSXLG : {<<>>, eSXLG_default}, SXL : Values \union {SXL_DEFAULT},
     ntsOId : Values \union {NTSOID_DEFAULT}, cId : Values \union {NTSOID_DEFAULT},
     xNId : Values \union {Null}, sId : Values \union {Null}]

OptionsTypeOK ==
    /\ options \in Seq(Option) /\ Len(options) <= MaxOptions
    /\ next \in 1 .. Len(options) + 1
    /\ sId_set \in BOOLEAN /\ ret \in {0, 1}
    /\ stage \in {"parsing", "started", "running", "dead"}
    /\ ctx \in SiteContext \union {NoContext}

\* The options of a label, up to the first option that is refused.
Good(i) == \A k \in 1 .. i : options[k].label \in Settable
Given(label) == {i \in DOMAIN options : options[i].label = label /\ Good(i)}

\* A list has the values of some options, in the order of the command line.
Lists(list, chosen) ==
    \E at \in [DOMAIN list -> chosen] :
        /\ chosen = {at[k] : k \in DOMAIN list}
        /\ \A j, k \in DOMAIN list : j < k => at[j] < at[k]
        /\ \A k \in DOMAIN list : list[k] = options[at[k]].value

AsGiven(list, label, default) ==
    IF Given(label) = {} THEN list = <<default>> ELSE Lists(list, Given(label))

\* Once the process runs, the sites it announces are the ones of its options up
\* to the first one refused, in their order, or the default alone: an error
\* neither takes back what came before it nor lets later options in
\* (rsmp_context_from_str, rsmp_context_initialize).
SitesAsGiven == stage = "running" => AsGiven(ctx.siteId, "sId", "CLIENT_SVMS")

\* The site's own identifier is the first site it announces, whatever the
\* number of sId options (rsmp_context_from_str, sId_set).
OwnSiteIsFirst ==
    stage = "running" => ctx.sId = IF Given("sId") = {} THEN Null ELSE ctx.siteId[1]

\* Every Version message carries the versions chosen on the command line, without
\* the default among them, and the sites (rsmp_context_set, rsmp_context_initialize).
VersionIsComplete ==
    version # NoContext =>
        /\ AsGiven(version.RSMP, "vers", "3.2.1")
        /\ AsGiven(version.siteId, "sId", "CLIENT_SVMS")

\* What the options promise: the site announces itself as it was told to, however
\* they are repeated, ordered or refused (rsmp_context_from_str).
IdentityAsGiven == OptionsTypeOK /\ SitesAsGiven /\ OwnSiteIsFirst /\ VersionIsComplete

\* An option is applied or refused with an error: "field: %s, unknown in rsmp
\* context".  Decoding one never ends the process (_rsmp_field_from_lib).
OptionsAreDecoded == stage # "dead"
===============================================================================
