----------------------------- MODULE Site_proofs -----------------------------
(***************************************************************************)
(* What a site says of itself, and how it answers: the identity it was     *)
(* given, whatever the options and their order; the answers to requests,   *)
(* for any codes, registered in any order, and any number of messages.     *)
(***************************************************************************)
EXTENDS RsmpContext, Dispatch, FiniteSetTheorems, TLAPS

-----------------------------------------------------------------------------
(* The options.                                                            *)

(* The options of a label decoded so far.                                  *)
Upto(label) == {i \in 1 .. next - 1 : options[i].label = label}

(* A context has the values of the options decoded.                        *)
Reads(item) ==
    /\ Lists(item.siteId, Upto("sId")) /\ Lists(item.RSMP, Upto("vers"))
    /\ item.sId = IF Upto("sId") = {} THEN Null ELSE item.siteId[1]

(* Nothing is decoded behind an option that is refused.                    *)
Stops ==
    /\ ret = 0 => \A k \in 1 .. next - 1 : options[k].label \in Settable
    /\ ret = 1 => /\ next > 1 /\ options[next - 1].label \notin Settable
                  /\ \A k \in 1 .. next - 2 : options[k].label \in Settable

Decoded ==
    stage # "dead" =>
        /\ Stops
        /\ stage # "parsing" => next > Len(options) \/ ret = 1
        /\ stage # "running" => /\ Reads(rsmp_context_get_global)
                                /\ sId_set = (Upto("sId") # {})

Announced ==
    /\ stage = "running" => ctx \in SiteContext /\ AsGiven(ctx.RSMP, "vers", "3.2.1")
    /\ version # NoContext => stage = "running"

OptionsInv == OptionsTypeOK /\ Decoded /\ Announced /\ IdentityAsGiven

LEMMA ListsNone == Lists(<<>>, {})
<1>1. DOMAIN <<>> = {}
  OBVIOUS
<1> DEFINE none == [k \in {} |-> 0]
<1>2. /\ none \in [DOMAIN <<>> -> {}] /\ {} = {none[k] : k \in DOMAIN <<>>}
      /\ \A j, k \in DOMAIN <<>> : j < k => none[j] < none[k]
      /\ \A k \in DOMAIN <<>> : <<>>[k] = options[none[k]].value
  BY <1>1
<1> QED BY <1>2 DEF Lists

LEMMA ListsEmpty ==
  ASSUME NEW list, NEW chosen, Lists(list, chosen) PROVE chosen = {} <=> DOMAIN list = {}
BY DEF Lists

LEMMA ListsMore ==
  ASSUME NEW V, NEW list \in Seq(V), NEW n \in Nat, NEW chosen \in SUBSET (1 .. n - 1),
         Lists(list, chosen), options[n].value \in V
  PROVE  Lists(Append(list, options[n].value), chosen \union {n})
<1>1. PICK at \in [DOMAIN list -> chosen] :
         /\ chosen = {at[k] : k \in DOMAIN list}
         /\ \A j, k \in DOMAIN list : j < k => at[j] < at[k]
         /\ \A k \in DOMAIN list : list[k] = options[at[k]].value
  BY DEF Lists
<1> DEFINE longer == Append(list, options[n].value)
           to == [k \in DOMAIN longer |-> IF k \in DOMAIN list THEN at[k] ELSE n]
<1>2. /\ Len(list) \in Nat /\ DOMAIN list = 1 .. Len(list) /\ DOMAIN longer = 1 .. Len(list) + 1
      /\ longer[Len(list) + 1] = options[n].value
      /\ \A k \in DOMAIN list : longer[k] = list[k]
  OBVIOUS
<1> HIDE DEF longer
<1>3. to \in [DOMAIN longer -> chosen \union {n}]
  BY <1>1
<1>4. /\ \A k \in DOMAIN list : k \in DOMAIN longer /\ to[k] = at[k]
      /\ Len(list) + 1 \in DOMAIN longer /\ to[Len(list) + 1] = n
      /\ \A k \in DOMAIN longer : k \in DOMAIN list \/ k = Len(list) + 1
  BY <1>2
<1> HIDE DEF to
<1>5. chosen \union {n} = {to[k] : k \in DOMAIN longer}
  <2>1. ASSUME NEW i \in chosen PROVE \E k \in DOMAIN longer : i = to[k]
    BY <1>1, <1>4
  <2>2. ASSUME NEW k \in DOMAIN longer PROVE to[k] \in chosen \union {n}
    BY <1>3
  <2> QED BY <1>4, <2>1, <2>2
<1>6. ASSUME NEW j \in DOMAIN longer, NEW k \in DOMAIN longer, j < k PROVE to[j] < to[k]
  <2>1. CASE k \in DOMAIN list
    <3>1. j \in DOMAIN list
      BY <1>2, <1>6, <2>1
    <3> QED BY <1>1, <1>4, <1>6, <2>1, <3>1
  <2>2. CASE k = Len(list) + 1
    <3>1. j \in DOMAIN list
      BY <1>2, <1>6, <2>2
    <3>2. to[j] \in 1 .. n - 1 /\ to[k] = n
      BY <1>1, <1>4, <2>2, <3>1
    <3> QED BY <3>2
  <2> QED BY <1>4, <2>1, <2>2
<1>7. ASSUME NEW k \in DOMAIN longer PROVE longer[k] = options[to[k]].value
  BY <1>1, <1>2, <1>4
<1>8. Lists(longer, chosen \union {n})
  BY <1>3, <1>5, <1>6, <1>7 DEF Lists
<1> QED BY <1>8 DEF longer

LEMMA GlobalTyped ==
  ASSUME OptionsTypeOK PROVE rsmp_context_get_global \in SiteContext
BY DEF OptionsTypeOK, rsmp_context_get_global, SiteContext

(* What an option changes of a context.                                    *)
Changes(result, item, field, value, seen) ==
    /\ result \in SiteContext
    /\ result.siteId = IF field = "sId" THEN Append(item.siteId, value) ELSE item.siteId
    /\ result.RSMP = IF field = "vers" THEN Append(item.RSMP, value) ELSE item.RSMP
    /\ result.sId = IF field = "sId" /\ ~seen THEN value ELSE item.sId

LEMMA Applied ==
  ASSUME NEW item \in SiteContext, NEW field \in Settable, NEW value \in Values, NEW seen \in BOOLEAN
  PROVE  Changes(Apply(item, field, value, seen), item, field, value, seen)
<1> DEFINE result == Apply(item, field, value, seen)
<1>0. item.siteId \in Seq(Values \union {"CLIENT_SVMS"}) /\ item.RSMP \in Seq(Values \union {"3.2.1"})
  BY DEF SiteContext, Changes
<1>1. Append(item.siteId, value) \in Seq(Values \union {"CLIENT_SVMS"})
  BY <1>0
<1>2. Append(item.RSMP, value) \in Seq(Values \union {"3.2.1"})
  BY <1>0
<1>3. CASE field = "vers"
  <2>1. result = [item EXCEPT !.RSMP = Append(@, value)]
    BY <1>3 DEF Apply, rsmp_context_RSMP_add
  <2> HIDE DEF result
  <2> QED BY <1>2, <1>3, <2>1 DEF SiteContext, Changes, result
<1>4. CASE field = "sId" /\ seen
  <2>1. result = [item EXCEPT !.siteId = Append(@, value)]
    BY <1>4 DEF Apply, rsmp_context_siteId_add
  <2> QED BY <1>1, <1>4, <2>1 DEF SiteContext, Changes
<1>5. CASE field = "sId" /\ ~seen
  <2>1. result = [[item EXCEPT !.siteId = Append(@, value)] EXCEPT !.sId = value]
    BY <1>5 DEF Apply, rsmp_context_siteId_add, rsmp_context_sId_set
  <2> QED BY <1>1, <1>5, <2>1 DEF SiteContext, Changes
<1>6. CASE field = "xNId"
  <2>1. result = [item EXCEPT !.xNId = value]
    BY <1>6 DEF Apply, rsmp_context_xNId_set
  <2> QED BY <1>6, <2>1 DEF SiteContext, Changes
<1>7. CASE field = "SXL"
  <2>1. result = [item EXCEPT !.SXL = value]
    BY <1>7 DEF Apply, rsmp_context_SXL_set
  <2> QED BY <1>7, <2>1 DEF SiteContext, Changes
<1>8. CASE field = "ntsOId"
  <2>1. result = [item EXCEPT !.ntsOId = value]
    BY <1>8 DEF Apply, rsmp_context_ntsOId_set
  <2> QED BY <1>8, <2>1 DEF SiteContext, Changes
<1>9. CASE field = "cId"
  <2>1. result = [item EXCEPT !.cId = value]
    BY <1>9 DEF Apply, rsmp_context_cId_set
  <2> QED BY <1>9, <2>1 DEF SiteContext, Changes
<1> QED BY <1>3, <1>4, <1>5, <1>6, <1>7, <1>8, <1>9 DEF Settable

LEMMA NotAContext == NoContext \notin SiteContext
BY DEF NoContext, SiteContext

LEMMA UptoMore ==
  ASSUME next \in Nat \ {0}, next' = next + 1, options' = options, NEW label
  PROVE  Upto(label)' = Upto(label) \union (IF options[next].label = label THEN {next} ELSE {})
BY DEF Upto

(* A site's own identifier is the first of its list, also with one more.   *)
LEMMA FirstStays ==
  ASSUME NEW V, NEW list \in Seq(V), NEW value \in V
  PROVE  Append(list, value)[1] = IF DOMAIN list = {} THEN value ELSE list[1]
<1>1. CASE Len(list) = 0
  <2>1. DOMAIN list = {} /\ Append(list, value)[Len(list) + 1] = value
    BY <1>1
  <2> QED BY <1>1, <2>1
<1>2. CASE Len(list) # 0
  <2>1. 1 \in DOMAIN list
    BY <1>2
  <2> QED BY <2>1
<1> QED BY <1>1, <1>2

(* The options do not change, nor does what was given.                     *)
LEMMA GivenStays ==
  ASSUME options' = options, UNCHANGED <<stage, ctx, version>>, Announced, SitesAsGiven, OwnSiteIsFirst, VersionIsComplete
  PROVE  Announced' /\ SitesAsGiven' /\ OwnSiteIsFirst' /\ VersionIsComplete'
<1>1. ASSUME NEW label PROVE Given(label)' = Given(label)
  BY DEF Given, Good
<1>3. ASSUME NEW list, NEW label, NEW default PROVE AsGiven(list, label, default)' <=> AsGiven(list, label, default)
  <2>1. Lists(list, Given(label))' <=> Lists(list, Given(label))
    BY <1>1 DEF Lists
  <2> QED BY <1>1, <2>1 DEF AsGiven
<1>4. Announced'
  BY <1>3 DEF Announced
<1>5. SitesAsGiven'
  BY <1>3 DEF SitesAsGiven
<1>6. OwnSiteIsFirst'
  BY <1>1 DEF OwnSiteIsFirst
<1>7. VersionIsComplete'
  BY <1>3 DEF VersionIsComplete
<1> QED BY <1>4, <1>5, <1>6, <1>7

LEMMA OptionsStart == ASSUME OptionsInit PROVE OptionsInv
<1>0. /\ next = 1 /\ ctx = NoContext /\ sId_set = FALSE /\ ret = 0 /\ stage = "parsing" /\ version = NoContext
      /\ options \in UNION {[1 .. n -> Option] : n \in 0 .. MaxOptions}
  BY DEF OptionsInit
<1>1. OptionsTypeOK
  <2>1. PICK n \in 0 .. MaxOptions : options \in [1 .. n -> Option]
    BY <1>0
  <2>2. options \in Seq(Option) /\ Len(options) = n
    BY <2>1
  <2>3. Len(options) <= MaxOptions /\ next \in 1 .. Len(options) + 1
    BY <1>0, <2>2, OptionsAssumption
  <2> QED BY <1>0, <2>2, <2>3 DEF OptionsTypeOK
<1>2. Upto("sId") = {} /\ Upto("vers") = {}
  BY <1>0 DEF Upto
<1>3. Reads(rsmp_context_get_global)
  <2>1. PICK item : item = rsmp_context_get_global
    OBVIOUS
  <2>2. item.siteId = <<>> /\ item.RSMP = <<>> /\ item.sId = Null
    BY <1>0, <2>1 DEF rsmp_context_get_global
  <2>3. Reads(item)
    BY <1>2, <2>2, ListsNone DEF Reads
  <2> QED BY <2>1, <2>3
<1>4. Decoded
  <2>1. Stops
    BY <1>0 DEF Stops
  <2>2. sId_set = (Upto("sId") # {})
    BY <1>0, <1>2
  <2> QED BY <1>0, <1>3, <2>1, <2>2 DEF Decoded
<1> QED BY <1>0, <1>1, <1>4
        DEF OptionsInv, Announced, IdentityAsGiven, SitesAsGiven, OwnSiteIsFirst, VersionIsComplete

LEMMA OptionsTake == ASSUME OptionsInv, TakeOption PROVE OptionsInv'
<1>1. PICK item : item = rsmp_context_get_global
  OBVIOUS
<1>2. PICK o : o = options[next]
  OBVIOUS
<1>3. PICK field : field = rsmp_field_from_lib(o.label)
  OBVIOUS
<1>4. /\ stage = "parsing" /\ next <= Len(options) /\ ret = 0 /\ o # NoSeparator
      /\ next' = next + 1 /\ options' = options /\ version' = version
  BY <1>2 DEF TakeOption, MoreOptions
<1>5. \/ /\ field \in Settable /\ ctx' = Apply(item, field, o.value, sId_set)
         /\ sId_set' = (sId_set \/ field = "sId") /\ UNCHANGED <<ret, stage>>
      \/ /\ field = "crash" /\ stage' = "dead" /\ UNCHANGED <<ctx, sId_set, ret>>
      \/ /\ field \notin Settable \cup {"crash"} /\ ret' = 1 /\ ctx' = item /\ UNCHANGED <<sId_set, stage>>
  BY <1>1, <1>2, <1>3 DEF TakeOption
<1>6. field \in {o.label, "crash"}
  BY <1>3 DEF rsmp_field_from_lib
<1>7. /\ options \in Seq(Option) /\ Len(options) <= MaxOptions /\ next \in 1 .. Len(options)
      /\ sId_set \in BOOLEAN /\ ctx \in SiteContext \union {NoContext} /\ Len(options) \in Nat
  BY <1>4 DEF OptionsInv, OptionsTypeOK
<1>8. o \in [label : Labels, value : Values]
  <2>1. o \in Option
    BY <1>2, <1>7
  <2> QED BY <1>4, <2>1 DEF Option
<1>9. /\ item \in SiteContext /\ Reads(item) /\ sId_set = (Upto("sId") # {})
      /\ \A k \in 1 .. next - 1 : options[k].label \in Settable
  BY <1>1, <1>4, GlobalTyped DEF OptionsInv, Decoded, Stops
<1>10. version = NoContext
  BY <1>4 DEF OptionsInv, Announced
<1>11. ASSUME stage' \in {"parsing", "dead"} PROVE Announced' /\ SitesAsGiven' /\ OwnSiteIsFirst' /\ VersionIsComplete'
  BY <1>4, <1>10, <1>11 DEF Announced, SitesAsGiven, OwnSiteIsFirst, VersionIsComplete
<1>12. \A label : Upto(label)' = Upto(label) \union (IF o.label = label THEN {next} ELSE {})
  BY <1>2, <1>4, <1>7, UptoMore
<1>13. CASE field \in Settable
  <2>1. field = o.label /\ field # "crash"
    BY <1>6, <1>13 DEF Settable
  <2>2. /\ ctx' = Apply(item, field, o.value, sId_set)
        /\ sId_set' = (sId_set \/ field = "sId") /\ ret' = 0 /\ stage' = "parsing"
    BY <1>4, <1>5, <1>13, <2>1
  <2>3. Changes(ctx', item, field, o.value, sId_set)
    <3>1. o.value \in Values
      BY <1>8
    <3>2. PICK seen \in BOOLEAN : seen = sId_set
      BY <1>7
    <3>3. Changes(Apply(item, field, o.value, seen), item, field, o.value, seen)
      BY <1>9, <1>13, <3>1, Applied
    <3> QED BY <2>2, <3>2, <3>3
  <2>4. rsmp_context_get_global' = ctx'
    BY <2>3, NotAContext DEF rsmp_context_get_global, Changes
  <2>5. OptionsTypeOK'
    BY <1>4, <1>7, <2>2, <2>3 DEF OptionsTypeOK, Changes
  <2>6. /\ item.siteId \in Seq(Values \union {"CLIENT_SVMS"}) /\ item.RSMP \in Seq(Values \union {"3.2.1"})
        /\ o.value \in Values
    BY <1>8, <1>9 DEF SiteContext
  <2>7. /\ Lists(item.siteId, Upto("sId")) /\ Lists(item.RSMP, Upto("vers"))
        /\ item.sId = IF Upto("sId") = {} THEN Null ELSE item.siteId[1]
    BY <1>9 DEF Reads
  <2>8. \A label : Upto(label) \in SUBSET (1 .. next - 1)
    BY DEF Upto
  <2>0. next \in Nat /\ options[next].value = o.value
    BY <1>2, <1>7
  <2>9. Lists(ctx'.siteId, Upto("sId")')
    <3>1. CASE field = "sId"
      <4>1. Lists(Append(item.siteId, o.value), Upto("sId") \union {next})
        BY <2>6, <2>7, <2>8, <2>0, ListsMore
      <4> QED BY <1>12, <2>1, <2>3, <3>1, <4>1 DEF Changes
    <3>2. CASE field # "sId"
      BY <1>12, <2>1, <2>3, <2>7, <3>2 DEF Changes
    <3> QED BY <3>1, <3>2
  <2>10. Lists(ctx'.RSMP, Upto("vers")')
    <3>1. CASE field = "vers"
      <4>1. Lists(Append(item.RSMP, o.value), Upto("vers") \union {next})
        BY <2>6, <2>7, <2>8, <2>0, ListsMore
      <4> QED BY <1>12, <2>1, <2>3, <3>1, <4>1 DEF Changes
    <3>2. CASE field # "vers"
      BY <1>12, <2>1, <2>3, <2>7, <3>2 DEF Changes
    <3> QED BY <3>1, <3>2
  <2>11. ctx'.sId = IF Upto("sId")' = {} THEN Null ELSE ctx'.siteId[1]
    <3>1. CASE field = "sId"
      <4>1. Append(item.siteId, o.value)[1] = IF DOMAIN item.siteId = {} THEN o.value ELSE item.siteId[1]
        BY <2>6, FirstStays
      <4>2. DOMAIN item.siteId = {} <=> Upto("sId") = {}
        BY <2>7, ListsEmpty
      <4> QED BY <1>9, <1>12, <2>1, <2>3, <2>7, <3>1, <4>1, <4>2 DEF Changes
    <3>2. CASE field # "sId"
      BY <1>12, <2>1, <2>3, <2>7, <3>2 DEF Changes
    <3> QED BY <3>1, <3>2
  <2>12. Reads(rsmp_context_get_global)'
    BY <1>4, <2>4, <2>9, <2>10, <2>11 DEF Reads, Lists
  <2>13. sId_set' = (Upto("sId")' # {})
    BY <1>9, <1>12, <2>1, <2>2
  <2>14. Decoded'
    <3>1. \A k \in 1 .. next' - 1 : options'[k].label \in Settable
      BY <1>2, <1>4, <1>7, <1>9, <1>13, <2>1
    <3> QED BY <2>2, <2>12, <2>13, <3>1 DEF Decoded, Stops
  <2> QED BY <1>11, <2>2, <2>5, <2>14 DEF OptionsInv, IdentityAsGiven
<1>14. CASE field = "crash"
  <2>1. stage' = "dead" /\ UNCHANGED <<ctx, sId_set, ret>>
    BY <1>5, <1>14 DEF Settable
  <2>2. OptionsTypeOK'
    BY <1>4, <1>7, <2>1 DEF OptionsTypeOK
  <2> QED BY <1>11, <2>1, <2>2 DEF OptionsInv, IdentityAsGiven, Decoded
<1>15. CASE field \notin Settable /\ field # "crash"
  <2>1. /\ ret' = 1 /\ ctx' = item /\ sId_set' = sId_set /\ stage' = "parsing" /\ o.label = field
    BY <1>4, <1>5, <1>6, <1>15
  <2>2. OptionsTypeOK'
    BY <1>4, <1>7, <1>9, <2>1 DEF OptionsTypeOK
  <2>3. Upto("sId")' = Upto("sId") /\ Upto("vers")' = Upto("vers")
    BY <1>12, <1>15, <2>1 DEF Settable
  <2>4. Reads(item)'
    BY <1>4, <1>9, <2>3 DEF Reads, Lists
  <2>5. rsmp_context_get_global' = item
    BY <1>9, <2>1, NotAContext DEF rsmp_context_get_global
  <2>6. Decoded'
    <3>1. next' > 1 /\ options'[next' - 1].label \notin Settable
          /\ \A k \in 1 .. next' - 2 : options'[k].label \in Settable
      BY <1>2, <1>4, <1>7, <1>9, <1>15, <2>1
    <3> QED BY <1>9, <2>1, <2>3, <2>4, <2>5, <3>1 DEF Decoded, Stops
  <2> QED BY <1>11, <2>1, <2>2, <2>6 DEF OptionsInv, IdentityAsGiven
<1> QED BY <1>13, <1>14, <1>15

LEMMA OptionsError == ASSUME OptionsInv, SyntaxError PROVE OptionsInv'
<1>1. PICK item : item = rsmp_context_get_global
  OBVIOUS
<1>2. /\ stage = "parsing" /\ next <= Len(options) /\ ret = 0 /\ options[next] = NoSeparator
      /\ ret' = 1 /\ ctx' = item /\ next' = next + 1 /\ UNCHANGED <<options, sId_set, stage, version>>
  BY <1>1 DEF SyntaxError, MoreOptions
<1>3. /\ options \in Seq(Option) /\ next \in 1 .. Len(options) /\ Len(options) \in Nat
      /\ Len(options) <= MaxOptions /\ sId_set \in BOOLEAN
  BY <1>2 DEF OptionsInv, OptionsTypeOK
<1>4. /\ item \in SiteContext /\ Reads(item) /\ sId_set = (Upto("sId") # {})
      /\ \A k \in 1 .. next - 1 : options[k].label \in Settable
  BY <1>1, <1>2, GlobalTyped DEF OptionsInv, Decoded, Stops
<1>5. options[next].label = Null /\ Null \notin Settable /\ Null # "sId" /\ Null # "vers"
  BY <1>2 DEF NoSeparator, Null, Settable
<1>6. Upto("sId")' = Upto("sId") /\ Upto("vers")' = Upto("vers")
  <2>1. next \in Nat \ {0} /\ next' = next + 1 /\ options' = options
    BY <1>2, <1>3
  <2>2. \A label : Upto(label)' = Upto(label) \union (IF options[next].label = label THEN {next} ELSE {})
    BY <2>1, UptoMore
  <2> QED BY <1>5, <2>2
<1>7. rsmp_context_get_global' = item
  BY <1>2, <1>4, NotAContext DEF rsmp_context_get_global
<1>8. Reads(item)'
  BY <1>2, <1>4, <1>6 DEF Reads, Lists
<1>9. OptionsTypeOK'
  BY <1>2, <1>3, <1>4 DEF OptionsTypeOK
<1>10. Decoded'
  <2>1. next' > 1 /\ options'[next' - 1].label \notin Settable
        /\ \A k \in 1 .. next' - 2 : options'[k].label \in Settable
    BY <1>2, <1>3, <1>4, <1>5
  <2> QED BY <1>2, <1>4, <1>6, <1>7, <1>8, <2>1 DEF Decoded, Stops
<1>11. version' = NoContext /\ stage' = "parsing"
  BY <1>2 DEF OptionsInv, Announced
<1> QED BY <1>9, <1>10, <1>11
        DEF OptionsInv, Announced, IdentityAsGiven, SitesAsGiven, OwnSiteIsFirst, VersionIsComplete

LEMMA OptionsDone == ASSUME OptionsInv, ParsingDone PROVE OptionsInv'
<1>1. /\ stage = "parsing" /\ (next > Len(options) \/ ret # 0) /\ stage' = "started"
      /\ UNCHANGED <<options, next, ctx, sId_set, ret, version>>
  BY DEF ParsingDone
<1>2. OptionsTypeOK'
  BY <1>1 DEF OptionsInv, OptionsTypeOK
<1>3. ret \in {0, 1}
  BY DEF OptionsInv, OptionsTypeOK
<1>4. Decoded'
  <2>1. Stops /\ Reads(rsmp_context_get_global) /\ sId_set = (Upto("sId") # {})
    BY <1>1 DEF OptionsInv, Decoded
  <2>2. UNCHANGED <<Stops, Upto("sId"), Reads(rsmp_context_get_global)>>
    BY <1>1 DEF Stops, Reads, Lists, Upto, rsmp_context_get_global
  <2> QED BY <1>1, <1>3, <2>1, <2>2 DEF Decoded
<1>5. version' = NoContext
  BY <1>1 DEF OptionsInv, Announced
<1> QED BY <1>1, <1>2, <1>4, <1>5
        DEF OptionsInv, Announced, IdentityAsGiven, SitesAsGiven, OwnSiteIsFirst, VersionIsComplete

(* When the loop has ended, all that was given has been decoded.           *)
LEMMA AllDecoded ==
  ASSUME OptionsInv, stage = "started", NEW label \in Settable PROVE Given(label) = Upto(label)
<1>1. /\ options \in Seq(Option) /\ next \in 1 .. Len(options) + 1 /\ Len(options) \in Nat
      /\ DOMAIN options = 1 .. Len(options) /\ ret \in {0, 1}
  BY DEF OptionsInv, OptionsTypeOK
<1>2. Stops /\ (next > Len(options) \/ ret = 1)
  BY DEF OptionsInv, Decoded
<1>3. ASSUME NEW i \in DOMAIN options, options[i].label = label, Good(i) PROVE i \in Upto(label)
  <2>1. i < next
    <3>1. CASE ret = 0
      BY <1>1, <1>2, <3>1
    <3>2. CASE ret = 1
      <4>1. next > 1 /\ options[next - 1].label \notin Settable
        BY <1>2, <3>2 DEF Stops
      <4>2. ASSUME i >= next PROVE FALSE
        <5>1. next - 1 \in 1 .. i
          BY <1>1, <4>1, <4>2
        <5> QED BY <1>3, <4>1, <5>1 DEF Good
      <4> QED BY <1>1, <4>2
    <3> QED BY <1>1, <3>1, <3>2
  <2> QED BY <1>1, <1>3, <2>1 DEF Upto
<1>4. ASSUME NEW i \in Upto(label) PROVE i \in DOMAIN options /\ options[i].label = label /\ Good(i)
  <2>1. i \in 1 .. next - 1 /\ options[i].label = label
    BY DEF Upto
  <2>2. \A k \in 1 .. i : options[k].label \in Settable
    <3>1. CASE ret = 0
      BY <1>1, <1>2, <2>1, <3>1 DEF Stops
    <3>2. CASE ret = 1
      <4>1. i # next - 1
        BY <1>2, <2>1, <3>2 DEF Stops
      <4> QED BY <1>1, <1>2, <2>1, <3>2, <4>1 DEF Stops
    <3> QED BY <1>1, <3>1, <3>2
  <2> QED BY <1>1, <2>1, <2>2 DEF Good
<1> QED BY <1>3, <1>4 DEF Given

LEMMA OptionsCompleted == ASSUME OptionsInv, rsmp_context_initialize PROVE OptionsInv'
<1>1. PICK item : item = rsmp_context_get_global
  OBVIOUS
<1>2. /\ stage = "started" /\ ctx' = Completed(item) /\ stage' = "running"
      /\ UNCHANGED <<options, next, sId_set, ret, version>>
  BY <1>1 DEF rsmp_context_initialize
<1>3. /\ item \in SiteContext /\ Reads(item) /\ Stops /\ (next > Len(options) \/ ret = 1)
  BY <1>1, <1>2, GlobalTyped DEF OptionsInv, Decoded
<1>4. Given("sId") = Upto("sId") /\ Given("vers") = Upto("vers")
  BY <1>2, AllDecoded DEF Settable
<1>5. /\ ctx' \in SiteContext
      /\ ctx'.siteId = IF item.siteId = <<>> THEN <<"CLIENT_SVMS">> ELSE item.siteId
      /\ ctx'.RSMP = IF item.RSMP = <<>> THEN <<"3.2.1">> ELSE item.RSMP
      /\ ctx'.sId = item.sId
  <2>1. /\ <<"CLIENT_SVMS">> \in Seq(Values \union {"CLIENT_SVMS"}) /\ <<"3.2.1">> \in Seq(Values \union {"3.2.1"})
    OBVIOUS
  <2>2. ctx' = [item EXCEPT !.RSMP   = IF @ = <<>> THEN <<"3.2.1">> ELSE @,
                 !.siteId = IF @ = <<>> THEN <<"CLIENT_SVMS">> ELSE @,
                 !.eSXLG  = IF @ = <<>> THEN eSXLG_default ELSE @]
    BY <1>2 DEF Completed
  <2> QED BY <1>3, <2>1, <2>2 DEF SiteContext
<1>6. /\ item.siteId \in Seq(Values \union {"CLIENT_SVMS"}) /\ item.RSMP \in Seq(Values \union {"3.2.1"})
  BY <1>3 DEF SiteContext
<1>7. /\ Lists(item.siteId, Upto("sId")) /\ Lists(item.RSMP, Upto("vers"))
      /\ item.sId = IF Upto("sId") = {} THEN Null ELSE item.siteId[1]
  BY <1>3 DEF Reads
<1>8. (item.siteId = <<>> <=> Upto("sId") = {}) /\ (item.RSMP = <<>> <=> Upto("vers") = {})
  <2>1. \A V : \A list \in Seq(V) : list = <<>> <=> DOMAIN list = {}
    OBVIOUS
  <2> QED BY <1>6, <1>7, <2>1, ListsEmpty
<1>9. AsGiven(ctx'.siteId, "sId", "CLIENT_SVMS") /\ AsGiven(ctx'.RSMP, "vers", "3.2.1")
  BY <1>4, <1>5, <1>7, <1>8 DEF AsGiven
<1>10. SitesAsGiven' /\ AsGiven(ctx.RSMP, "vers", "3.2.1")'
  BY <1>2, <1>9 DEF SitesAsGiven, AsGiven, Given, Good, Lists
<1>11. Given("sId")' = Given("sId")
  BY <1>2 DEF Given, Good
<1>12. OwnSiteIsFirst'
  BY <1>4, <1>5, <1>7, <1>8, <1>11 DEF OwnSiteIsFirst
<1>13. version' = NoContext
  BY <1>2 DEF OptionsInv, Announced
<1>14. OptionsTypeOK'
  BY <1>2, <1>5 DEF OptionsInv, OptionsTypeOK
<1>15. Decoded'
  BY <1>2, <1>3 DEF Decoded, Stops
<1> QED BY <1>2, <1>5, <1>10, <1>12, <1>13, <1>14, <1>15 DEF OptionsInv, Announced, IdentityAsGiven, VersionIsComplete

LEMMA OptionsVersion == ASSUME OptionsInv, NewVersion PROVE OptionsInv'
<1>1. /\ stage = "running" /\ version' = [RSMP |-> ctx.RSMP, siteId |-> ctx.siteId, SXL |-> ctx.SXL]
      /\ UNCHANGED <<options, next, ctx, sId_set, ret, stage>>
  BY DEF NewVersion
<1>2. AsGiven(ctx.RSMP, "vers", "3.2.1") /\ AsGiven(ctx.siteId, "sId", "CLIENT_SVMS")
  BY <1>1 DEF OptionsInv, Announced, IdentityAsGiven, SitesAsGiven
<1>3. version'.RSMP = ctx.RSMP /\ version'.siteId = ctx.siteId
  BY <1>1
<1>4. VersionIsComplete'
  BY <1>1, <1>2, <1>3 DEF VersionIsComplete, AsGiven, Given, Good, Lists
<1>5. OptionsTypeOK'
  BY <1>1 DEF OptionsInv, OptionsTypeOK
<1>6. Decoded'
  BY <1>1 DEF OptionsInv, Decoded, Stops
<1>7. Announced' /\ SitesAsGiven' /\ OwnSiteIsFirst'
  BY <1>1 DEF OptionsInv, Announced, IdentityAsGiven, SitesAsGiven, OwnSiteIsFirst, AsGiven, Given, Good, Lists
<1> QED BY <1>4, <1>5, <1>6, <1>7 DEF OptionsInv, IdentityAsGiven

LEMMA OptionsStep == ASSUME OptionsInv, [OptionsNext]_line PROVE OptionsInv'
<1>1. CASE OptionsNext
  BY <1>1, OptionsTake, OptionsError, OptionsDone, OptionsCompleted, OptionsVersion DEF OptionsNext
<1>2. CASE UNCHANGED line
  <2>1. OptionsTypeOK'
    BY <1>2 DEF line, OptionsInv, OptionsTypeOK
  <2>2. UNCHANGED <<Stops, Upto("sId"), Reads(rsmp_context_get_global)>>
    BY <1>2 DEF line, Stops, Reads, Lists, Upto, rsmp_context_get_global
  <2>3. Decoded'
    BY <1>2, <2>2 DEF line, OptionsInv, Decoded
  <2>4. Announced' /\ SitesAsGiven' /\ OwnSiteIsFirst' /\ VersionIsComplete'
    <3>1. UNCHANGED <<options, stage, ctx, version>>
      BY <1>2 DEF line
    <3> QED BY <3>1, GivenStays DEF OptionsInv, IdentityAsGiven
  <2> QED BY <2>1, <2>3, <2>4 DEF OptionsInv, IdentityAsGiven
<1> QED BY <1>1, <1>2

(* A site announces itself as it was told to, whatever the options, their   *)
(* number and their order: an error neither takes back what came before it *)
(* nor lets later ones in (rsmp_context_from_str, rsmp_context_initialize). *)
THEOREM IdentityStaysAsGiven == OptionsSpec => []IdentityAsGiven
<1>1. OptionsInit => OptionsInv
  BY OptionsStart
<1>2. OptionsInv /\ [OptionsNext]_line => OptionsInv'
  BY OptionsStep
<1>3. OptionsInv => IdentityAsGiven
  BY DEF OptionsInv
<1> QED BY <1>1, <1>2, <1>3, PTL DEF OptionsSpec

-----------------------------------------------------------------------------
(* What one handler does.                                                  *)

Replies ==
    {Ack, NotAck} \union {CommandResponse_from_request(arg) : arg \in SeqOf(Code, 2)}
      \union {[type |-> "StatusResponse", sS |-> Answered(items, beyond)] :
                  items \in SeqOf(Item, 2), beyond \in {"crash", "GEN/S2", "GEN/S9"}}

AsAsked(asked, given) ==
    /\ \E kept \in SUBSET DOMAIN asked : given = At(asked, kept)
    /\ (\A p \in DOMAIN asked : asked[p].sCI = "GEN/S1") => given = Named(asked, fct_GEN_S1)

(* What the properties ask of the outcome of a message.                    *)
Sound(m, o) ==
    /\ o.msgs \in Seq(Replies) /\ o.ran \in BOOLEAN /\ o.dies \in BOOLEAN
    /\ ~o.dies => \E types \in FinalAnswers(m.type) :
                     Len(types) = Len(o.msgs) /\ \A j \in DOMAIN types : o.msgs[j].type = types[j]
    /\ o.ran => /\ \A j \in DOMAIN o.msgs : o.msgs[j].type # "MessageNotAck"
                /\ Range(m.arg) \subseteq Known
    /\ \A j \in DOMAIN o.msgs : o.msgs[j].type = "StatusResponse" => AsAsked(m.sS, o.msgs[j].sS)

LEMMA ReplyTypes ==
  /\ Ack \in Replies /\ Ack.type = "MessageAck" /\ NotAck \in Replies /\ NotAck.type = "MessageNotAck"
  /\ \A r \in Replies : r.type \in AnswerTypes
BY DEF Replies, Ack, NotAck, CommandResponse_from_request, AnswerTypes

LEMMA NoReply == <<>> \in Seq(Replies) /\ Len(<<>>) = 0 /\ DOMAIN <<>> = {}
OBVIOUS

LEMMA OneReply ==
  ASSUME NEW r \in Replies
  PROVE  <<r>> \in Seq(Replies) /\ Len(<<r>>) = 1 /\ DOMAIN <<r>> = {1} /\ <<r>>[1] = r
OBVIOUS

LEMMA TwoReplies ==
  ASSUME NEW r \in Replies, NEW s \in Replies
  PROVE  /\ <<r, s>> \in Seq(Replies) /\ Len(<<r, s>>) = 2 /\ DOMAIN <<r, s>> = {1, 2}
         /\ <<r, s>>[1] = r /\ <<r, s>>[2] = s
OBVIOUS

(* The outcome of a refusal, or of an acknowledgement alone.               *)
LEMMA Alone ==
  ASSUME NEW m, NEW r \in {Ack, NotAck}, <<r.type>> \in FinalAnswers(m.type)
  PROVE  Sound(m, Reaction(<<r>>, FALSE, FALSE))
<1> DEFINE o == Reaction(<<r>>, FALSE, FALSE)
<1>1. r \in Replies /\ r.type \in {"MessageAck", "MessageNotAck"}
  BY ReplyTypes
<1>2. o.msgs = <<r>> /\ o.ran = FALSE /\ o.dies = FALSE
  BY DEF Reaction
<1> HIDE DEF o
<1>3. /\ o.msgs \in Seq(Replies) /\ Len(o.msgs) = 1 /\ DOMAIN o.msgs = {1} /\ o.msgs[1] = r
  BY <1>1, <1>2, OneReply
<1>4. \E types \in FinalAnswers(m.type) :
         Len(types) = Len(o.msgs) /\ \A j \in DOMAIN types : o.msgs[j].type = types[j]
  <2>1. Len(<<r.type>>) = 1 /\ DOMAIN <<r.type>> = {1} /\ <<r.type>>[1] = r.type
    OBVIOUS
  <2> QED BY <1>3, <2>1
<1> QED BY <1>1, <1>2, <1>3, <1>4 DEF Sound, o

(* A process that ends in a handler.                                       *)
LEMMA Cut ==
  ASSUME NEW m, NEW msgs \in {<<>>, <<Ack>>}, NEW ran \in BOOLEAN, ran => Range(m.arg) \subseteq Known
  PROVE  Sound(m, Reaction(msgs, ran, TRUE))
<1> DEFINE o == Reaction(msgs, ran, TRUE)
<1>1. o.msgs = msgs /\ o.ran = ran /\ o.dies = TRUE
  BY DEF Reaction
<1>2. msgs \in Seq(Replies) /\ \A j \in DOMAIN msgs : msgs[j].type = "MessageAck"
  <2>1. <<Ack>> \in Seq(Replies) /\ DOMAIN <<Ack>> = {1} /\ <<Ack>>[1].type = "MessageAck"
    BY ReplyTypes, OneReply
  <2> QED BY <2>1, NoReply
<1> HIDE DEF o
<1> QED BY <1>1, <1>2 DEF Sound, o

LEMMA Command ==
  ASSUME DOMAIN registry \subseteq Known, NEW m, m.type = "CommandRequest", m.arg \in SeqOf(Code, 2),
         NEW o \in Reactions(m)
  PROVE  Sound(m, o)
<1>1. PICK found \in [DOMAIN m.arg -> {NoChild, Link, Handler, "absent", "crash"}] :
         /\ \A i \in DOMAIN m.arg : found[i] \in find_by_cCI(m.arg[i])
         /\ o = CommandRequest_exe(m.arg, found)
  BY DEF Reactions
<1>2. {<<"MessageNotAck">>, <<"MessageAck", "CommandResponse">>} = FinalAnswers(m.type)
  BY DEF FinalAnswers
<1>3. ASSUME NEW i \in DOMAIN m.arg, found[i] \in {Link, Handler} PROVE m.arg[i] \in Known
  <2>1. Found(m.arg[i]) = found[i]
    BY <1>1, <1>3 DEF find_by_cCI, Link, Handler
  <2> QED BY <1>3, <2>1 DEF Found, Link, Handler
<1>4. ASSUME Inactive(found) = {} PROVE Range(m.arg) \subseteq Known
  <2>1. \A i \in DOMAIN m.arg : found[i] \in {Link, Handler}
    BY <1>1, <1>4 DEF Inactive, rsmp_sxl_cmd_is_active
  <2> QED BY <1>3, <2>1 DEF Range
<1>5. Sound(m, Reaction(<<NotAck>>, FALSE, FALSE))
  BY <1>2, Alone, ReplyTypes
<1>6. CASE m.arg = <<>>
  <2>1. o = Reaction(<<NotAck>>, FALSE, FALSE)
    BY <1>1, <1>6 DEF CommandRequest_exe
  <2> QED BY <1>5, <2>1
<1>7. CASE m.arg # <<>> /\ Inactive(found) # {}
  <2>1. CASE found[Min(Inactive(found))] = "crash"
    <3>1. o = Reaction(<<>>, FALSE, TRUE)
      BY <1>1, <1>7, <2>1 DEF CommandRequest_exe
    <3> QED BY <3>1, Cut
  <2>2. CASE found[Min(Inactive(found))] # "crash"
    <3>1. o = Reaction(<<NotAck>>, FALSE, FALSE)
      BY <1>1, <1>7, <2>2 DEF CommandRequest_exe
    <3> QED BY <1>5, <3>1
  <2> QED BY <2>1, <2>2
<1>8. CASE m.arg # <<>> /\ Inactive(found) = {} /\ \E i \in DOMAIN m.arg : rsmp_sxl_cmd_exe(found[i]) = "crash"
  <2> DEFINE ran == rsmp_sxl_cmd_exe(found[1]) = "done"
  <2>1. o = Reaction(<<Ack>>, ran, TRUE)
    BY <1>1, <1>8 DEF CommandRequest_exe
  <2>2. ran \in BOOLEAN
    OBVIOUS
  <2> HIDE DEF ran
  <2> QED BY <1>4, <1>8, <2>1, <2>2, Cut
<1>9. CASE m.arg # <<>> /\ Inactive(found) = {} /\ ~\E i \in DOMAIN m.arg : rsmp_sxl_cmd_exe(found[i]) = "crash"
  <2> DEFINE r == CommandResponse_from_request(m.arg)
             ms == <<Ack, r>>
  <2>1. r \in Replies /\ r.type = "CommandResponse"
    BY DEF Replies, CommandResponse_from_request
  <2> HIDE DEF r
  <2>2. /\ ms \in Seq(Replies) /\ Len(ms) = 2 /\ DOMAIN ms = {1, 2} /\ ms[1] = Ack /\ ms[2] = r
    BY <2>1, ReplyTypes, TwoReplies
  <2>3. o = Reaction(ms, TRUE, FALSE)
    BY <1>1, <1>9 DEF CommandRequest_exe, r
  <2> HIDE DEF ms
  <2>4. o.msgs = ms /\ o.ran = TRUE /\ o.dies = FALSE
    BY <2>3 DEF Reaction
  <2> DEFINE t == <<"MessageAck", "CommandResponse">>
  <2>5. Len(t) = 2 /\ DOMAIN t = {1, 2} /\ t[1] = "MessageAck" /\ t[2] = "CommandResponse"
    OBVIOUS
  <2>6. t \in FinalAnswers(m.type)
    BY <1>2
  <2> HIDE DEF t
  <2>7. Len(t) = Len(ms) /\ \A j \in DOMAIN t : ms[j].type = t[j]
    BY <2>1, <2>2, <2>5, ReplyTypes
  <2>8. \A j \in DOMAIN ms : ms[j].type \in {"MessageAck", "CommandResponse"}
    BY <2>1, <2>2, ReplyTypes
  <2> QED BY <1>4, <1>9, <2>2, <2>4, <2>6, <2>7, <2>8 DEF Sound
<1> QED BY <1>6, <1>7, <1>8, <1>9

LEMMA NothingAt == \A items : At(items, {}) = <<>>
<1>1. Cardinality({}) = 0
  BY FS_EmptySet
<1>2. 1 .. 0 = {}
  OBVIOUS
<1> DEFINE Rising(s) == \A i, j \in DOMAIN s : i < j => s[i] < s[j]
<1>3. \E s \in [1 .. Cardinality({}) -> {}] : Rising(s)
  <2>1. [i \in {} |-> i] \in [1 .. Cardinality({}) -> {}] /\ Rising([i \in {} |-> i])
    BY <1>1, <1>2
  <2> QED BY <2>1
<1>4. Ascending({}) \in [1 .. Cardinality({}) -> {}]
  BY <1>3 DEF Ascending
<1>5. DOMAIN Ascending({}) = {}
  BY <1>1, <1>2, <1>4
<1>6. ASSUME NEW items PROVE At(items, {}) = <<>>
  <2>1. At(items, {}) = [k \in {} |-> items[Ascending({})[k]]]
    BY <1>5 DEF At
  <2> QED BY <2>1
<1> QED BY <1>6

LEMMA Status ==
  ASSUME NEW m, m.type = "StatusRequest", m.sS \in SeqOf(Item, 2), NEW o \in Reactions(m)
  PROVE  Sound(m, o)
<1>1. PICK beyond \in {"crash", "GEN/S2", "GEN/S9"} : o = StatusRequest_exe(m.sS, beyond)
  BY DEF Reactions
<1>2. {<<"StatusResponse">>} = FinalAnswers(m.type)
  BY DEF FinalAnswers
<1>3. CASE ReadsBeyond(m.sS) /\ beyond = "crash"
  <2>1. o = Reaction(<<>>, FALSE, TRUE)
    BY <1>1, <1>3 DEF StatusRequest_exe
  <2> QED BY <2>1, Cut
<1>4. CASE ~(ReadsBeyond(m.sS) /\ beyond = "crash")
  <2> DEFINE r == [type |-> "StatusResponse", sS |-> Answered(m.sS, beyond)]
             ms == <<r>>
  <2>1. r \in Replies /\ r.type = "StatusResponse" /\ r.sS = Answered(m.sS, beyond)
    BY DEF Replies
  <2> HIDE DEF r
  <2>2. ms \in Seq(Replies) /\ Len(ms) = 1 /\ DOMAIN ms = {1} /\ ms[1] = r
    BY <2>1, OneReply
  <2>3. o = Reaction(ms, FALSE, FALSE)
    BY <1>1, <1>4 DEF StatusRequest_exe, r
  <2> HIDE DEF ms
  <2>4. o.msgs = ms /\ o.ran = FALSE /\ o.dies = FALSE
    BY <2>3 DEF Reaction
  <2> DEFINE t == <<"StatusResponse">>
  <2>5. Len(t) = 1 /\ DOMAIN t = {1} /\ t[1] = "StatusResponse"
    OBVIOUS
  <2>6. t \in FinalAnswers(m.type)
    BY <1>2
  <2> HIDE DEF t
  <2>7. Len(t) = Len(ms) /\ \A j \in DOMAIN t : ms[j].type = t[j]
    BY <2>1, <2>2, <2>5
  <2>8. AsAsked(m.sS, Answered(m.sS, beyond))
    <3> DEFINE items == m.sS
    <3>1. CASE Chosen(items, beyond) = {}
      <4>1. Answered(items, beyond) = <<>>
        BY <3>1 DEF Answered
      <4>2. Answered(items, beyond) = At(items, {})
        BY <4>1, NothingAt
      <4>3. ASSUME \A p \in DOMAIN items : items[p].sCI = "GEN/S1" PROVE DOMAIN items = {}
        <5>1. ASSUME NEW n \in Nat, items \in [1 .. n -> Item], n # 0 PROVE FALSE
          <6>1. 1 \in DOMAIN items /\ 1 <= Len(items)
            BY <5>1
          <6>2. Compared(items, beyond, 1) = "GEN/S1"
            BY <4>3, <6>1 DEF Compared
          <6>3. 1 \in Chosen(items, beyond)
            BY <6>2 DEF Chosen, callbacks
          <6> QED BY <3>1, <6>3
        <5>2. PICK n \in 0 .. 2 : items \in [1 .. n -> Item]
          BY DEF SeqOf
        <5>3. n = 0
          BY <5>1, <5>2
        <5> QED BY <5>2, <5>3
      <4>4. ASSUME DOMAIN items = {} PROVE Named(items, fct_GEN_S1) = At(items, {})
        <5>1. {i \in DOMAIN items : items[i].n \in fct_GEN_S1} = {}
          BY <4>4
        <5> QED BY <5>1 DEF Named
      <4> QED BY <4>2, <4>3, <4>4 DEF AsAsked
    <3>2. CASE Chosen(items, beyond) # {}
      <4> DEFINE c == callbacks[Min(Chosen(items, beyond))].names
      <4>1. Answered(items, beyond) = Named(items, c)
        BY <3>2 DEF Answered
      <4>2. \E kept \in SUBSET DOMAIN items : Named(items, c) = At(items, kept)
        <5> HIDE DEF c
        <5> QED BY DEF Named
      <4>3. ASSUME \A p \in DOMAIN items : items[p].sCI = "GEN/S1"
            PROVE  Named(items, c) = Named(items, fct_GEN_S1)
        <5>1. PICK n \in 0 .. 2 : items \in [1 .. n -> Item]
          BY DEF SeqOf
        <5>2. CASE n = 0
          <6>1. DOMAIN items = {}
            BY <5>1, <5>2
          <6> HIDE DEF c
          <6>2. {i \in DOMAIN items : items[i].n \in c} = {i \in DOMAIN items : items[i].n \in fct_GEN_S1}
            BY <6>1
          <6> QED BY <6>2 DEF Named
        <5>3. CASE n # 0
          <6>1. 1 \in DOMAIN items /\ 1 <= Len(items)
            BY <5>1, <5>3
          <6>2. Compared(items, beyond, 1) = "GEN/S1"
            BY <4>3, <6>1 DEF Compared
          <6>3. 1 \in Chosen(items, beyond) /\ Chosen(items, beyond) \subseteq {1, 2}
            BY <6>2 DEF Chosen, callbacks
          <6>4. Min(Chosen(items, beyond)) = 1
            BY <6>3 DEF Min
          <6>5. c = fct_GEN_S1
            BY <6>4 DEF callbacks
          <6> QED BY <6>5
        <5> QED BY <5>2, <5>3
      <4> HIDE DEF c
      <4> QED BY <4>1, <4>2, <4>3 DEF AsAsked
    <3> QED BY <3>1, <3>2
  <2> QED BY <2>1, <2>2, <2>4, <2>6, <2>7, <2>8 DEF Sound
<1> QED BY <1>3, <1>4

LEMMA EachIsSound ==
  ASSUME DOMAIN registry \subseteq Known, NEW m \in Message, NEW o \in Reactions(m)
  PROVE  Sound(m, o)
<1>1. CASE m \in [type : {"CommandRequest"}, arg : SeqOf(Code, 2)]
  BY <1>1, Command
<1>2. CASE m \in [type : {"StatusRequest"}, sS : SeqOf(Item, 2)]
  BY <1>2, Status
<1>3. CASE m \in [type : {"Watchdog", "Alarm", "CommandResponse", "MessageAck", "MessageNotAck"}]
  <2>0. m.type \in {"Watchdog", "Alarm", "CommandResponse", "MessageAck", "MessageNotAck"}
    BY <1>3
  <2>1. CASE m.type = "Watchdog"
    <3>1. o = Reaction(<<Ack>>, FALSE, FALSE)
      BY <2>1 DEF Reactions, Watchdog_exe
    <3>2. <<Ack.type>> \in FinalAnswers(m.type)
      BY <2>1, ReplyTypes DEF FinalAnswers
    <3> QED BY <3>1, <3>2, Alone
  <2>2. CASE m.type \in {"Alarm", "CommandResponse"}
    <3>1. o = Reaction(<<NotAck>>, FALSE, FALSE)
      BY <2>2 DEF Reactions, message_exe, rsmp_message_desc_ack
    <3>2. <<NotAck.type>> \in FinalAnswers(m.type)
      BY <2>2, ReplyTypes DEF FinalAnswers
    <3> QED BY <3>1, <3>2, Alone
  <2>3. CASE m.type \in {"MessageAck", "MessageNotAck"}
    <3>1. o = Reaction(<<>>, FALSE, FALSE)
      BY <2>3 DEF Reactions, message_exe, rsmp_message_desc_ack
    <3>2. o.msgs = <<>> /\ o.ran = FALSE /\ o.dies = FALSE
      BY <3>1 DEF Reaction
    <3>3. <<>> \in FinalAnswers(m.type)
      BY <2>3 DEF FinalAnswers
    <3> QED BY <3>2, <3>3, NoReply DEF Sound
  <2> QED BY <2>0, <2>1, <2>2, <2>3
<1> QED BY <1>1, <1>2, <1>3 DEF Message

-----------------------------------------------------------------------------
(* The inductive invariant: the property, and what is sent is a sequence of *)
(* answers.                                                                *)

Answers == [msg : Replies, to : Nat]

AnswersInv == RequestsAreAnswered /\ sent \in Seq(Answers)

LEMMA FinalAnswersAreSequences ==
  ASSUME NEW type, NEW types \in FinalAnswers(type)
  PROVE  Len(types) \in Nat /\ DOMAIN types = 1 .. Len(types)
<1>1. ASSUME NEW a, NEW b
      PROVE  /\ Len(<<>>) = 0 /\ DOMAIN <<>> = 1 .. 0 /\ Len(<<a>>) = 1 /\ DOMAIN <<a>> = 1 .. 1
             /\ Len(<<a, b>>) = 2 /\ DOMAIN <<a, b>> = 1 .. 2
  OBVIOUS
<1>2. types = <<>> \/ (\E a : types = <<a>>) \/ (\E a, b : types = <<a, b>>)
  <2>1. types \in {<<>>, <<"MessageAck">>, <<"MessageNotAck">>, <<"StatusResponse">>,
                   <<"MessageAck", "CommandResponse">>}
    BY DEF FinalAnswers
  <2> QED BY <2>1
<1> QED BY <1>1, <1>2

LEMMA AnswersStart == ASSUME RequestsInit PROVE AnswersInv
<1>1. sent = <<>> /\ taken = <<>> /\ registry = <<>> /\ executed = {} /\ adds = 0 /\ crashed = FALSE
  BY DEF RequestsInit
<1>2. DOMAIN sent = {} /\ sent \in Seq(Answers) /\ DOMAIN taken = {} /\ taken \in Seq(Message)
      /\ Len(taken) = 0 /\ DOMAIN registry = {}
  BY <1>1
<1>3. Range(registry) = {}
  BY <1>2 DEF Range
<1>4. RequestsTypeOK
  <2>1. adds \in 0 .. MaxAdds /\ Len(taken) <= MaxMsgs
    BY <1>1, <1>2, RequestsAssumption
  <2> QED BY <1>1, <1>2, <1>3, <2>1 DEF RequestsTypeOK
<1>5. OneFinalAnswer /\ AllOrNothing /\ StatusAsAsked
  BY <1>1, <1>2 DEF OneFinalAnswer, AllOrNothing, StatusAsAsked
<1> QED BY <1>2, <1>4, <1>5 DEF AnswersInv, RequestsAreAnswered

LEMMA AnswersAdd ==
  ASSUME AnswersInv, NEW c \in Known, rsmp_sxl_cmd_add(c)
  PROVE  AnswersInv'
<1>1. taken' = taken /\ sent' = sent /\ executed' = executed /\ crashed' = crashed
      /\ adds' = adds + 1 /\ adds < MaxAdds
  BY DEF rsmp_sxl_cmd_add
<1>2. RequestsTypeOK /\ OneFinalAnswer /\ AllOrNothing /\ StatusAsAsked /\ sent \in Seq(Answers)
  BY DEF AnswersInv, RequestsAreAnswered
<1>3. DOMAIN registry' \subseteq Known /\ Range(registry') \subseteq {NoChild, Link, Handler}
  <2>1. CASE registry' \in Links(DOMAIN registry \union {c})
    <3>1. registry' \in [DOMAIN registry \union {c} -> {NoChild, Link}]
      BY <2>1 DEF Links
    <3> QED BY <1>2, <3>1 DEF RequestsTypeOK, Range
  <2>2. CASE c \in DOMAIN registry /\ registry' = [registry EXCEPT ![c] = Handler]
    BY <1>2, <2>2 DEF RequestsTypeOK, Range
  <2> QED BY <2>1, <2>2 DEF rsmp_sxl_cmd_add
<1>4. adds' \in 0 .. MaxAdds
  BY <1>1, <1>2, RequestsAssumption DEF RequestsTypeOK
<1>5. RequestsTypeOK'
  BY <1>1, <1>2, <1>3, <1>4 DEF RequestsTypeOK
<1>6. OneFinalAnswer' /\ AllOrNothing' /\ StatusAsAsked'
  BY <1>1, <1>2 DEF OneFinalAnswer, AllOrNothing, StatusAsAsked, AnsweredBy, Refused
<1> QED BY <1>1, <1>2, <1>5, <1>6 DEF AnswersInv, RequestsAreAnswered

Concatenated(S, s, t, u) ==
    /\ u \in Seq(S) /\ Len(u) = Len(s) + Len(t)
    /\ DOMAIN s = 1 .. Len(s) /\ DOMAIN u = 1 .. (Len(s) + Len(t))
    /\ \A i \in 1 .. Len(s) : u[i] = s[i]
    /\ \A j \in 1 .. Len(t) : u[Len(s) + j] = t[j]

LEMMA Appended ==
  ASSUME NEW S, NEW s \in Seq(S), NEW t \in Seq(S)
  PROVE  Concatenated(S, s, t, s \o t)
BY DEF Concatenated

LEMMA AnswersHandle ==
  ASSUME AnswersInv, NEW m \in Message, Handle(m)
  PROVE  AnswersInv'
<1>1. RequestsTypeOK /\ OneFinalAnswer /\ AllOrNothing /\ StatusAsAsked /\ sent \in Seq(Answers)
  BY DEF AnswersInv, RequestsAreAnswered
<1>0. PICK K \in Nat, L \in Nat : K = Len(taken) + 1 /\ L = Len(sent)
  BY <1>1 DEF RequestsTypeOK
<1>2. PICK o \in Reactions(m) :
         /\ sent' = sent \o [i \in DOMAIN o.msgs |-> [msg |-> o.msgs[i], to |-> K]]
         /\ executed' = executed \union (IF o.ran THEN {K} ELSE {})
         /\ crashed' = o.dies
  BY <1>0 DEF Handle, Number
<1> DEFINE new == [i \in DOMAIN o.msgs |-> [msg |-> o.msgs[i], to |-> K]]
           n == Len(o.msgs)
<1>3. Sound(m, o)
  BY <1>1, EachIsSound DEF RequestsTypeOK
<1>4. ~crashed /\ Len(taken) < MaxMsgs /\ taken' = Append(taken, m) /\ registry' = registry /\ adds' = adds
  BY DEF Handle
<1>5. /\ taken \in Seq(Message) /\ K \in Nat /\ K # 0 /\ DOMAIN taken = 1 .. (K - 1)
      /\ taken' \in Seq(Message) /\ Len(taken') = K /\ DOMAIN taken' = 1 .. K
      /\ taken'[K] = m /\ \A k \in 1 .. (K - 1) : taken'[k] = taken[k]
  BY <1>0, <1>1, <1>4 DEF RequestsTypeOK
<1>6. o.msgs \in Seq(Replies) /\ n \in Nat /\ DOMAIN o.msgs = 1 .. n /\ o.dies \in BOOLEAN /\ o.ran \in BOOLEAN
  BY <1>3 DEF Sound
<1>7. /\ new \in Seq(Answers) /\ Len(new) = n
      /\ \A j \in 1 .. n : new[j].msg = o.msgs[j] /\ new[j].to = K
  <2>1. new \in [1 .. n -> Answers]
    <3>1. \A j \in 1 .. n : o.msgs[j] \in Replies
      BY <1>6
    <3> QED BY <1>5, <1>6, <3>1 DEF Answers
  <2> QED BY <1>6, <2>1
<1> HIDE DEF new
<1>8. /\ sent' \in Seq(Answers) /\ L \in Nat /\ Len(sent') = L + n
      /\ DOMAIN sent = 1 .. L /\ DOMAIN sent' = 1 .. (L + n)
      /\ \A i \in 1 .. L : sent'[i] = sent[i]
      /\ \A j \in 1 .. n : sent'[L + j] = new[j]
  <2>1. sent' = sent \o new
    BY <1>2 DEF new
  <2>2. sent \in Seq(Answers) /\ new \in Seq(Answers) /\ Len(sent) = L /\ Len(new) = n /\ n \in Nat
    BY <1>0, <1>1, <1>6, <1>7
  <2> HIDE DEF n
  <2>3. Concatenated(Answers, sent, new, sent')
    BY <2>1, <2>2, Appended
  <2> QED BY <1>0, <2>2, <2>3 DEF Concatenated
<1>9. \A i \in 1 .. L : sent[i].to \in 1 .. (K - 1) /\ sent[i].msg.type \in AnswerTypes
  BY <1>1, <1>5, <1>8 DEF RequestsTypeOK
<1>10. \A j \in 1 .. n : sent'[L + j].msg = o.msgs[j] /\ sent'[L + j].to = K
  BY <1>7, <1>8
<1> HIDE DEF n
<1>11. ASSUME NEW i \in DOMAIN sent' PROVE i \in 1 .. L \/ \E j \in 1 .. n : i = L + j
  <2>1. i \in 1 .. L \/ i - L \in 1 .. n
    BY <1>6, <1>8, <1>11
  <2>2. i = L + (i - L)
    BY <1>8
  <2> QED BY <2>1, <2>2
<1>12. RequestsTypeOK'
  <2>1. ASSUME NEW i \in DOMAIN sent' PROVE sent'[i].to \in 1 .. K /\ sent'[i].msg.type \in AnswerTypes
    <3>1. CASE i \in 1 .. L
      BY <1>5, <1>8, <1>9, <3>1
    <3>2. ASSUME NEW j \in 1 .. n, i = L + j PROVE sent'[i].to = K /\ sent'[i].msg.type \in AnswerTypes
      BY <1>6, <1>10, <3>2, ReplyTypes
    <3> QED BY <1>5, <1>11, <3>1, <3>2
  <2>2. executed' \subseteq 1 .. K
    BY <1>1, <1>2, <1>5 DEF RequestsTypeOK
  <2>3. Len(taken') <= MaxMsgs
    BY <1>0, <1>4, <1>5, RequestsAssumption
  <2> QED BY <1>1, <1>2, <1>4, <1>5, <1>6, <2>1, <2>2, <2>3 DEF RequestsTypeOK
<1>13. OneFinalAnswer'
  <2>1. ASSUME NEW k \in 1 .. (K - 1)
        PROVE  \E types \in FinalAnswers(taken'[k].type) : AnsweredBy(k, types)'
    <3>1. PICK types \in FinalAnswers(taken[k].type) : AnsweredBy(k, types)
      BY <1>1, <1>4, <1>5 DEF OneFinalAnswer
    <3>2. Len(types) \in Nat /\ DOMAIN types = 1 .. Len(types)
      BY <3>1, FinalAnswersAreSequences
    <3>3. PICK at \in 0 .. Len(sent) :
             /\ {i \in DOMAIN sent : sent[i].to = k} = (at + 1) .. (at + Len(types))
             /\ \A j \in DOMAIN types : sent[at + j].msg.type = types[j]
      BY <3>1 DEF AnsweredBy
    <3>4. {i \in DOMAIN sent' : sent'[i].to = k} = {i \in DOMAIN sent : sent[i].to = k}
      <4>1. ASSUME NEW i \in DOMAIN sent', sent'[i].to = k PROVE i \in DOMAIN sent /\ sent[i].to = k
        <5>1. \A j \in 1 .. n : i # L + j
          BY <1>5, <1>10, <4>1
        <5>2. i \in 1 .. L
          BY <1>11, <5>1
        <5> QED BY <1>8, <4>1, <5>2
      <4>2. ASSUME NEW i \in DOMAIN sent, sent[i].to = k PROVE i \in DOMAIN sent' /\ sent'[i].to = k
        BY <1>6, <1>8, <4>2
      <4> QED BY <4>1, <4>2
    <3>5. at \in 0 .. Len(sent')
      BY <1>0, <1>6, <1>8
    <3>6. ASSUME NEW j \in DOMAIN types PROVE sent'[at + j].msg.type = types[j]
      <4>1. at + j \in (at + 1) .. (at + Len(types))
        BY <3>2
      <4>2. at + j \in DOMAIN sent
        BY <3>3, <4>1
      <4> QED BY <1>8, <3>3, <4>2
    <3>7. {i \in DOMAIN sent' : sent'[i].to = k} = (at + 1) .. (at + Len(types))
      BY <3>3, <3>4
    <3>8. AnsweredBy(k, types)'
      BY <3>5, <3>6, <3>7 DEF AnsweredBy
    <3> QED BY <1>5, <3>1, <3>8
  <2>2. ASSUME ~o.dies
        PROVE  \E types \in FinalAnswers(taken'[K].type) : AnsweredBy(K, types)'
    <3>1. PICK types \in FinalAnswers(m.type) :
             Len(types) = n /\ \A j \in DOMAIN types : o.msgs[j].type = types[j]
      BY <1>3, <2>2 DEF Sound, n
    <3>2. DOMAIN types = 1 .. n
      BY <3>1, FinalAnswersAreSequences
    <3>3. {i \in DOMAIN sent' : sent'[i].to = K} = (L + 1) .. (L + Len(types))
      <4>1. ASSUME NEW i \in DOMAIN sent', sent'[i].to = K PROVE i \in (L + 1) .. (L + n)
        <5>1. i \notin 1 .. L
          BY <1>5, <1>8, <1>9, <4>1
        <5> QED BY <1>6, <1>8, <5>1
      <4>2. ASSUME NEW i \in (L + 1) .. (L + n) PROVE i \in DOMAIN sent' /\ sent'[i].to = K
        <5>1. i \in DOMAIN sent' /\ i \notin 1 .. L
          BY <1>6, <1>8
        <5>2. PICK j \in 1 .. n : i = L + j
          BY <1>11, <5>1
        <5> QED BY <1>10, <5>1, <5>2
      <4> QED BY <3>1, <4>1, <4>2
    <3>4. \A j \in DOMAIN types : sent'[L + j].msg.type = types[j]
      BY <1>10, <3>1, <3>2
    <3>5. L \in 0 .. Len(sent')
      BY <1>6, <1>8
    <3>6. AnsweredBy(K, types)'
      BY <3>3, <3>4, <3>5 DEF AnsweredBy
    <3> QED BY <1>5, <3>1, <3>6
  <2> SUFFICES ASSUME NEW k \in 1 .. K
               PROVE  \/ crashed' /\ k = Len(taken')
                      \/ \E types \in FinalAnswers(taken'[k].type) : AnsweredBy(k, types)'
    BY <1>5 DEF OneFinalAnswer
  <2>3. k \in 1 .. (K - 1) \/ k = K
    OBVIOUS
  <2> QED BY <1>2, <1>5, <2>1, <2>2, <2>3
<1>14. AllOrNothing'
  <2>1. ASSUME NEW k \in executed PROVE ~Refused(k)' /\ Range(taken'[k].arg) \subseteq Known
    <3>1. k \in 1 .. (K - 1) /\ ~Refused(k) /\ Range(taken[k].arg) \subseteq Known
      BY <1>1, <1>5 DEF RequestsTypeOK, AllOrNothing
    <3>2. ASSUME NEW i \in DOMAIN sent', sent'[i].to = k, sent'[i].msg.type = "MessageNotAck" PROVE FALSE
      <4>1. i \in 1 .. L
        BY <1>5, <1>10, <1>11, <3>1, <3>2
      <4> QED BY <1>8, <3>1, <3>2, <4>1 DEF Refused
    <3> QED BY <1>5, <3>1, <3>2 DEF Refused
  <2>2. ASSUME o.ran PROVE ~Refused(K)' /\ Range(taken'[K].arg) \subseteq Known
    <3>1. /\ \A j \in DOMAIN o.msgs : o.msgs[j].type # "MessageNotAck"
          /\ Range(m.arg) \subseteq Known
      BY <1>3, <2>2 DEF Sound
    <3>2. ASSUME NEW i \in DOMAIN sent', sent'[i].to = K, sent'[i].msg.type = "MessageNotAck" PROVE FALSE
      <4>1. i \notin 1 .. L
        BY <1>5, <1>8, <1>9, <3>2
      <4>2. PICK j \in 1 .. n : i = L + j
        BY <1>11, <4>1
      <4> QED BY <1>6, <1>10, <3>1, <3>2, <4>2
    <3> QED BY <1>5, <3>1, <3>2 DEF Refused
  <2>3. \A k \in executed' : k \in executed \/ (o.ran /\ k = K)
    BY <1>2
  <2> QED BY <2>1, <2>2, <2>3 DEF AllOrNothing
<1>15. StatusAsAsked'
  <2>1. ASSUME NEW i \in DOMAIN sent', sent'[i].msg.type = "StatusResponse"
        PROVE  AsAsked(taken'[sent'[i].to].sS, sent'[i].msg.sS)
    <3>1. CASE i \in 1 .. L
      <4>1. sent[i].msg.type = "StatusResponse" /\ sent'[i] = sent[i] /\ i \in DOMAIN sent
        BY <1>8, <2>1, <3>1
      <4>2. AsAsked(taken[sent[i].to].sS, sent[i].msg.sS)
        BY <1>1, <4>1 DEF StatusAsAsked, AsAsked
      <4> QED BY <1>5, <1>9, <3>1, <4>1, <4>2
    <3>2. ASSUME NEW j \in 1 .. n, i = L + j
          PROVE  AsAsked(taken'[sent'[i].to].sS, sent'[i].msg.sS)
      <4>1. sent'[i].msg = o.msgs[j] /\ sent'[i].to = K
        BY <1>10, <3>2
      <4>2. AsAsked(m.sS, o.msgs[j].sS)
        BY <1>3, <1>6, <2>1, <4>1 DEF Sound
      <4> QED BY <1>5, <4>1, <4>2
    <3> QED BY <1>11, <3>1, <3>2
  <2> QED BY <2>1 DEF StatusAsAsked, AsAsked
<1> QED BY <1>8, <1>12, <1>13, <1>14, <1>15 DEF AnswersInv, RequestsAreAnswered

LEMMA AnswersStep ==
  ASSUME AnswersInv, [RequestsNext]_requests PROVE AnswersInv'
<1>1. CASE RequestsNext
  BY <1>1, AnswersAdd, AnswersHandle DEF RequestsNext
<1>2. CASE UNCHANGED requests
  BY <1>2 DEF requests, AnswersInv, RequestsAreAnswered, RequestsTypeOK, OneFinalAnswer, AllOrNothing, StatusAsAsked,
              AnsweredBy, Refused
<1> QED BY <1>1, <1>2

(* Each request gets its answers and only those, runs all its commands or   *)
(* none, and a status holds what was asked for (the exe handlers).         *)
THEOREM RequestsStayAnswered == RequestsSpec => []RequestsAreAnswered
<1>1. RequestsInit => AnswersInv
  BY AnswersStart
<1>2. AnswersInv /\ [RequestsNext]_requests => AnswersInv'
  BY AnswersStep
<1>3. AnswersInv => RequestsAreAnswered
  BY DEF AnswersInv
<1> QED BY <1>1, <1>2, <1>3, PTL DEF RequestsSpec
=============================================================================
