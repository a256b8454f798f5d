------------------------------ MODULE Dispatch ------------------------------
(***************************************************************************)
(* What a site does with the requests of its peer: the external thread     *)
(* hands a decoded message to the callback of its type (main.c), which     *)
(* answers with acknowledgements, a CommandResponse or a StatusResponse    *)
(* (rsmp/messages), commands being looked up in the registry of the signal *)
(* exchange list (rsmp/sxl/sxl.c).                                         *)
(*                                                                         *)
(* The registry is a tree of the C library.  tfind returns a node of it,   *)
(* which _rsmp_sxl_find_by_cCI takes for the record itself: the field      *)
(* callback.fct is then the left link of the node.  A lone node has no     *)
(* link; the links of several nodes depend on the library.                 *)
(***************************************************************************)
EXTENDS Integers, Sequences, FiniteSets, SequencesExt, FiniteSetsExt

CONSTANTS Known,     \* command codes that an application may register
          Unknown,   \* a code that it does not
          MaxAdds,   \* bound: registrations
          MaxMsgs    \* bound: messages of the peer

ASSUME RequestsAssumption == MaxAdds \in Nat /\ MaxMsgs \in Nat

VARIABLES
    registry,   \* left link of the node of each registered code
    taken,      \* messages taken from the queue, in order
    sent,       \* messages sent, each with the number of the one it answers
    executed,   \* numbers of the requests of which a callback was run
    adds,       \* number of registrations
    crashed

requests == <<registry, taken, sent, executed, adds, crashed>>

NoChild == "null"          \* no left child
Link == "link"          \* another node, or the colour bit
Handler == "handler"    \* the function registered

Code == Known \union {Unknown}
Signal == {"GEN/S1", "GEN/S2", "GEN/S9"}
Name == {"Manufacturer", "Name", "Other"}
Item == [sCI : Signal, n : Name]

Message ==
    [type : {"CommandRequest"}, arg : SeqOf(Code, 2)]
        \union [type : {"StatusRequest"}, sS : SeqOf(Item, 2)]
        \union [type : {"Watchdog", "Alarm", "CommandResponse", "MessageAck", "MessageNotAck"}]

-----------------------------------------------------------------------------
(* The registry (sxl.c).                                                   *)

RequestsInit ==
    /\ registry = <<>> /\ taken = <<>> /\ sent = <<>>
    /\ executed = {} /\ adds = 0 /\ crashed = FALSE

\* The links that the library can give to the nodes of a set of codes.
Links(codes) == IF Cardinality(codes) = 1 THEN [codes -> {NoChild}] ELSE [codes -> {NoChild, Link}]

\* What _rsmp_sxl_find_by_cCI can give for a code: the link of its node, or
\* "absent".  Once a record has been written over a node the search may be
\* led away from the tree.
Found(c) == IF c \in DOMAIN registry THEN registry[c] ELSE "absent"
Damaged == \E c \in DOMAIN registry : registry[c] = Handler
find_by_cCI(c) ==
    IF Damaged /\ DOMAIN registry # {c} THEN {Found(c), "absent", "crash"} ELSE {Found(c)}

\* register_disp_handlers, or an application, before messages are handled: a
\* known code has its node written over with the new callback.
rsmp_sxl_cmd_add(c) ==
    /\ adds < MaxAdds /\ taken = <<>> /\ ~crashed /\ ~Damaged
    /\ adds' = adds + 1
    /\ \/ /\ c \notin DOMAIN registry
          /\ registry' \in Links(DOMAIN registry \union {c})
       \/ /\ c \in DOMAIN registry
          /\ registry' = [registry EXCEPT ![c] = Handler]
    /\ UNCHANGED <<taken, sent, executed, crashed>>

\* _rsmp_no_error_ from rsmp_sxl_cmd_is_active.
rsmp_sxl_cmd_is_active(found) == found \in {Link, Handler}

\* rsmp_sxl_cmd_exe calls what it found: only a function can be called.
rsmp_sxl_cmd_exe(found) == IF found = Handler THEN "done" ELSE "crash"

-----------------------------------------------------------------------------
(* The answers.  A reaction is the messages sent, whether a command was    *)
(* run and whether the process crashed.                                    *)

Reaction(msgs, ran, dies) == [msgs |-> msgs, ran |-> ran, dies |-> dies]
NotAck == [type |-> "MessageNotAck"]
Ack == [type |-> "MessageAck"]

\* rsmp_msg_MessageAck_to, rsmp_msg_MessageNotAck_to: nothing for an answer.
rsmp_message_desc_ack(type) == type \notin {"MessageAck", "MessageNotAck"}

\* The rvs have the codes of the arguments.
CommandResponse_from_request(arg) == [type |-> "CommandResponse", rvs |-> arg]

\* Arguments at which the first loop of the handler stops.
Inactive(found) == {i \in DOMAIN found : ~rsmp_sxl_cmd_is_active(found[i])}

\* Mutant: the refusal does not end the handler.
CommandRequest_exe_Goes(arg, found) ==
    IF arg = <<>> THEN Reaction(<<NotAck>>, FALSE, FALSE)
    ELSE Reaction((IF Inactive(found) # {} THEN <<NotAck>> ELSE <<>>)
                     \o <<Ack, CommandResponse_from_request(arg)>>, TRUE, FALSE)

\* Mutant: the commands are run as they are checked.
CommandRequest_exe_AsChecked(arg, found) ==
    IF arg = <<>> \/ \E i \in DOMAIN arg : found[i] \in {NoChild, "absent"}
    THEN Reaction(<<NotAck>>, \E i \in DOMAIN arg : found[i] = Handler, FALSE)
    ELSE Reaction(<<Ack, CommandResponse_from_request(arg)>>, TRUE, FALSE)

\* _rsmp_msg_CommandRequest_exe: all the arguments are checked before one is
\* executed; the acknowledgement leaves before the execution.
CommandRequest_exe(arg, found) ==
    IF arg = <<>> THEN Reaction(<<NotAck>>, FALSE, FALSE)
    ELSE IF Inactive(found) # {} THEN
        IF found[Min(Inactive(found))] = "crash" THEN Reaction(<<>>, FALSE, TRUE)
        ELSE Reaction(<<NotAck>>, FALSE, FALSE)
    ELSE IF \E i \in DOMAIN arg : rsmp_sxl_cmd_exe(found[i]) = "crash" THEN
        Reaction(<<Ack>>, rsmp_sxl_cmd_exe(found[1]) = "done", TRUE)
    ELSE Reaction(<<Ack, CommandResponse_from_request(arg)>>, TRUE, FALSE)

\* fct_GEN_S1, fct_GEN_S2: the names each knows (one of the four stands for all).
fct_GEN_S1 == {"Manufacturer"}
fct_GEN_S2 == {"Name"}

callbacks == <<[sigName |-> "GEN/S1", names |-> fct_GEN_S1],
               [sigName |-> "GEN/S2", names |-> fct_GEN_S2]>>

\* The signal that callbacks[j] is compared with is that of item j, and not of
\* the item to be answered: one callback answers all the items.  Beyond the
\* end of the array it is what lies in memory.
Compared(items, beyond, j) == IF j <= Len(items) THEN items[j].sCI ELSE beyond
Chosen(items, beyond) == {j \in DOMAIN callbacks : callbacks[j].sigName = Compared(items, beyond, j)}

\* The items whose names are among those, in their order.
Ascending(ns) ==
    CHOOSE s \in [1 .. Cardinality(ns) -> ns] : \A i, j \in DOMAIN s : i < j => s[i] < s[j]
At(items, ns) == [k \in DOMAIN Ascending(ns) |-> items[Ascending(ns)[k]]]
Named(items, names) == At(items, {i \in DOMAIN items : items[i].n \in names})

\* Mutant: each callback that matches answers, without the break.
Answered_NoBreak(items, beyond) ==
    FoldLeft(LAMBDA l, j : l \o Named(items, callbacks[j].names),
             <<>>, SetToSeq({j \in DOMAIN callbacks : \E i \in DOMAIN items : callbacks[j].sigName = items[i].sCI}))

\* Items of the response: those whose name the chosen callback knows.
Answered(items, beyond) ==
    IF Chosen(items, beyond) = {} THEN <<>>
    ELSE Named(items, callbacks[Min(Chosen(items, beyond))].names)

ReadsBeyond(items) == Len(items) = 1 /\ items[1].sCI # callbacks[1].sigName

\* _rsmp_msg_StatusRequest_exe: no acknowledgement, one response.
StatusRequest_exe(items, beyond) ==
    IF ReadsBeyond(items) /\ beyond = "crash" THEN Reaction(<<>>, FALSE, TRUE)
    ELSE Reaction(<<[type |-> "StatusResponse", sS |-> Answered(items, beyond)]>>, FALSE, FALSE)

\* The watchdog is acknowledged by external_receive itself.
Watchdog_exe == Reaction(<<Ack>>, FALSE, FALSE)

\* _rsmp_message_exe, of the types that a site does not expect.
message_exe(type) ==
    Reaction(IF rsmp_message_desc_ack(type) THEN <<NotAck>> ELSE <<>>, FALSE, FALSE)

-----------------------------------------------------------------------------
(* external_receive: one message is handled.                               *)

Reactions(m) ==
    CASE m.type = "CommandRequest" ->
            {CommandRequest_exe(m.arg, found) :
                found \in {f \in [DOMAIN m.arg -> {NoChild, Link, Handler, "absent", "crash"}] :
                              \A i \in DOMAIN m.arg : f[i] \in find_by_cCI(m.arg[i])}}
      [] m.type = "StatusRequest" ->
            {StatusRequest_exe(m.sS, beyond) : beyond \in {"crash", "GEN/S2", "GEN/S9"}}
      [] m.type = "Watchdog" -> {Watchdog_exe}
      [] OTHER -> {message_exe(m.type)}

Number == Len(taken) + 1

Handle(m) ==
    /\ ~crashed /\ Len(taken) < MaxMsgs
    /\ taken' = Append(taken, m)
    /\ \E o \in Reactions(m) :
          /\ sent' = sent \o [i \in DOMAIN o.msgs |-> [msg |-> o.msgs[i], to |-> Number]]
          /\ executed' = executed \union (IF o.ran THEN {Number} ELSE {})
          /\ crashed' = o.dies
    /\ UNCHANGED <<registry, adds>>

RequestsNext == (\E c \in Known : rsmp_sxl_cmd_add(c)) \/ (\E m \in Message : Handle(m))

RequestsSpec == RequestsInit /\ [][RequestsNext]_requests

-----------------------------------------------------------------------------
(* Properties.                                                             *)

AnswerTypes == {"MessageAck", "MessageNotAck", "CommandResponse", "StatusResponse"}

RequestsTypeOK ==
    /\ DOMAIN registry \subseteq Known /\ Range(registry) \subseteq {NoChild, Link, Handler}
    /\ taken \in Seq(Message) /\ Len(taken) <= MaxMsgs
    /\ \A i \in DOMAIN sent : sent[i].to \in DOMAIN taken /\ sent[i].msg.type \in AnswerTypes
    /\ executed \subseteq DOMAIN taken /\ adds \in 0 .. MaxAdds /\ crashed \in BOOLEAN

\* The answers to message k have these types: they were sent one behind the other.
AnsweredBy(k, types) ==
    \E at \in 0 .. Len(sent) :
        /\ {i \in DOMAIN sent : sent[i].to = k} = (at + 1) .. (at + Len(types))
        /\ \A j \in DOMAIN types : sent[at + j].msg.type = types[j]

FinalAnswers(type) ==
    CASE type = "CommandRequest" -> {<<"MessageNotAck">>, <<"MessageAck", "CommandResponse">>}
      [] type = "StatusRequest" -> {<<"StatusResponse">>}
      [] type = "Watchdog" -> {<<"MessageAck">>}
      [] type \in {"MessageAck", "MessageNotAck"} -> {<<>>}
      [] OTHER -> {<<"MessageNotAck">>}

\* Each request has one final answer: a refusal, alone; an acknowledgement and
\* then the response to the command; or the status.  Nothing answers an
\* answer (the exe handlers; only a crash cuts the answers short).
OneFinalAnswer ==
    \A k \in DOMAIN taken :
        \/ crashed /\ k = Len(taken)
        \/ \E types \in FinalAnswers(taken[k].type) : AnsweredBy(k, types)

Refused(k) == \E i \in DOMAIN sent : sent[i].to = k /\ sent[i].msg.type = "MessageNotAck"

\* A refused request has run none of its commands, and only commands that were
\* registered are run (the first loop of _rsmp_msg_CommandRequest_exe).
AllOrNothing == \A k \in executed : ~Refused(k) /\ Range(taken[k].arg) \subseteq Known

\* The statuses of a response were asked for, in that order, each once, with
\* sCI and n as in the request; and when all were asked of one signal, those
\* that its function knows are all there.
StatusAsAsked ==
    \A i \in DOMAIN sent : sent[i].msg.type = "StatusResponse" =>
        LET asked == taken[sent[i].to].sS
            given == sent[i].msg.sS
        IN  /\ \E kept \in SUBSET DOMAIN asked : given = At(asked, kept)
            /\ (\A p \in DOMAIN asked : asked[p].sCI = "GEN/S1") => given = Named(asked, fct_GEN_S1)

\* What the handlers promise of every request, whatever is registered meanwhile:
\* its answers and only those, run as a whole or not at all, with what was asked
\* (the exe handlers of rsmp/messages).
RequestsAreAnswered == RequestsTypeOK /\ OneFinalAnswer /\ AllOrNothing /\ StatusAsAsked

\* stat-request.c:133, "sCI et n à l'identique": each item that its own signal
\* knows is in the response.
EveryStatusAnswered ==
    \A i \in DOMAIN sent : sent[i].msg.type = "StatusResponse" =>
        \A p \in DOMAIN taken[sent[i].to].sS :
            LET it == taken[sent[i].to].sS[p]
            IN  (\E c \in Range(callbacks) : it.sCI = c.sigName /\ it.n \in c.names)
                    => it \in Range(sent[i].msg.sS)

\* sxl.h:90, "Une commande active est une commande SXL enregistrée et dont le
\* callback est non NULL": a request of registered commands is not refused.
RegisteredIsActive ==
    \A k \in DOMAIN taken :
        (taken[k].type = "CommandRequest" /\ taken[k].arg # <<>>
            /\ Range(taken[k].arg) \subseteq DOMAIN registry)
        => ~Refused(k)
=============================================================================
