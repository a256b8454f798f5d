-------------------------- MODULE VersionExchange --------------------------
(***************************************************************************)
(* The application on top of two encrypted sessions: when the AllClears    *)
(* have crossed, callback_cyber_ready exchanges the versions in a thread of*)
(* the session, then creates the thread external_receive, which sends the  *)
(* watchdogs and answers what arrives (main.c, messages.c).  Waits may time*)
(* out, the session may be stopped at any moment; the channel is FIFO, as  *)
(* TCP and the queues of the session are.                                  *)
(***************************************************************************)
EXTENDS Integers, Sequences

CONSTANTS Follower, Leader,
          MaxTimeouts,  \* bound: waits of the exchange that time out
          MaxSent       \* bound: messages external_receive or its caller send

Site == {Follower, Leader}
Peer(s) == IF s = Follower THEN Leader ELSE Follower

VARIABLES
    allClearRxed,  \* allClearRxed[s]: s processed the AllClear of its peer
    phase,         \* phase[s]: where echange_versions of s is
    ext,           \* ext[s]: the thread external_receive of s runs
    stop,          \* stop[s]: priv->stop of the session of s
    link,          \* the connection is open
    net,           \* net[s]: messages on their way to s
    external_q,    \* external_q[s]: external messages s received
    sent,          \* sent[s]: kinds of the messages s sent; the n-th has mId n
    version,       \* version[s]: mId of the Version s sent, 0 before
    timeouts,      \* waits that timed out so far
    handledLate    \* a message was handled by a session already stopped

vars == <<allClearRxed, phase, ext, stop, link, net, external_q, sent, version,
          timeouts, handledLate>>

\* The messages main exchanges; a StatusUpdate stands for every other message
\* that asks for an acknowledgement and has no handler of its own.
Kind == {"AllClear", "Version", "MessageAck", "MessageNotAck", "Watchdog", "StatusUpdate"}
Msg == [kind : Kind, mId : Nat, oMId : Nat]

\* The messages whose descriptor asks for an acknowledgement.
AckWanted == {"Version", "Watchdog", "StatusUpdate"}

\* Mutant: both sides wait for the Version of the other first.
ScriptSymmetric(s) == <<"waitVersion", "sendVersion", "waitAck", "ready">>

\* The follower speaks first; the leader acknowledges before it speaks.
Script(s) == IF s = Leader THEN <<"waitVersion", "sendVersion", "waitAck", "ready">>
                           ELSE <<"sendVersion", "waitAck", "waitVersion", "ready">>
Phases == {"idle", "waitVersion", "sendVersion", "waitAck", "ready", "failed"}

TypeOK ==
    /\ allClearRxed \in [Site -> BOOLEAN]
    /\ phase \in [Site -> Phases]
    /\ ext \in [Site -> BOOLEAN]
    /\ stop \in [Site -> BOOLEAN] /\ link \in BOOLEAN
    /\ net \in [Site -> Seq(Msg)]
    /\ external_q \in [Site -> Seq(Msg)]
    /\ sent \in [Site -> Seq(Kind)] /\ version \in [Site -> Nat]
    /\ timeouts \in Nat /\ handledLate \in BOOLEAN

\* The challenges are over and each side has sent its AllClear.
Init ==
    /\ allClearRxed = [s \in Site |-> FALSE]
    /\ phase = [s \in Site |-> "idle"]
    /\ ext = [s \in Site |-> FALSE]
    /\ stop = [s \in Site |-> FALSE] /\ link = TRUE
    /\ net = [s \in Site |-> <<[kind |-> "AllClear", mId |-> 0, oMId |-> 0]>>]
    /\ external_q = [s \in Site |-> <<>>]
    /\ sent = [s \in Site |-> <<>>] /\ version = [s \in Site |-> 0]
    /\ timeouts = 0 /\ handledLate = FALSE

-----------------------------------------------------------------------------
(* Sending and receiving.                                                  *)

\* sendMessage: _send accepts the message once both AllClears crossed, even on
\* a stopped session, where nothing takes it out of send_q any more.
sendMessage(s, kind, oMId) ==
    /\ sent' = [sent EXCEPT ![s] = Append(@, kind)]
    /\ net' = IF stop[s] \/ ~link THEN net
              ELSE [net EXCEPT ![Peer(s)] =
                      Append(@, [kind |-> kind, mId |-> Len(sent[s]) + 1, oMId |-> oMId])]

\* cyber_receive puts an external message in external_q; an AllClear opens the
\* session, and the internal task starts the exchange.
Receive(s) ==
    /\ ~stop[s] /\ net[s] # <<>>
    /\ net' = [net EXCEPT ![s] = Tail(@)]
    /\ \/ /\ Head(net[s]).kind = "AllClear"
          /\ allClearRxed' = [allClearRxed EXCEPT ![s] = TRUE]
          /\ UNCHANGED external_q
       \/ /\ Head(net[s]).kind # "AllClear"
          /\ external_q' = [external_q EXCEPT ![s] = Append(@, Head(net[s]))]
          /\ UNCHANGED allClearRxed
    /\ UNCHANGED <<phase, ext, stop, link, sent, version, timeouts, handledLate>>

-----------------------------------------------------------------------------
(* echange_versions.                                                       *)

NextPhase(s) ==
    LET i == CHOOSE k \in 1 .. 3 : Script(s)[k] = phase[s]
    IN  [phase EXCEPT ![s] = Script(s)[i + 1]]

Fail(s) == phase' = [phase EXCEPT ![s] = "failed"]

callback_cyber_ready(s) ==
    /\ phase[s] = "idle" /\ allClearRxed[s] /\ ~stop[s]
    /\ phase' = [phase EXCEPT ![s] = Script(s)[1]]
    /\ UNCHANGED <<allClearRxed, ext, stop, link, net, external_q, sent, version,
                   timeouts, handledLate>>

\* The result of sending the Version is not looked at.
SendVersion(s) ==
    /\ phase[s] = "sendVersion"
    /\ sendMessage(s, "Version", 0)
    /\ version' = [version EXCEPT ![s] = Len(sent[s]) + 1]
    /\ phase' = NextPhase(s)
    /\ UNCHANGED <<allClearRxed, ext, stop, link, external_q, timeouts, handledLate>>

\* sendVersionAndWaitAck takes the next external message, whatever it is; an
\* acknowledgement is accepted whatever it acknowledges.
WaitAck(s) ==
    /\ phase[s] = "waitAck" /\ external_q[s] # <<>>
    /\ external_q' = [external_q EXCEPT ![s] = Tail(@)]
    /\ IF Head(external_q[s]).kind = "MessageAck" THEN phase' = NextPhase(s) ELSE Fail(s)
    /\ UNCHANGED <<allClearRxed, ext, stop, link, net, sent, version, timeouts, handledLate>>

\* Mutant: the oMId of the acknowledgement is left cleared.
AckNoId(s) ==
    /\ phase[s] = "waitVersion" /\ external_q[s] # <<>>
    /\ external_q' = [external_q EXCEPT ![s] = Tail(@)]
    /\ sendMessage(s, "MessageAck", 0) /\ phase' = NextPhase(s)
    /\ UNCHANGED <<allClearRxed, ext, stop, link, version, timeouts, handledLate>>

\* waitVersionAndSendAck takes the next external message; only a Version is
\* acknowledged.
WaitVersion(s) ==
    /\ phase[s] = "waitVersion" /\ external_q[s] # <<>>
    /\ external_q' = [external_q EXCEPT ![s] = Tail(@)]
    /\ \/ /\ Head(external_q[s]).kind = "Version"
          /\ sendMessage(s, "MessageAck", Head(external_q[s]).mId)
          /\ phase' = NextPhase(s)
       \/ Head(external_q[s]).kind # "Version" /\ Fail(s) /\ UNCHANGED <<net, sent>>
    /\ UNCHANGED <<allClearRxed, ext, stop, link, version, timeouts, handledLate>>

\* The wait of 30 seconds ends without a message, or because of stop: the
\* callback returns, the session stays as it is.
WaitTimeout(s) ==
    /\ phase[s] \in {"waitAck", "waitVersion"} /\ external_q[s] = <<>>
    /\ \/ stop[s] /\ UNCHANGED timeouts
       \/ ~stop[s] /\ timeouts < MaxTimeouts /\ timeouts' = timeouts + 1
    /\ Fail(s)
    /\ UNCHANGED <<allClearRxed, ext, stop, link, net, external_q, sent, version, handledLate>>

\* Mutant: the thread of the application does not wait for the exchange.
StartAtOnce(s) ==
    /\ allClearRxed[s] /\ ~ext[s]
    /\ ext' = [ext EXCEPT ![s] = TRUE]
    /\ UNCHANGED <<allClearRxed, phase, stop, link, net, external_q, sent, version,
                   timeouts, handledLate>>

\* The exchange succeeded: the thread of the application is created.
StartExternal(s) ==
    /\ phase[s] = "ready" /\ ~ext[s]
    /\ ext' = [ext EXCEPT ![s] = TRUE]
    /\ UNCHANGED <<allClearRxed, phase, stop, link, net, external_q, sent, version,
                   timeouts, handledLate>>

-----------------------------------------------------------------------------
(* external_receive.                                                       *)

\* A watchdog every period while the session runs; the application above may
\* send other messages.
SendPeriodic(s) ==
    /\ ext[s] /\ ~stop[s] /\ Len(sent[s]) < MaxSent
    /\ \E kind \in {"Watchdog", "StatusUpdate"} : sendMessage(s, kind, 0)
    /\ UNCHANGED <<allClearRxed, phase, ext, stop, link, external_q, version, timeouts,
                   handledLate>>

\* Mutant: the default callback refuses every message, acknowledgements too.
AnswerAlways(kind) == IF kind = "Watchdog" THEN "MessageAck" ELSE "MessageNotAck"

\* A watchdog is acknowledged; the default callback refuses what asks for an
\* acknowledgement and ignores acknowledgements.
Answer(kind) == CASE kind = "Watchdog" -> "MessageAck"
                  [] kind \in AckWanted \ {"Watchdog"} -> "MessageNotAck"
                  [] OTHER -> "none"

Handle(s) ==
    /\ ext[s] /\ external_q[s] # <<>>
    /\ LET msg == Head(external_q[s])
       IN  IF Answer(msg.kind) = "none" THEN UNCHANGED <<net, sent>>
           ELSE sendMessage(s, Answer(msg.kind), msg.mId)
    /\ external_q' = [external_q EXCEPT ![s] = Tail(@)]
    /\ handledLate' = (handledLate \/ stop[s])
    /\ UNCHANGED <<allClearRxed, phase, ext, stop, link, version, timeouts>>

\* Mutant: the missing watchdog is logged and nothing else.
WatchdogLogged(s) ==
    /\ ext[s] /\ ~stop[s] /\ external_q[s] = <<>>
    /\ UNCHANGED <<allClearRxed, phase, ext, stop, link, net, external_q, sent, version,
                   timeouts, handledLate>>

\* Nothing but a watchdog every 90 seconds keeps the session: a peer whose
\* thread of the application does not run is silent.
WatchdogTimeout(s) ==
    /\ ext[s] /\ ~stop[s] /\ external_q[s] = <<>>
    /\ phase[Peer(s)] = "failed" \/ stop[Peer(s)]
    /\ stop' = [stop EXCEPT ![s] = TRUE]
    /\ link' = FALSE
    /\ UNCHANGED <<allClearRxed, phase, ext, net, external_q, sent, version, timeouts,
                   handledLate>>

\* cyber_receive finds the connection closed and stops the session.
Closed(s) ==
    /\ ~link /\ ~stop[s]
    /\ stop' = [stop EXCEPT ![s] = TRUE]
    /\ UNCHANGED <<allClearRxed, phase, ext, link, net, external_q, sent, version, timeouts,
                   handledLate>>

\* The connection breaks.
Break ==
    /\ link
    /\ link' = FALSE
    /\ UNCHANGED <<allClearRxed, phase, ext, stop, net, external_q, sent, version, timeouts,
                   handledLate>>

Exchange(s) ==
    callback_cyber_ready(s) \/ SendVersion(s) \/ WaitAck(s) \/ WaitVersion(s)
        \/ StartExternal(s)

Next ==
    \/ \E s \in Site : \/ Receive(s) \/ Exchange(s) \/ WaitTimeout(s)
                       \/ SendPeriodic(s) \/ Handle(s) \/ WatchdogTimeout(s) \/ Closed(s)
    \/ Break

Spec == Init /\ [][Next]_vars

\* The threads are scheduled; a wait ends when the session is stopped, and the
\* watchdog timer of a running application expires.
Fairness ==
    \A s \in Site :
        /\ WF_vars(Receive(s)) /\ WF_vars(Exchange(s)) /\ WF_vars(Handle(s))
        /\ WF_vars(stop[s] /\ WaitTimeout(s))
        /\ WF_vars(WatchdogTimeout(s)) /\ WF_vars(Closed(s))

FairSpec == Spec /\ Fairness

-----------------------------------------------------------------------------
(* Properties.                                                             *)

InFlight(s) == {net[s][i] : i \in DOMAIN net[s]}
                 \union {external_q[s][i] : i \in DOMAIN external_q[s]}

\* The MessageAck that ends the wait of sendVersionAndWaitAck, which compares
\* no identifier, is always the answer to the Version of that side.
AckIsForVersion ==
    \A s \in Site : phase[s] = "waitAck" /\ external_q[s] # <<>> =>
        /\ Head(external_q[s]).kind = "MessageAck"
        /\ Head(external_q[s]).oMId = version[s]

\* A watchdog, which external_receive sends as soon as it runs, never arrives
\* in place of the Version its peer still waits for.
VersionArrivesFirst ==
    \A s \in Site : phase[s] = "waitVersion" /\ external_q[s] # <<>> =>
        Head(external_q[s]).kind = "Version"

\* Answers answer: what is acknowledged or refused was sent, is answered once,
\* and is no answer itself, so that two applications never feed each other.
AnswersAreFinal ==
    \A s \in Site : \A m \in InFlight(s) : m.kind \in {"MessageAck", "MessageNotAck"} =>
        /\ m.oMId \in DOMAIN sent[s] /\ sent[s][m.oMId] \in AckWanted
        /\ \A n \in InFlight(s) : n.kind \in {"MessageAck", "MessageNotAck"} /\ n.oMId = m.oMId
              => n = m

\* What the exchange promises in every state: each wait, which takes whatever
\* comes, meets the message it is for, and no answer is answered
\* (echange_versions, external_receive).
ExchangeInOrder == TypeOK /\ AckIsForVersion /\ VersionArrivesFirst /\ AnswersAreFinal

-----------------------------------------------------------------------------
(* Why it does, whatever is lost and whenever a side stops: the messages   *)
(* that a side has not dealt with are numbered without a gap, the first    *)
(* two of each side are those of its script, and a side has taken and sent *)
(* as many as the phase it is in says.                                     *)

Answers == {"MessageAck", "MessageNotAck"}
Exchanging == {"idle", "waitVersion", "sendVersion", "waitAck"}

\* The messages s has not dealt with, in the order they were sent.
Stream(s) == external_q[s] \o net[s]

\* What s sends arrives.
Heard(s) == link /\ ~stop[s]

\* The messages an exchanging s has sent; the number of the one due to it next,
\* the AllClear being number 0.
Said(s) ==
    CASE phase[s] = "idle"        -> 0
      [] phase[s] = "waitVersion" -> IF s = Leader THEN 0 ELSE 1
      [] phase[s] = "sendVersion" -> IF s = Leader THEN 1 ELSE 0
      [] phase[s] = "waitAck"     -> IF s = Leader THEN 2 ELSE 1
Due(s) ==
    IF ~allClearRxed[s] THEN 0
    ELSE IF phase[s] \in (IF s = Leader THEN {"sendVersion", "waitAck"} ELSE {"waitVersion"})
         THEN 2 ELSE 1

Opening(s) == IF s = Leader THEN <<"MessageAck", "Version">> ELSE <<"Version", "MessageAck">>

Scripted(s) ==
    /\ \A i \in 1 .. 2 : i <= Len(sent[s]) => sent[s][i] = Opening(s)[i]
    /\ phase[s] \in Exchanging => Len(sent[s]) = Said(s)
    /\ phase[s] = "ready" => Len(sent[s]) >= 2
    /\ phase[s] = "waitAck" => version[s] = Len(sent[s])
    /\ ext[s] => phase[s] = "ready"
    /\ phase[s] # "idle" => allClearRxed[s]

\* The messages of a stream are consecutive messages of out, from which they come.
Consecutive(stream, out) ==
    \A i \in 1 .. Len(stream) :
        /\ stream[i].mId = stream[1].mId + i - 1
        /\ stream[i].kind = "AllClear" <=> stream[i].mId = 0
        /\ stream[i].mId > 0 => stream[i].mId <= Len(out) /\ out[stream[i].mId] = stream[i].kind

Unread(s) ==
    /\ Consecutive(Stream(s), sent[Peer(s)])
    /\ Heard(Peer(s)) /\ Stream(s) # <<>> =>
          Stream(s)[1].mId + Len(Stream(s)) = Len(sent[Peer(s)]) + 1
    /\ phase[s] \in Exchanging =>
          /\ Stream(s) # <<>> => Stream(s)[1].mId = Due(s)
          /\ Heard(Peer(s)) => Due(s) + Len(Stream(s)) = Len(sent[Peer(s)]) + 1

\* The answers of a stream answer messages of out that ask for it, in their
\* order, and none that is still in the stream back.
Answering(stream, out, back) ==
    \A i \in 1 .. Len(stream) : stream[i].kind \in Answers =>
        /\ stream[i].oMId \in 1 .. Len(out) /\ out[stream[i].oMId] \in AckWanted
        /\ stream[i].mId <= 2 => stream[i].oMId = stream[i].mId
        /\ \A k \in 1 .. Len(back) : back[k].mId > 0 => back[k].mId > stream[i].oMId
        /\ \A j \in 1 .. Len(stream) : j > i /\ stream[j].kind \in Answers =>
              stream[j].oMId > stream[i].oMId

Traffic ==
    \A s \in Site : Unread(s) /\ Answering(Stream(s), sent[s], Stream(Peer(s)))

ExchangeInv == TypeOK /\ (\A s \in Site : Scripted(s)) /\ Traffic

\* With no timeout and no break both applications end up running.
BothRun == (\A s \in Site : allClearRxed[s])
              ~> (\/ \A s \in Site : ext[s]
                  \/ timeouts > 0 \/ ~link)

\* A side that runs does not stay with a peer whose exchange failed: the
\* watchdog ends the session on both sides.
NoOneSidedSession ==
    \A s \in Site : (ext[s] /\ phase[Peer(s)] = "failed")
        ~> (stop[s] /\ stop[Peer(s)])

\* main.c:506, "ne pas traiter le message si en phase d'arrêt": no message is
\* handled once the session is stopped.
NotHandledWhenStopped == ~handledLate
=============================================================================
