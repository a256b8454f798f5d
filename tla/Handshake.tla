----------------------------- MODULE Handshake -----------------------------
(***************************************************************************)
(* The negotiation that opens a session: _start connects, the follower     *)
(* offers the ciphers it has enabled in a CipherAgreement, the leader      *)
(* answers with the one it keeps, and each side starts its threads with    *)
(* that cipher (cyber.c, cipher.c, transport.c, coder.c).  A side may be   *)
(* another implementation, whose messages are arbitrary or never come; the *)
(* connection may be lost at any step.                                     *)
(***************************************************************************)
EXTENDS Integers, Sequences, SequencesExt

CONSTANTS Follower, Leader,  \* the client and the incoming session of the server
          CipherTable,       \* CipherTable[s]: _cipher_list of s, weakest first
          NoCipher,          \* this->cipher is NULL
          Id, NoId,          \* site identifiers, and the NULL one
          ForeignLists,      \* lists of ciphers another implementation may send
          ForeignSets        \* the sides that are another implementation

Site == {Follower, Leader}
Peer(s) == IF s = Follower THEN Leader ELSE Follower
CipherOf(s) == {CipherTable[s][i] : i \in DOMAIN CipherTable[s]}
Cipher == CipherOf(Follower) \union CipherOf(Leader)

ASSUME SitesDiffer == Follower # Leader
ASSUME TableAssumption ==
    /\ CipherTable \in [Site -> Seq(Cipher)]
    /\ NoCipher \notin Cipher
    /\ \A s \in Site : \A i, j \in DOMAIN CipherTable[s] :
          CipherTable[s][i] = CipherTable[s][j] => i = j
ASSUME IdAssumption == NoId \notin Id
ASSUME ForeignAssumption ==
    /\ \A list \in ForeignLists : list \in Seq(Cipher)
    /\ ForeignSets \subseteq SUBSET Site

VARIABLES
    enabled,     \* enabled[s]: ciphers the command line of s left enabled
    sId_Local,   \* sId_Local[s]: identifier s announces
    sId_Remote,  \* sId_Remote[s]: identifier of the peer, NoId until known
    foreign,     \* the sides that are another implementation
    pc,          \* where _start of s is
    cipher,      \* this->cipher of s
    flux,        \* flux[s]: the end of s of the connection is open
    wire,        \* wire[s]: CipherAgreement messages written to s, not yet read
    cut          \* the connection was lost under both ends

config == <<enabled, sId_Local, foreign>>
vars == <<enabled, sId_Local, sId_Remote, foreign, pc, cipher, flux, wire, cut>>

CipherAgreement == [sId : Id, cipher : Seq(Cipher)]

TypeOK ==
    /\ enabled \in [Site -> SUBSET Cipher]
    /\ sId_Local \in [Site -> Id \union {NoId}]
    /\ sId_Remote \in [Site -> Id \union {NoId}]
    /\ foreign \in SUBSET Site
    /\ pc \in [Site -> {"idle", "offer", "wait", "agreed", "running",
                        "failed", "closed", "lost", "crashed"}]
    /\ cipher \in [Site -> Cipher \union {NoCipher}]
    /\ flux \in [Site -> BOOLEAN]
    /\ wire \in [Site -> Seq(CipherAgreement)]
    /\ cut \in BOOLEAN

(* The command line chose the ciphers and the identifiers; a server does   *)
(* not know who will connect.                                              *)
Init ==
    /\ enabled \in [Site -> SUBSET Cipher]
    /\ \A s \in Site : enabled[s] \subseteq CipherOf(s)
    /\ sId_Local \in [Site -> Id \union {NoId}]
    /\ \E expected \in Id :
          sId_Remote = [s \in Site |-> IF s = Follower THEN expected ELSE NoId]
    /\ foreign \in ForeignSets
    /\ pc = [s \in Site |-> "idle"]
    /\ cipher = [s \in Site |-> NoCipher]
    /\ flux = [s \in Site |-> FALSE]
    /\ wire = [s \in Site |-> <<>>]
    /\ cut = FALSE

-----------------------------------------------------------------------------
(* The cipher registry.                                                    *)

\* The list after a walk over the table of s, whose callback keeps some ciphers.
cipher_foreach(s, kept) ==
    LET list[i \in 0 .. Len(CipherTable[s])] ==
            IF i = 0 THEN <<>>
            ELSE IF CipherTable[s][i] \in kept THEN Append(list[i - 1], CipherTable[s][i])
            ELSE list[i - 1]
    IN  list[Len(CipherTable[s])]

\* Mutant: the walk runs one entry past the table.
OfferPastEnd(s) == Append(cipher_foreach(s, enabled[s]), NoCipher)

\* The list the follower offers: its enabled ciphers in table order.
cipher_foreach_cb(s) == cipher_foreach(s, enabled[s])

\* The entry of that name, or NULL.
cipher_get_by_str(s, name) == IF name \in CipherOf(s) THEN name ELSE NoCipher

-----------------------------------------------------------------------------
(* The connection.  What was written before the peer closed can still be   *)
(* read; a write towards a closed or lost end may fail or be swallowed.    *)

Unreachable(s) == cut \/ ~flux[Peer(s)]

\* wire after s wrote msg.
transport_payload_write(s, msg) ==
    IF Unreachable(s) THEN wire ELSE [wire EXCEPT ![Peer(s)] = Append(@, msg)]

\* Mutant: an orderly close by the peer is not an error of the read.
ClosedUnnoticed(s) == wire[s] = <<>> /\ cut

\* A payload is there to read; or the connection is closed and drained.  The
\* timeout is to_sec * 1000 with to_sec = -1: nothing else ends the wait.
transport_payload_read(s) == wire[s] # <<>>
ConnectionClosed(s) == wire[s] = <<>> /\ Unreachable(s)

-----------------------------------------------------------------------------
(* The messages.                                                           *)

\* Serialisation refuses a missing identifier and an empty list.
CipherAgreement_serial(s, list) == sId_Local[s] # NoId /\ list # <<>>

Agreement(s, list) == [sId |-> sId_Local[s], cipher |-> list]

\* Deserialisation refuses an empty list; the empty list also stands for a
\* payload that is no CipherAgreement.
CipherAgreement_deserial(msg) == msg.cipher # <<>>

\* Mutant: the identifier is not compared.
RemoteUnchecked(s, msg) == TRUE

\* The identifier in the message is the expected one, or the first known.
RemoteAccepted(s, msg) == sId_Remote[s] \in {NoId, msg.sId}

RemoteLearnt(s, msg) ==
    [sId_Remote EXCEPT ![s] = IF @ = NoId THEN msg.sId ELSE @]

-----------------------------------------------------------------------------
(* _start.                                                                 *)

Goto(s, label) == pc' = [pc EXCEPT ![s] = label]

\* _start returns at once without a local identifier, or when the transport
\* cannot open the connection.
StartFollower ==
    /\ pc[Follower] = "idle"
    /\ \/ Goto(Follower, "closed") /\ UNCHANGED flux
       \/ /\ sId_Local[Follower] # NoId
          /\ Goto(Follower, "offer")
          /\ flux' = [s \in Site |-> TRUE]
    /\ UNCHANGED <<config, sId_Remote, cipher, wire, cut>>

\* The listener accepted the connection and starts a session on it as
\* leader; without an identifier it is abandoned and its socket closed.
StartLeader ==
    /\ pc[Leader] = "idle" /\ flux[Leader]
    /\ \/ /\ sId_Local[Leader] = NoId
          /\ Goto(Leader, "closed")
          /\ flux' = [flux EXCEPT ![Leader] = FALSE]
       \/ sId_Local[Leader] # NoId /\ Goto(Leader, "wait") /\ UNCHANGED flux
    /\ UNCHANGED <<config, sId_Remote, cipher, wire, cut>>

\* cyber_exchange_follower, up to its wait: offer the enabled ciphers.
FollowerOffer ==
    LET list == cipher_foreach_cb(Follower)
    IN  /\ pc[Follower] = "offer" /\ Follower \notin foreign
        /\ \/ /\ ~CipherAgreement_serial(Follower, list) \/ Unreachable(Follower)
              /\ Goto(Follower, "failed") /\ UNCHANGED wire
           \/ /\ CipherAgreement_serial(Follower, list)
              /\ wire' = transport_payload_write(Follower, Agreement(Follower, list))
              /\ Goto(Follower, "wait")
        /\ UNCHANGED <<config, sId_Remote, cipher, flux, cut>>

\* Mutant: the answer is kept without looking whether it is enabled.
FollowerTrusts ==
    /\ pc[Follower] = "wait" /\ Follower \notin foreign
    /\ transport_payload_read(Follower)
    /\ cipher' = [cipher EXCEPT ![Follower] = Last(Append(Head(wire[Follower]).cipher, NoCipher))]
    /\ Goto(Follower, "agreed")
    /\ wire' = [wire EXCEPT ![Follower] = Tail(@)]
    /\ UNCHANGED <<config, sId_Remote, flux, cut>>

\* cyber_exchange_follower, from its wait: check the answer and keep its
\* cipher.  this->cipher is assigned before it is known to be enabled.
FollowerChoice ==
    /\ pc[Follower] = "wait" /\ Follower \notin foreign
    /\ transport_payload_read(Follower)
    /\ LET msg == Head(wire[Follower])
           chosen == cipher_get_by_str(Follower, Head(msg.cipher))
       IN  \/ /\ ~CipherAgreement_deserial(msg) \/ ~RemoteAccepted(Follower, msg)
              /\ Goto(Follower, "failed") /\ UNCHANGED <<sId_Remote, cipher>>
           \/ /\ CipherAgreement_deserial(msg) /\ RemoteAccepted(Follower, msg)
              /\ sId_Remote' = RemoteLearnt(Follower, msg)
              /\ \/ /\ Len(msg.cipher) # 1
                    /\ Goto(Follower, "failed") /\ UNCHANGED cipher
                 \/ /\ Len(msg.cipher) = 1
                    /\ cipher' = [cipher EXCEPT ![Follower] = chosen]
                    /\ Goto(Follower, IF chosen \in enabled[Follower]
                                      THEN "agreed" ELSE "failed")
    /\ wire' = [wire EXCEPT ![Follower] = Tail(@)]
    /\ UNCHANGED <<config, flux, cut>>

\* Mutant: the leader forgets to test that the cipher is enabled.
CommonUnchecked(offer) == {i \in DOMAIN offer : cipher_get_by_str(Leader, offer[i]) # NoCipher}

\* The places of the offer whose cipher the leader knows and has enabled.
Common(offer) ==
    {i \in DOMAIN offer : /\ cipher_get_by_str(Leader, offer[i]) # NoCipher
                          /\ offer[i] \in enabled[Leader]}

\* Mutant: the offer is searched from its beginning.
ChosenForwards(offer) == offer[Min(Common(offer))]

\* The offer is searched from its end.
Chosen(offer) == offer[Max(Common(offer))]

\* An error before sndPayload is declared jumps to a cleanup that frees the
\* uninitialised pointer: the process goes on or dies.
LeaderRefuses == Goto(Leader, "failed") \/ Goto(Leader, "crashed")

\* cyber_exchange_leader, from the offer to the memorised choice: the offer
\* is read from its end and its last valid cipher kept.
LeaderChoose ==
    /\ pc[Leader] = "wait" /\ Leader \notin foreign
    /\ transport_payload_read(Leader)
    /\ LET msg == Head(wire[Leader])
           unread == [wire EXCEPT ![Leader] = Tail(@)]
           answer == Agreement(Leader, <<Chosen(msg.cipher)>>)
       IN  \/ /\ ~CipherAgreement_deserial(msg) \/ ~RemoteAccepted(Leader, msg)
              /\ wire' = unread /\ LeaderRefuses /\ UNCHANGED <<sId_Remote, cipher>>
           \/ /\ CipherAgreement_deserial(msg) /\ RemoteAccepted(Leader, msg)
              /\ sId_Remote' = RemoteLearnt(Leader, msg)
              /\ \/ /\ Common(msg.cipher) = {}
                    /\ wire' = unread /\ LeaderRefuses /\ UNCHANGED cipher
                 \/ /\ Common(msg.cipher) # {}
                    /\ wire' = [transport_payload_write(Leader, answer)
                                  EXCEPT ![Leader] = Tail(@)]
                    /\ cipher' = [cipher EXCEPT ![Leader] = Chosen(msg.cipher)]
                    /\ Goto(Leader, "agreed")
                 \/ /\ Common(msg.cipher) # {} /\ Unreachable(Leader)
                    /\ wire' = unread /\ Goto(Leader, "failed") /\ UNCHANGED cipher
    /\ UNCHANGED <<config, flux, cut>>

\* The wait of either side ends on a closed connection.
WaitFails(s) ==
    /\ pc[s] = "wait" /\ s \notin foreign /\ ConnectionClosed(s)
    /\ IF s = Leader THEN LeaderRefuses ELSE Goto(s, "failed")
    /\ UNCHANGED <<config, sId_Remote, cipher, flux, wire, cut>>

\* Mutant: the transport is left open after the error.
StopForgotten(s) ==
    /\ pc[s] \in {"failed", "crashed"} /\ flux[s]
    /\ pc' = [pc EXCEPT ![s] = IF @ = "failed" THEN "closed" ELSE @]
    /\ UNCHANGED <<config, sId_Remote, cipher, flux, wire, cut>>

\* After an error _start sleeps inhib_s seconds and stops the transport; a
\* process that died has its connection closed by the system.
StopTransport(s) ==
    /\ pc[s] \in {"failed", "crashed"} /\ flux[s]
    /\ flux' = [flux EXCEPT ![s] = FALSE]
    /\ pc' = [pc EXCEPT ![s] = IF @ = "failed" THEN "closed" ELSE @]
    /\ UNCHANGED <<config, sId_Remote, cipher, wire, cut>>

\* _start creates the three threads of the session.
RunThreads(s) ==
    /\ pc[s] = "agreed"
    /\ Goto(s, "running")
    /\ UNCHANGED <<config, sId_Remote, cipher, flux, wire, cut>>

\* cyber_receive of a running session reads nothing from a closed connection
\* and stops it.
ReceiveLost(s) ==
    /\ pc[s] = "running" /\ ConnectionClosed(s)
    /\ Goto(s, "lost")
    /\ flux' = [flux EXCEPT ![s] = FALSE]
    /\ UNCHANGED <<config, sId_Remote, cipher, wire, cut>>

\* Another implementation sends any identifier with any list, once.
ForeignSend(s) ==
    /\ s \in foreign /\ pc[s] \in {"offer", "wait"}
    /\ \E id \in Id, list \in ForeignLists :
          wire' = transport_payload_write(s, [sId |-> id, cipher |-> list])
    /\ Goto(s, "agreed")
    /\ UNCHANGED <<config, sId_Remote, cipher, flux, cut>>

\* The connection breaks: what was in flight to a site arrives or not.
Cut ==
    /\ ~cut /\ flux[Follower] /\ flux[Leader]
    /\ cut' = TRUE
    /\ \E arrives \in SUBSET Site :
          wire' = [s \in Site |-> IF s \in arrives THEN wire[s] ELSE <<>>]
    /\ UNCHANGED <<config, sId_Remote, pc, cipher, flux>>

Exchange(s) == WaitFails(s) \/ StopTransport(s) \/ RunThreads(s) \/ ReceiveLost(s)

Next ==
    \/ StartFollower \/ StartLeader
    \/ FollowerOffer \/ FollowerChoice \/ LeaderChoose
    \/ \E s \in Site : Exchange(s) \/ ForeignSend(s)
    \/ Cut

Spec == Init /\ [][Next]_vars

\* Every thread of the program is eventually scheduled; another
\* implementation owes nothing and the connection need not break.
FairSpec ==
    /\ Spec
    /\ WF_vars(StartLeader) /\ WF_vars(FollowerOffer)
    /\ WF_vars(FollowerChoice) /\ WF_vars(LeaderChoose)
    /\ \A s \in Site : WF_vars(Exchange(s))

-----------------------------------------------------------------------------
(* Properties.                                                             *)

Open == {"agreed", "running", "lost"}

\* A follower that holds an agreement holds the cipher its leader memorised,
\* and both have it enabled: cyber_exchange_follower never keeps an answer
\* the leader did not commit to, whatever was lost on the way.
CipherAgreed ==
    foreign = {} /\ pc[Follower] \in Open =>
        /\ cipher[Leader] = cipher[Follower]
        /\ cipher[Follower] \in enabled[Follower] \intersect enabled[Leader]

\* Whatever the peer sent, no session of the program is opened on a cipher
\* its own command line disabled.
NeverDisabledCipher ==
    \A s \in Site \ foreign : pc[s] \in Open => cipher[s] \in enabled[s]

\* The cipher both open on is the strongest both allow: no common cipher comes
\* later in the table of the follower (the leader reads the offer backwards).
StrongestCommon ==
    foreign = {} /\ pc[Follower] \in Open =>
        \A i, j \in DOMAIN CipherTable[Follower] :
            /\ CipherTable[Follower][i] = cipher[Follower]
            /\ CipherTable[Follower][j] \in enabled[Follower] \intersect enabled[Leader]
            => j <= i

\* A side with an agreement knows the identifier its peer announced; for the
\* follower this is the one it was configured with.
KnownPeer ==
    \A s \in Site : foreign = {} /\ pc[s] \in Open =>
        sId_Remote[s] = sId_Local[Peer(s)]

\* What a negotiation promises in every state: a session of the program opens
\* on the strongest cipher both allow, with the peer it knows, or not at all
\* (cyber_exchange_follower, cyber_exchange_leader).
Negotiated ==
    TypeOK /\ CipherAgreed /\ NeverDisabledCipher /\ StrongestCommon /\ KnownPeer

-----------------------------------------------------------------------------
(* Why it does: the ciphers enabled are entries of the table, what is on   *)
(* its way between two instances of the program is the one offer and the   *)
(* one answer, and the answer is what the leader has settled on.           *)

Configured ==
    \A s \in Site : /\ enabled[s] \subseteq CipherOf(s)
                    /\ pc[s] \in {"offer", "wait"} => sId_Local[s] # NoId

Offer == cipher_foreach_cb(Follower)
Messages(s) == {wire[s][i] : i \in DOMAIN wire[s]}

InTransit ==
    foreign = {} =>
        /\ \A msg \in Messages(Leader) : msg = Agreement(Follower, Offer)
        /\ \A msg \in Messages(Follower) :
              pc[Leader] \in Open /\ msg = Agreement(Leader, <<cipher[Leader]>>)

Settled ==
    foreign = {} =>
        /\ pc[Leader] \in Open => Common(Offer) # {} /\ cipher[Leader] = Chosen(Offer)
        /\ pc[Follower] \in Open => pc[Leader] \in Open /\ cipher[Follower] = cipher[Leader]

HandshakeInv ==
    TypeOK /\ Configured /\ InTransit /\ Settled /\ NeverDisabledCipher /\ KnownPeer

\* Between two instances of this program no negotiation waits for ever, even
\* when the connection breaks or a side refuses: every refusal closes.
HandshakeEnds ==
    \A s \in Site : (foreign = {} /\ pc[s] = "wait") ~> (pc[s] # "wait")

\* No half-open session: when a side gives up, is lost or dies, the threads of
\* the other side notice and stop.
NoHalfOpenSession ==
    \A s \in Site :
        (foreign = {} /\ pc[s] \in {"closed", "lost", "crashed"})
            ~> (pc[Peer(s)] \notin {"wait", "running"})

\* cyber.c:238 gives the reception of the CipherAgreement 10 seconds; to_sec is
\* -1 and the wait has no end when the peer sends nothing.
CipherAgreementTimeout ==
    \A s \in Site : (s \notin foreign /\ pc[s] = "wait") ~> (pc[s] # "wait")

\* cyber.c:239 has the connection dropped after an error in the exchange; the
\* cleanup of the leader frees an uninitialised pointer instead of returning.
RefusalOnlyDropsConnection == pc[Leader] # "crashed"
=============================================================================
