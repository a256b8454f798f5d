-------------------------- MODULE ChallengeSession --------------------------
(***************************************************************************)
(* The encrypted session between two gateways: the Challenge that renews   *)
(* the password of a login, the AllClear exchange that opens the session   *)
(* to the application, and what happens to them when the connection drops, *)
(* the response is late or a process dies (cyber.c, coder.c, auth.c).      *)
(*                                                                         *)
(* Each site runs three threads per session: cyber_send encrypts what is   *)
(* in send_q and writes it, cyber_receive decrypts what arrives and feeds  *)
(* internal_q, cyber_receive_internal handles internal_q and starts        *)
(* challenges.  The application thread enters through _send.  Each action  *)
(* below is one iteration, or one handler, of one of these threads.        *)
(***************************************************************************)
EXTENDS Integers, Sequences, FiniteSets

CONSTANTS Follower, Leader,  \* the two sites: client and server
          LoginSeq,          \* the logins of a site's TO list, in insertion order
          Pwd, NoPwd,        \* passwords, and the absence of one
          NoLogin,           \* the NULL login
          MIdCount,          \* number of message ids (a uuid is never reused soon)
          ExpiringSites,     \* the sites whose passwords reach the renewal age
          ExternalSites,     \* the sites whose application sends messages
          MaxFaults,         \* bound: connection and payload losses, crashes, early timeouts
          MaxOutgoing        \* bound: messages waiting before the application adds one

Site == {Follower, Leader}
Login == {LoginSeq[i] : i \in DOMAIN LoginSeq}
MId == 0 .. MIdCount - 1

ASSUME SiteAssumption == Follower # Leader
ASSUME LoginAssumption ==
    /\ LoginSeq \in Seq(Login)
    /\ LoginSeq # <<>>
    /\ NoLogin \notin Login
    /\ \A i, j \in DOMAIN LoginSeq : LoginSeq[i] = LoginSeq[j] => i = j
ASSUME PwdsAssumption == NoPwd \notin Pwd
ASSUME MIdAssumption == MIdCount \in Nat /\ MIdCount > 1
ASSUME BoundAssumption == MaxFaults \in Nat /\ MaxOutgoing \in Nat
ASSUME RoleAssumption == ExpiringSites \subseteq Site /\ ExternalSites \subseteq Site

Peer(s) == IF s = Follower THEN Leader ELSE Follower

VARIABLES
    to,           \* to[s][l]: TO entry of s for its own login l: pwd and new_pwd
    expired,      \* expired[s][l]: the TO entry is older than the renewal period
    from,         \* from[s][l]: FROM entry of s for the peer's login l: its pwd
    disk,         \* disk[s]: what auth.db of s holds
    to_secret,    \* to_secret[s][l]: password the cached secret was derived from
    from_secret,  \* idem for the FROM entries
    live,         \* live[s]: s has a session and priv->stop is unset
    link,         \* both ends of the connection are open
    challenge_ctxt,               \* challenge_ctxt[s]
    allClearRxed, allClearSent,   \* flags of s's session
    send_q,       \* send_q[s]: messages waiting for cyber_send of s
    net,          \* net[s]: messages written by s and not yet read by its peer
    internal_q,   \* internal_q[s]: decrypted internal messages of s
    internal_pc,  \* where cyber_receive_internal of s is in its loop
    app,          \* app[s]: login chosen by an ongoing _send of s, or NoLogin
    faults        \* faults so far

stores == <<to, expired, from, disk>>
secrets == <<to_secret, from_secret>>
flags == <<allClearRxed, allClearSent>>
queues == <<send_q, net, internal_q>>
vars == <<stores, secrets, live, link, challenge_ctxt, flags, queues, internal_pc, app, faults>>

-----------------------------------------------------------------------------
(* Messages.  A plaintext message has a type, the mId it carries or answers *)
(* and, for a request the proposed password, for a response the status.    *)

AllClear == [type |-> "AllClear", mId |-> 0, arg |-> NoPwd]
ChangePwdRequest(id, p) == [type |-> "ChangePwdRequest", mId |-> id, arg |-> p]
ChangePwdResponse(id, status) == [type |-> "ChangePwdResponse", mId |-> id, arg |-> status]
Ping(id) == [type |-> "Ping", mId |-> id, arg |-> NoPwd]
Pong(id) == [type |-> "Pong", mId |-> id, arg |-> NoPwd]
External == [type |-> "External", mId |-> 0, arg |-> NoPwd]

Plaintext ==
    [type : {"ChangePwdRequest"}, mId : MId, arg : Pwd]
      \cup [type : {"ChangePwdResponse"}, mId : MId, arg : BOOLEAN]
      \cup [type : {"AllClear", "Ping", "Pong", "External"}, mId : MId, arg : {NoPwd}]
Element == [key : Pwd \cup {NoPwd}, ptxt : Plaintext]
Elements == Seq(Element) \ {<<>>}

(* An entry of send_q: with flag_do_encrypt the only element is still in   *)
(* clear (no key) and the login may be NULL; without, it is a Challenge,   *)
(* encrypted when it was built.                                            *)
SendEntry == [flag_do_encrypt : BOOLEAN, login : Login \cup {NoLogin}, data : Elements]
Encrypted == [login : Login, data : Elements]
Internal == [login : Login, ptxt : Plaintext]

ToEntry == [pwd : Pwd, new_pwd : Pwd \cup {NoPwd}]
Context == [login : Login \cup {NoLogin}, toSend : BOOLEAN, running : BOOLEAN, mId : MId]
NoChallenge == [login |-> NoLogin, toSend |-> FALSE, running |-> FALSE, mId |-> 0]
InProgress(s) == challenge_ctxt[s].toSend \/ challenge_ctxt[s].running

TypeOK ==
    /\ to \in [Site -> [Login -> ToEntry]]
    /\ expired \in [Site -> [Login -> BOOLEAN]]
    /\ from \in [Site -> [Login -> Pwd]]
    /\ disk \in [Site -> [to : [Login -> ToEntry], from : [Login -> Pwd]]]
    /\ to_secret \in [Site -> [Login -> Pwd \cup {NoPwd}]]
    /\ from_secret \in [Site -> [Login -> Pwd \cup {NoPwd}]]
    /\ live \in [Site -> BOOLEAN]
    /\ link \in BOOLEAN
    /\ challenge_ctxt \in [Site -> Context]
    /\ allClearRxed \in [Site -> BOOLEAN]
    /\ allClearSent \in [Site -> BOOLEAN]
    /\ send_q \in [Site -> Seq(SendEntry)]
    /\ net \in [Site -> Seq(Encrypted)]
    /\ internal_q \in [Site -> Seq(Internal)]
    /\ internal_pc \in [Site -> {"wait", "initiate", "launch", "done"}]
    /\ app \in [Site -> Login \cup {NoLogin}]
    /\ faults \in 0 .. MaxFaults

-----------------------------------------------------------------------------
(* The credential store.                                                   *)

Pending(s, l) == to[s][l].new_pwd # NoPwd

(* auth_get_first reads the list from its tail; auth_get_next_from_auth    *)
(* goes on circularly, and has no answer when there is one login.          *)
FirstLogin == LoginSeq[Len(LoginSeq)]
NextLogin == IF Len(LoginSeq) = 1 THEN NoLogin ELSE LoginSeq[1]

(* coder_secret_get: the cached derivation, else one from the current pwd. *)
ToKey(s, l) == IF to_secret[s][l] # NoPwd THEN to_secret[s][l] ELSE to[s][l].pwd
FromKey(s, l) == IF from_secret[s][l] # NoPwd THEN from_secret[s][l] ELSE from[s][l]

(* Mutant: the save is forgotten.                                          *)
auth_db_to_file_Skipped(s, t, f) == UNCHANGED disk

(* auth_db_to_file writes both bases, at the end of every change.          *)
auth_db_to_file(s, t, f) == disk' = [disk EXCEPT ![s] = [to |-> t, from |-> f]]

(* Mutant: a password is drawn although one is pending.                    *)
auth_get_new_pwd_Redraws(s, l, p) ==
    /\ p \in Pwd \ {to[s][l].pwd}
    /\ to' = [to EXCEPT ![s][l].new_pwd = p]
    /\ auth_db_to_file(s, to'[s], from[s])

(* auth_get_new_pwd_b64: draws a password unless one is pending, and saves. *)
auth_get_new_pwd(s, l, p) ==
    /\ IF Pending(s, l) THEN p = to[s][l].new_pwd ELSE p \in Pwd \ {to[s][l].pwd}
    /\ to' = [to EXCEPT ![s][l].new_pwd = p]
    /\ auth_db_to_file(s, to'[s], from[s])

(* Mutant: the secret derived from the replaced password stays.            *)
auth_set_pwd_KeepsSecret(s, l, p) ==
    /\ from' = [from EXCEPT ![s][l] = p]
    /\ auth_db_to_file(s, to[s], from'[s])
    /\ UNCHANGED from_secret

(* auth_set_pwd_b64, then auth_secret_delete_by_key.                       *)
auth_set_pwd(s, l, p) ==
    /\ from' = [from EXCEPT ![s][l] = p]
    /\ auth_db_to_file(s, to[s], from'[s])
    /\ from_secret' = [from_secret EXCEPT ![s][l] = NoPwd]

(* Mutants: the secret of the old password stays; the new password is      *)
(* forgotten before it is copied.                                          *)
auth_switch_to_new_pwd_KeepsSecret(s, l) ==
    /\ to' = [to EXCEPT ![s][l] = [pwd |-> to[s][l].new_pwd, new_pwd |-> NoPwd]]
    /\ expired' = [expired EXCEPT ![s][l] = FALSE]
    /\ auth_db_to_file(s, to'[s], from[s])
    /\ UNCHANGED to_secret
auth_switch_to_new_pwd_ForgetsFirst(s, l) ==
    /\ to' = [to EXCEPT ![s][l] = [pwd |-> NoPwd, new_pwd |-> NoPwd]]
    /\ expired' = [expired EXCEPT ![s][l] = FALSE]
    /\ auth_db_to_file(s, to'[s], from[s])
    /\ to_secret' = [to_secret EXCEPT ![s][l] = NoPwd]

(* auth_switch_to_new_pwd with auth_forget_new_pwd, then                   *)
(* auth_secret_delete_by_key.                                              *)
auth_switch_to_new_pwd(s, l) ==
    /\ to' = [to EXCEPT ![s][l] = [pwd |-> to[s][l].new_pwd, new_pwd |-> NoPwd]]
    /\ expired' = [expired EXCEPT ![s][l] = FALSE]
    /\ auth_db_to_file(s, to'[s], from[s])
    /\ to_secret' = [to_secret EXCEPT ![s][l] = NoPwd]

(* Time: an entry becomes older than three quarters of its validity period.   *)
Expire(s, l) ==
    /\ s \in ExpiringSites
    /\ ~expired[s][l]
    /\ expired' = [expired EXCEPT ![s][l] = TRUE]
    /\ UNCHANGED <<to, from, disk, secrets, live, link, challenge_ctxt, flags, queues,
                   internal_pc, app, faults>>

-----------------------------------------------------------------------------
(* cyber_send: encrypts with the password current at that moment.          *)

Clear(login, m) ==
    [flag_do_encrypt |-> TRUE, login |-> login, data |-> <<[key |-> NoPwd, ptxt |-> m]>>]

(* _send_optional_encryption pushes on send_q.                             *)
PushOut(s, e) == send_q' = [send_q EXCEPT ![s] = Append(@, e)]

(* coder_auth_get for an encryption: a NULL login means the first one.     *)
SendLogin(e) == IF e.login = NoLogin THEN FirstLogin ELSE e.login

Encrypted_write(s, e) ==
    [login |-> SendLogin(e),
     data  |-> IF e.flag_do_encrypt
                 THEN <<[key |-> ToKey(s, SendLogin(e)), ptxt |-> e.data[1].ptxt]>>
                 ELSE e.data]

cyber_send(s) ==
    /\ live[s]
    /\ send_q[s] # <<>>
    /\ LET e == Head(send_q[s])
       IN  /\ net' = IF link THEN [net EXCEPT ![s] = Append(@, Encrypted_write(s, e))] ELSE net
           /\ to_secret' = IF e.flag_do_encrypt
                             THEN [to_secret EXCEPT ![s][SendLogin(e)] = ToKey(s, SendLogin(e))]
                             ELSE to_secret
    /\ send_q' = [send_q EXCEPT ![s] = Tail(@)]
    /\ UNCHANGED <<stores, from_secret, live, link, challenge_ctxt, flags, internal_q,
                   internal_pc, app, faults>>

-----------------------------------------------------------------------------
(* cyber_receive: Encrypted_decode keeps the elements the current secret   *)
(* opens; internal messages go to internal_q, external ones to the         *)
(* application.                                                            *)

Opened(k, e, i) ==
    IF i \in DOMAIN e.data /\ e.data[i].key = k /\ e.data[i].ptxt.type # "External"
      THEN <<[login |-> e.login, ptxt |-> e.data[i].ptxt]>>
      ELSE <<>>

Encrypted_decode(s, e) ==
    LET k == FromKey(s, e.login) IN Opened(k, e, 1) \o Opened(k, e, 2)

cyber_receive(s) ==
    /\ live[s]
    /\ net[Peer(s)] # <<>>
    /\ LET e == Head(net[Peer(s)])
       IN  /\ internal_q' = [internal_q EXCEPT ![s] = @ \o Encrypted_decode(s, e)]
           /\ from_secret' = [from_secret EXCEPT ![s][e.login] = FromKey(s, e.login)]
    /\ net' = [net EXCEPT ![Peer(s)] = Tail(@)]
    /\ UNCHANGED <<stores, to_secret, live, link, challenge_ctxt, flags, send_q,
                   internal_pc, app, faults>>

-----------------------------------------------------------------------------
(* cyber_receive_internal: one message through cyber_process_internal_msg, *)
(* then initiateChallenge.  In "wait" the thread has tested priv->stop and *)
(* waits for a message: it completes that iteration even when the session  *)
(* is stopped meanwhile, then ends.  The call of initiateChallenge in the  *)
(* handlers of a response and of a Pong is the one of InternalInitiate,    *)
(* which no other step of the thread precedes: the second call that the    *)
(* loop makes right after it finds nothing left to do.                     *)

Dequeue(s) ==
    /\ internal_pc[s] = "wait"
    /\ internal_q[s] # <<>>
    /\ internal_q' = [internal_q EXCEPT ![s] = Tail(@)]
    /\ internal_pc' = [internal_pc EXCEPT ![s] = "initiate"]

HandleAllClear(s) ==
    /\ Dequeue(s)
    /\ Head(internal_q[s]).ptxt.type = "AllClear"
    /\ allClearRxed' = [allClearRxed EXCEPT ![s] = TRUE]
    /\ UNCHANGED <<stores, secrets, live, link, challenge_ctxt, allClearSent, send_q, net,
                   app, faults>>

(* Mutant: never busy.                                                     *)
CanAccept_Always(s) == TRUE

(* The status of a response: busy when an own challenge is running and     *)
(* neither of the two logins looked at is free.                            *)
CanAccept(s) ==
    \/ ~InProgress(s)
    \/ ~Pending(s, FirstLogin)
    \/ NextLogin # NoLogin /\ ~Pending(s, NextLogin)

(* Mutant: the password is replaced before the busy test.                  *)
HandleChangePwdRequest_SetsFirst(s) ==
    /\ Dequeue(s)
    /\ LET i == Head(internal_q[s])
       IN  /\ i.ptxt.type = "ChangePwdRequest"
           /\ auth_set_pwd(s, i.login, i.ptxt.arg)
           /\ PushOut(s, Clear(NoLogin, ChangePwdResponse(i.ptxt.mId, CanAccept(s))))
    /\ UNCHANGED <<to, expired, to_secret, live, link, challenge_ctxt, flags, net, app, faults>>

HandleChangePwdRequest(s) ==
    /\ Dequeue(s)
    /\ LET i == Head(internal_q[s])
       IN  /\ i.ptxt.type = "ChangePwdRequest"
           /\ IF CanAccept(s)
                THEN auth_set_pwd(s, i.login, i.ptxt.arg)
                ELSE UNCHANGED <<from, disk, from_secret>>
           /\ PushOut(s, Clear(NoLogin, ChangePwdResponse(i.ptxt.mId, CanAccept(s))))
    /\ UNCHANGED <<to, expired, to_secret, live, link, challenge_ctxt, flags, net, app, faults>>

(* A response or a Pong counts when it answers the running challenge.      *)
Answers(s, m) ==
    /\ challenge_ctxt[s].running
    /\ m.mId = challenge_ctxt[s].mId

Finish(s) == challenge_ctxt' = [challenge_ctxt EXCEPT ![s].running = FALSE]

HandleChangePwdResponse(s) ==
    /\ Dequeue(s)
    /\ LET m == Head(internal_q[s]).ptxt
       IN  /\ m.type = "ChangePwdResponse"
           /\ \/ /\ Answers(s, m)
                 /\ m.arg = TRUE
                 /\ auth_switch_to_new_pwd(s, challenge_ctxt[s].login)
                 /\ Finish(s)
              \/ /\ Answers(s, m)
                 /\ m.arg = FALSE
                 /\ Finish(s)
                 /\ UNCHANGED <<to, expired, disk, to_secret>>
              \/ /\ ~Answers(s, m)
                 /\ UNCHANGED <<to, expired, disk, to_secret, challenge_ctxt>>
    /\ UNCHANGED <<from, from_secret, live, link, flags, send_q, net, app, faults>>

HandlePing(s) ==
    /\ Dequeue(s)
    /\ LET m == Head(internal_q[s]).ptxt
       IN  /\ m.type = "Ping"
           /\ PushOut(s, Clear(NoLogin, Pong(m.mId)))
    /\ UNCHANGED <<stores, secrets, live, link, challenge_ctxt, flags, net, app, faults>>

HandlePong(s) ==
    /\ Dequeue(s)
    /\ LET m == Head(internal_q[s]).ptxt
       IN  /\ m.type = "Pong"
           /\ \/ /\ Answers(s, m)
                 /\ auth_switch_to_new_pwd(s, challenge_ctxt[s].login)
                 /\ Finish(s)
              \/ /\ ~Answers(s, m)
                 /\ UNCHANGED <<to, expired, disk, to_secret, challenge_ctxt>>
    /\ UNCHANGED <<from, from_secret, live, link, flags, send_q, net, app, faults>>

-----------------------------------------------------------------------------
(* initiateChallenge.                                                      *)

(* searchLoginForChallenge: a login is due when a renewal is unfinished or *)
(* its password is old; the list is walked from its head.                  *)
Due(s) == {i \in DOMAIN LoginSeq : Pending(s, LoginSeq[i]) \/ expired[s][LoginSeq[i]]}

(* Mutants: the Ping is under the current password too; there is no Ping.  *)
Challenge_PingUnderCurrent(s, l, p, id) ==
    [flag_do_encrypt |-> FALSE, login |-> l,
     data |-> <<[key |-> ToKey(s, l), ptxt |-> ChangePwdRequest(id, p)],
                [key |-> ToKey(s, l), ptxt |-> Ping(id)]>>]
Challenge_NoPing(s, l, p, id) ==
    [flag_do_encrypt |-> FALSE, login |-> l,
     data |-> <<[key |-> ToKey(s, l), ptxt |-> ChangePwdRequest(id, p)]>>]

(* Challenge_encode: the request under the current password, a Ping under  *)
(* the new one, in one Encrypted message.                                  *)
Challenge(s, l, p, id) ==
    [flag_do_encrypt |-> FALSE, login |-> l,
     data |-> <<[key |-> ToKey(s, l), ptxt |-> ChangePwdRequest(id, p)],
                [key |-> p, ptxt |-> Ping(id)]>>]

NextMId(s) == (challenge_ctxt[s].mId + 1) % MIdCount

(* Mutant: Challenge_encode does not set running, which then comes with    *)
(* Launch only, after the challenge was queued.                            *)
Encoded_NotRunning(l, id) == [login |-> l, toSend |-> TRUE, running |-> FALSE, mId |-> id]

(* The context that searchLoginForChallenge and Challenge_encode leave.    *)
Encoded(l, id) == [login |-> l, toSend |-> TRUE, running |-> TRUE, mId |-> id]

(* The challenge is encoded, which sets running, then queued; its timer is *)
(* armed in a step of its own, the peer may have answered by then.         *)
StartChallenge(s) ==
    \E i \in Due(s) :
      /\ \A j \in Due(s) : i <= j
      /\ LET l == LoginSeq[i]
         IN  /\ \E p \in Pwd : /\ auth_get_new_pwd(s, l, p)
                               /\ PushOut(s, Challenge(s, l, p, NextMId(s)))
             /\ to_secret' = [to_secret EXCEPT ![s][l] = ToKey(s, l)]
             /\ challenge_ctxt' = [challenge_ctxt EXCEPT ![s] = Encoded(l, NextMId(s))]
      /\ internal_pc' = [internal_pc EXCEPT ![s] = "launch"]
      /\ UNCHANGED allClearSent

(* sendAllClear, once per session, when no login is due.                   *)
SendAllClear(s) ==
    /\ IF allClearSent[s] THEN UNCHANGED send_q ELSE PushOut(s, Clear(NoLogin, AllClear))
    /\ allClearSent' = [allClearSent EXCEPT ![s] = TRUE]
    /\ challenge_ctxt' = [challenge_ctxt EXCEPT ![s].login = NoLogin]
    /\ UNCHANGED <<to, disk, to_secret>>

(* The loop test.                                                          *)
Loop(s) == internal_pc' = [internal_pc EXCEPT ![s] = IF live[s] THEN "wait" ELSE "done"]

(* Mutant: a challenge is started although one is running.                 *)
initiateChallenge_WhileRunning(s) ==
    \/ Due(s) = {} /\ SendAllClear(s) /\ Loop(s)
    \/ Due(s) # {} /\ StartChallenge(s)

initiateChallenge(s) ==
    \/ /\ challenge_ctxt[s].running
       /\ Loop(s)
       /\ UNCHANGED <<to, disk, to_secret, challenge_ctxt, allClearSent, send_q>>
    \/ /\ ~challenge_ctxt[s].running
       /\ Due(s) = {}
       /\ SendAllClear(s)
       /\ Loop(s)
    \/ /\ ~challenge_ctxt[s].running
       /\ Due(s) # {}
       /\ StartChallenge(s)

(* The end of an iteration that handled a message.                         *)
InternalInitiate(s) ==
    /\ internal_pc[s] = "initiate"
    /\ initiateChallenge(s)
    /\ UNCHANGED <<expired, from, from_secret, live, link, allClearRxed, net, internal_q, app,
                   faults>>

(* An iteration whose wait for a message timed out.                        *)
InternalIdle(s) ==
    /\ internal_pc[s] = "wait"
    /\ internal_q[s] = <<>>
    /\ initiateChallenge(s)
    /\ UNCHANGED <<expired, from, from_secret, live, link, allClearRxed, net, internal_q, app,
                   faults>>

(* The end of initiateChallenge once the challenge is queued: the timer is *)
(* armed.                                                                  *)
Launch(s) ==
    /\ internal_pc[s] = "launch"
    /\ challenge_ctxt' = [challenge_ctxt EXCEPT ![s].toSend = FALSE, ![s].running = TRUE]
    /\ Loop(s)
    /\ UNCHANGED <<stores, secrets, live, link, flags, queues, app, faults>>

-----------------------------------------------------------------------------
(* The application's _send: it chooses a login, then queues the message.   *)

Available(s) ==
    live[s] /\ allClearRxed[s] /\ allClearSent[s] /\ ~challenge_ctxt[s].running

InChallenge(s, l) == InProgress(s) /\ challenge_ctxt[s].login = l

(* The login _send ends up with, NoLogin when it refuses.                  *)
ChosenLogin(s, login) ==
    IF login # NoLogin
      THEN IF Pending(s, login) THEN NoLogin ELSE login
      ELSE IF ~InChallenge(s, FirstLogin) THEN FirstLogin
           ELSE IF NextLogin # NoLogin /\ ~Pending(s, NextLogin) THEN NextLogin
           ELSE NoLogin

SendChoose(s) ==
    /\ s \in ExternalSites
    /\ allClearRxed[s] /\ allClearSent[s]
    /\ app[s] = NoLogin
    /\ Len(send_q[s]) + Len(net[s]) < MaxOutgoing
    /\ \E login \in Login \cup {NoLogin} : app' = [app EXCEPT ![s] = ChosenLogin(s, login)]
    /\ UNCHANGED <<stores, secrets, live, link, challenge_ctxt, flags, queues, internal_pc,
                   faults>>

SendPush(s) ==
    /\ app[s] # NoLogin
    /\ PushOut(s, Clear(app[s], External))
    /\ app' = [app EXCEPT ![s] = NoLogin]
    /\ UNCHANGED <<stores, secrets, live, link, challenge_ctxt, flags, net, internal_q,
                   internal_pc, faults>>

-----------------------------------------------------------------------------
(* Sessions and faults.                                                    *)

(* _stop: closes the connection.  The queues are not flushed; cyber_send   *)
(* writes nothing more and a new session has queues of its own.            *)
Stop(s) ==
    /\ live' = [live EXCEPT ![s] = FALSE]
    /\ link' = FALSE

(* Nothing on its way can end s's challenge any more.                      *)
Quiet(s) ==
    /\ link
    /\ \A t \in Site : /\ send_q[t] = <<>> /\ net[t] = <<>> /\ internal_q[t] = <<>>
                       /\ internal_pc[t] = "wait"

(* handler_timeout_challenge, once Launch has armed the timer.  A timeout  *)
(* while an answer may still come is a fault: the network or the peer took *)
(* longer than the delay.                                                  *)
ChallengeTimeout(s) ==
    /\ live[s]
    /\ challenge_ctxt[s].running /\ ~challenge_ctxt[s].toSend
    /\ Quiet(s) \/ faults < MaxFaults
    /\ faults' = IF Quiet(s) THEN faults ELSE faults + 1
    /\ Stop(s)
    /\ UNCHANGED <<stores, secrets, challenge_ctxt, flags, queues, internal_pc, app>>

(* The network drops the connection; each end notices by itself.           *)
ConnectionBreaks ==
    /\ link
    /\ faults < MaxFaults
    /\ faults' = faults + 1
    /\ link' = FALSE
    /\ UNCHANGED <<stores, secrets, live, challenge_ctxt, flags, queues, internal_pc, app>>

(* cyber_receive reads an error from the transport and calls _stop; what   *)
(* had arrived and was not read is lost.                                   *)
ConnectionLost(s) ==
    /\ live[s]
    /\ ~link
    /\ Stop(s)
    /\ net' = [net EXCEPT ![Peer(s)] = <<>>]
    /\ UNCHANGED <<stores, secrets, challenge_ctxt, flags, send_q, internal_q, internal_pc, app,
                   faults>>

(* A pause of more than a second inside a payload: the read gives up, the  *)
(* part already read is dropped and the rest is no payload.                *)
PayloadCut(s) ==
    /\ live[s]
    /\ net[Peer(s)] # <<>>
    /\ faults < MaxFaults
    /\ faults' = faults + 1
    /\ net' = [net EXCEPT ![Peer(s)] = Tail(@)]
    /\ UNCHANGED <<stores, secrets, live, link, challenge_ctxt, flags, send_q, internal_q,
                   internal_pc, app>>

(* Mutant: the columns of the new password are not read.                   *)
Reload_ForgetsPending(s) ==
    /\ to' = [to EXCEPT ![s] = [l \in Login |-> [disk[s].to[l] EXCEPT !.new_pwd = NoPwd]]]
    /\ from' = [from EXCEPT ![s] = disk[s].from]
    /\ to_secret' = [to_secret EXCEPT ![s] = [l \in Login |-> NoPwd]]
    /\ from_secret' = [from_secret EXCEPT ![s] = [l \in Login |-> NoPwd]]

(* Loading auth.db in a new process.                                       *)
Reload(s) ==
    /\ to' = [to EXCEPT ![s] = disk[s].to]
    /\ from' = [from EXCEPT ![s] = disk[s].from]
    /\ to_secret' = [to_secret EXCEPT ![s] = [l \in Login |-> NoPwd]]
    /\ from_secret' = [from_secret EXCEPT ![s] = [l \in Login |-> NoPwd]]

(* The process of s dies; a new one would find what auth.db holds.         *)
Crash(s) ==
    /\ faults < MaxFaults
    /\ faults' = faults + 1
    /\ Stop(s)
    /\ Reload(s)
    /\ internal_pc' = [internal_pc EXCEPT ![s] = "done"]
    /\ send_q' = [send_q EXCEPT ![s] = <<>>]
    /\ internal_q' = [internal_q EXCEPT ![s] = <<>>]
    /\ app' = [app EXCEPT ![s] = NoLogin]
    /\ challenge_ctxt' = [challenge_ctxt EXCEPT ![s] = NoChallenge]
    /\ allClearRxed' = [allClearRxed EXCEPT ![s] = FALSE]
    /\ allClearSent' = [allClearSent EXCEPT ![s] = FALSE]
    /\ UNCHANGED <<expired, disk, net>>

(* A new follower process connects and the cipher agreement succeeds: both *)
(* sites have a new session.  The previous threads of the leader are done. *)
(* A process makes one session and does not try again when it is lost, so  *)
(* this is a step of whoever stops and starts it: possible, never due.     *)
Connect ==
    /\ \A s \in Site : ~live[s] /\ internal_pc[s] = "done"
    /\ live' = [s \in Site |-> TRUE]
    /\ link' = TRUE
    /\ Reload(Follower)
    /\ challenge_ctxt' = [s \in Site |-> NoChallenge]
    /\ allClearRxed' = [s \in Site |-> FALSE]
    /\ allClearSent' = [s \in Site |-> FALSE]
    /\ send_q' = [s \in Site |-> <<>>]
    /\ net' = [s \in Site |-> <<>>]
    /\ internal_q' = [s \in Site |-> <<>>]
    /\ internal_pc' = [s \in Site |-> "wait"]
    /\ app' = [s \in Site |-> NoLogin]
    /\ UNCHANGED <<expired, disk, faults>>

-----------------------------------------------------------------------------
(* auth.db as it is installed: every login shared by the two sites.        *)
Init ==
    /\ \E p \in [Site -> [Login -> Pwd]] :
         /\ to = [s \in Site |-> [l \in Login |-> [pwd |-> p[s][l], new_pwd |-> NoPwd]]]
         /\ from = [s \in Site |-> p[Peer(s)]]
    /\ disk = [s \in Site |-> [to |-> to[s], from |-> from[s]]]
    /\ expired = [s \in Site |-> [l \in Login |-> FALSE]]
    /\ to_secret = [s \in Site |-> [l \in Login |-> NoPwd]]
    /\ from_secret = [s \in Site |-> [l \in Login |-> NoPwd]]
    /\ live = [s \in Site |-> FALSE]
    /\ link = FALSE
    /\ challenge_ctxt = [s \in Site |-> NoChallenge]
    /\ allClearRxed = [s \in Site |-> FALSE]
    /\ allClearSent = [s \in Site |-> FALSE]
    /\ send_q = [s \in Site |-> <<>>]
    /\ net = [s \in Site |-> <<>>]
    /\ internal_q = [s \in Site |-> <<>>]
    /\ internal_pc = [s \in Site |-> "done"]
    /\ app = [s \in Site |-> NoLogin]
    /\ faults = 0

HandleMessage(s) ==
    \/ HandleAllClear(s)
    \/ HandleChangePwdRequest(s)
    \/ HandleChangePwdResponse(s)
    \/ HandlePing(s)
    \/ HandlePong(s)

Next ==
    \/ \E s \in Site :
         \/ \E l \in Login : Expire(s, l)
         \/ cyber_send(s)
         \/ cyber_receive(s)
         \/ HandleMessage(s)
         \/ InternalInitiate(s)
         \/ InternalIdle(s)
         \/ Launch(s)
         \/ SendChoose(s)
         \/ SendPush(s)
         \/ ChallengeTimeout(s)
         \/ ConnectionLost(s)
         \/ PayloadCut(s)
         \/ Crash(s)
    \/ ConnectionBreaks
    \/ Connect

Spec == Init /\ [][Next]_vars

(* Every thread keeps being scheduled, a broken connection is noticed and  *)
(* the timer of an unanswered challenge fires.  No new session is promised: *)
(* callback_cyber_lost only logs, and the follower waits to be stopped.     *)
Fairness ==
    /\ \A s \in Site :
         /\ WF_vars(cyber_send(s))
         /\ WF_vars(cyber_receive(s))
         /\ WF_vars(HandleMessage(s))
         /\ WF_vars(InternalInitiate(s))
         /\ WF_vars(InternalIdle(s))
         /\ WF_vars(Launch(s))
         /\ WF_vars(Quiet(s) /\ ChallengeTimeout(s))
         /\ WF_vars(ConnectionLost(s))

FairSpec == Spec /\ Fairness

-----------------------------------------------------------------------------
(* Safety.                                                                 *)

(* The store of a site is what its auth.db holds, and a challenge in       *)
(* progress has a password to switch to.                                   *)
Durable == \A s \in Site : disk[s] = [to |-> to[s], from |-> from[s]]
RunningPending ==
    \A s \in Site :
        /\ InProgress(s) =>
               challenge_ctxt[s].login \in Login /\ Pending(s, challenge_ctxt[s].login)
        /\ challenge_ctxt[s].toSend <=> internal_pc[s] = "launch"

(* What makes TypeOK inductive: auth_switch_to_new_pwd copies new_pwd, so  *)
(* the challenge a response answers must have one, also when a process was *)
(* restarted from its auth.db meanwhile.                                   *)
StoreInv == TypeOK /\ Durable /\ RunningPending

(* The peer's FROM entry of a login holds the password the owner uses or   *)
(* the one it is proposing, whatever was lost, stopped or restarted        *)
(* between auth_set_pwd_b64 on one side and auth_switch_to_new_pwd on the  *)
(* other: a renewal never locks a login out.                               *)
CredentialAgreement ==
    \A s \in Site, l \in Login :
        \/ from[Peer(s)][l] = to[s][l].pwd
        \/ Pending(s, l) /\ from[Peer(s)][l] = to[s][l].new_pwd

(* A site that calls itself available (cyber_isAvailable) has every login  *)
(* in step with its peer: what it encrypts with any of them can be read.   *)
(* It rests on Challenge_encode setting running before the challenge is    *)
(* queued: the assignment of initiateChallenge comes after.                *)
AcceptedWhenAvailable ==
    \A s \in Site : Available(s) => \A l \in Login : from[Peer(s)][l] = to[s][l].pwd

(* Messages to s of the given type at the head of the connection.          *)
Arriving(s, type) ==
    live[s] /\ net[Peer(s)] # <<>> /\ Head(net[Peer(s)]).data[1].ptxt.type = type

Readable(s) ==
    LET e == Head(net[Peer(s)]) IN e.data[1].key = FromKey(s, e.login)

(* An AllClear can be decrypted when it arrives: it is sent once per       *)
(* session, so one that Encrypted_decode drops would leave the peer closed *)
(* to its application for ever (sendAllClear, initiateChallenge).          *)
AllClearReadable == \A s \in Site : Arriving(s, "AllClear") => Readable(s)

(* Messages by the type of the first thing they carry, in each of the      *)
(* queues they go through.                                                 *)
EntryOf(types) == {e \in SendEntry : e.data[1].ptxt.type \in types}
SentOf(types) == {m \in Encrypted : m.data[1].ptxt.type \in types}
ReadOf(types) == {i \in Internal : i.ptxt.type \in types}

RequestType == {"ChangePwdRequest"}
AnswerType == {"ChangePwdResponse", "Pong"}
Index(q, S) == {i \in DOMAIN q : q[i] \in S}

(* The places where s's challenge or its answer is on its way.             *)
ChallengeOnItsWay(s) ==
    {<<"send_q", i>> : i \in Index(send_q[s], EntryOf(RequestType))}
      \cup {<<"net", i>> : i \in Index(net[s], SentOf(RequestType))}
      \cup {<<"internal_q", i>> : i \in Index(internal_q[Peer(s)], ReadOf(RequestType \cup {"Ping"}))}
AnswerOnItsWay(s) ==
    {<<"send_q", i>> : i \in Index(send_q[Peer(s)], EntryOf(AnswerType))}
      \cup {<<"net", i>> : i \in Index(net[Peer(s)], SentOf(AnswerType))}
      \cup {<<"internal_q", i>> : i \in Index(internal_q[s], ReadOf(AnswerType))}

(* A challenge gets one answer, the request's or the Ping's, and no second *)
(* challenge is issued before it: initiateChallenge, Challenge_encode and  *)
(* Encrypted_decode together never put two of them in flight, and none is  *)
(* in flight once the challenge is over.                                   *)
OneAnswerPerChallenge ==
    \A s \in Site :
        /\ Cardinality(ChallengeOnItsWay(s)) + Cardinality(AnswerOnItsWay(s)) <= 1
        /\ live[s] /\ ~InProgress(s) =>
               ChallengeOnItsWay(s) \cup AnswerOnItsWay(s) = {}

(* When a busy response is handled, the peer still has the old password:   *)
(* forgetting the proposed one at that moment would be without risk, as    *)
(* the comment of the busy branch claims.                                  *)
BusyLeavesPassword ==
    \A s \in Site :
        (/\ internal_q[s] # <<>>
         /\ Head(internal_q[s]).ptxt.type = "ChangePwdResponse"
         /\ Head(internal_q[s]).ptxt.arg = FALSE
         /\ Answers(s, Head(internal_q[s]).ptxt))
          => from[Peer(s)][challenge_ctxt[s].login] = to[s][challenge_ctxt[s].login].pwd

(* A cached secret is derived from the current password: every change of a *)
(* password is followed by auth_secret_delete_by_key in the same handler.  *)
SecretsCurrent ==
    \A s \in Site, l \in Login :
        /\ to_secret[s][l] \in {NoPwd, to[s][l].pwd}
        /\ from_secret[s][l] \in {NoPwd, from[s][l]}

(* The return path: a response and a Pong can be decrypted by the site     *)
(* that waits for them, a response as long as there was no fault.          *)
ResponseReadable ==
    faults = 0 => \A s \in Site : Arriving(s, "ChangePwdResponse") => Readable(s)
PongReadable == \A s \in Site : Arriving(s, "Pong") => Readable(s)

(* A message the application handed to _send can be decrypted by the peer. *)
ExternalReadable == \A s \in Site : Arriving(s, "External") => Readable(s)

-----------------------------------------------------------------------------
(* What makes the properties above inductive.  The challenge of a site is  *)
(* one token that goes through six places: queued, written and read as a   *)
(* challenge, then queued, written and read as an answer.                  *)

Has(q, S) == Index(q, S) # {}
Once(q, S) == \A i, j \in Index(q, S) : i = j
Elems(q) == {q[i] : i \in DOMAIN q}

At(s, k) ==
    \/ k = 1 /\ Has(send_q[s], EntryOf(RequestType))
    \/ k = 2 /\ Has(net[s], SentOf(RequestType))
    \/ k = 3 /\ Has(internal_q[Peer(s)], ReadOf(RequestType \cup {"Ping"}))
    \/ k = 4 /\ Has(send_q[Peer(s)], EntryOf(AnswerType))
    \/ k = 5 /\ Has(net[Peer(s)], SentOf(AnswerType))
    \/ k = 6 /\ Has(internal_q[s], ReadOf(AnswerType))

OnceAt(s, k) ==
    /\ k = 1 => Once(send_q[s], EntryOf(RequestType))
    /\ k = 2 => Once(net[s], SentOf(RequestType))
    /\ k = 3 => Once(internal_q[Peer(s)], ReadOf(RequestType \cup {"Ping"}))
    /\ k = 4 => Once(send_q[Peer(s)], EntryOf(AnswerType))
    /\ k = 5 => Once(net[Peer(s)], SentOf(AnswerType))
    /\ k = 6 => Once(internal_q[s], ReadOf(AnswerType))

NoToken(s) == \A k \in 1 .. 6 : ~At(s, k)
OneToken(s) ==
    /\ \A k \in 1 .. 6 : OnceAt(s, k)
    /\ \A j \in 1 .. 6 : At(s, j) => \A k \in 1 .. 6 : At(s, k) => j = k

(* A site without a challenge that could start one, or that announced that *)
(* none is due, has no token.                                              *)
Settled(s) ==
    /\ challenge_ctxt[s].toSend => challenge_ctxt[s].running
    /\ live[s] => internal_pc[s] # "done"
    /\ ~challenge_ctxt[s].running /\ (internal_pc[s] # "done" \/ allClearSent[s]) => NoToken(s)

(* The password proposed is not the current one: of the two elements of a  *)
(* challenge the peer opens one.                                           *)
NewPwdDiffers == \A s \in Site, l \in Login : to[s][l].new_pwd # to[s][l].pwd

(* What a queue of s may hold: messages of one element that is no          *)
(* challenge, or the challenge of the passwords as they are.               *)
SingleType == AnswerType \cup {"AllClear", "External"}
IsChallenge(s, l, data) ==
    /\ Pending(s, l)
    /\ \E id \in MId :
         data = <<[key |-> to[s][l].pwd, ptxt |-> ChangePwdRequest(id, to[s][l].new_pwd)],
                  [key |-> to[s][l].new_pwd, ptxt |-> Ping(id)]>>
EntryShape(s, e) ==
    IF e.flag_do_encrypt THEN Len(e.data) = 1 /\ e.data[1].ptxt.type \in SingleType
                         ELSE e.login \in Login /\ IsChallenge(s, e.login, e.data)
SentShape(s, m) ==
    \/ Len(m.data) = 1 /\ m.data[1].ptxt.type \in SingleType
    \/ IsChallenge(s, m.login, m.data)

(* What s has read of a challenge of its peer says which password s has.   *)
ReadShape(s, i) ==
    LET entry == to[Peer(s)][i.login]
    IN  /\ i.ptxt.type = "ChangePwdRequest" =>
             /\ entry.new_pwd # NoPwd /\ i.ptxt.arg = entry.new_pwd
             /\ from[s][i.login] = entry.pwd
        /\ i.ptxt.type = "Ping" => entry.new_pwd # NoPwd /\ from[s][i.login] = entry.new_pwd

Shapes(s) ==
    /\ \A e \in Elems(send_q[s]) : EntryShape(s, e)
    /\ \A m \in Elems(net[s]) : SentShape(s, m)
    /\ \A i \in Elems(internal_q[s]) : ReadShape(s, i)

(* A token is of the login in progress, and an answer tells which of its   *)
(* passwords the peer has.                                                 *)
AnswerTrue(s, m) ==
    LET l == challenge_ctxt[s].login
    IN  /\ (m.type = "Pong" \/ (m.type = "ChangePwdResponse" /\ m.arg = TRUE))
             => from[Peer(s)][l] = to[s][l].new_pwd
        /\ m.type = "ChangePwdResponse" /\ m.arg = FALSE
             => from[Peer(s)][l] = to[s][l].pwd

Matching(s) ==
    LET l == challenge_ctxt[s].login
    IN  challenge_ctxt[s].running =>
          /\ \A e \in Elems(send_q[s]) : e \in EntryOf(RequestType) => e.login = l
          /\ \A m \in Elems(net[s]) : m \in SentOf(RequestType) => m.login = l
          /\ \A i \in Elems(internal_q[Peer(s)]) :
               i \in ReadOf(RequestType \cup {"Ping"}) => i.login = l
          /\ \A e \in Elems(send_q[Peer(s)]) : AnswerTrue(s, e.data[1].ptxt)
          /\ \A m \in Elems(net[Peer(s)]) : AnswerTrue(s, m.data[1].ptxt)
          /\ \A i \in Elems(internal_q[s]) : AnswerTrue(s, i.ptxt)

(* Once a site has announced that none of its logins is due, only the one  *)
(* it renews since may be out of step.                                     *)
InStep(s, l) == from[Peer(s)][l] = to[s][l].pwd
OthersInStep(s) ==
    allClearSent[s] =>
        \A l \in Login :
            InStep(s, l) \/ (challenge_ctxt[s].running /\ l = challenge_ctxt[s].login)

(* The AllClear of s is ahead of every challenge of s: when it arrives the *)
(* passwords are those of the moment it was queued.                        *)
Before(q, A, B) == \A i \in Index(q, A), j \in Index(q, B) : i < j
AllClearAhead(s) ==
    /\ Before(send_q[s], EntryOf({"AllClear"}), EntryOf(RequestType))
    /\ Before(net[s], SentOf({"AllClear"}), SentOf(RequestType))
    /\ Has(send_q[s], EntryOf({"AllClear"})) => \A k \in 2 .. 6 : ~At(s, k)
    /\ Has(net[s], SentOf({"AllClear"})) => \A k \in 3 .. 6 : ~At(s, k)
    /\ (Has(send_q[s], EntryOf({"AllClear"})) \/ Has(net[s], SentOf({"AllClear"})))
          => \A l \in Login : InStep(s, l)
    /\ \A m \in Elems(net[s]) : m \in SentOf({"AllClear"}) => m.data[1].key = to[s][m.login].pwd

TokenInv ==
    /\ CredentialAgreement /\ NewPwdDiffers
    /\ \A s \in Site :
         Shapes(s) /\ OneToken(s) /\ Settled(s) /\ Matching(s) /\ OthersInStep(s)
           /\ AllClearAhead(s)

(* The invariant of the challenge sequence: one token per site, in step    *)
(* with the passwords on both sides, whatever is lost, stopped or          *)
(* restarted (initiateChallenge, Challenge_encode, Encrypted_decode and    *)
(* the handlers of cyber_process_internal_msg together).                   *)
ChallengeInv == StoreInv /\ SecretsCurrent /\ TokenInv

(* What makes ResponseReadable inductive with one login per site, as long  *)
(* as nothing was lost: a running challenge has its token, with its id,    *)
(* somewhere on the way, and the answer by which the peer adopted the new  *)
(* password reaches the site ahead of any challenge of that peer.          *)

(* The token of the site is somewhere; no password of it waits to be taken. *)
Underway(s) == \E k \in 1 .. 6 : At(s, k)
Untaken(s) == \A l \in Login : InStep(s, l)

(* Both sites live on one connection; without one no challenge runs.       *)
Connected(s) ==
    /\ live[s] <=> link
    /\ ~link => internal_pc[s] = "done" /\ ~challenge_ctxt[s].running /\ Untaken(s)

(* On its way back the answer precedes the peer's next challenge.          *)
AnswerAhead(s) ==
    LET p == Peer(s)
    IN  /\ At(s, 4) => /\ Before(send_q[p], EntryOf(AnswerType), EntryOf(RequestType))
                       /\ \A k \in 2 .. 6 : ~At(p, k)
        /\ At(s, 5) => /\ Before(net[p], SentOf(AnswerType), SentOf(RequestType))
                       /\ \A k \in 3 .. 6 : ~At(p, k)
        /\ At(s, 6) => /\ Before(internal_q[s], ReadOf(AnswerType), ReadOf(RequestType \cup {"Ping"}))
                       /\ \A k \in 4 .. 6 : ~At(p, k)
Taken(s) == Untaken(s) \/ ((\E k \in 4 .. 6 : At(s, k)) /\ AnswerAhead(s))

(* Every trace of a running challenge has its message id.                  *)
SameId(s) ==
    LET id == challenge_ctxt[s].mId
        p == Peer(s)
    IN  challenge_ctxt[s].running =>
          /\ \A e \in Elems(send_q[s]) : e \in EntryOf(RequestType) => e.data[1].ptxt.mId = id
          /\ \A m \in Elems(net[s]) : m \in SentOf(RequestType) => m.data[1].ptxt.mId = id
          /\ \A i \in Elems(internal_q[p]) : i \in ReadOf(RequestType \cup {"Ping"}) => i.ptxt.mId = id
          /\ \A e \in Elems(send_q[p]) : e \in EntryOf(AnswerType) => e.data[1].ptxt.mId = id
          /\ \A m \in Elems(net[p]) : m \in SentOf(AnswerType) => m.data[1].ptxt.mId = id
          /\ \A i \in Elems(internal_q[s]) : i \in ReadOf(AnswerType) => i.ptxt.mId = id

(* An answer on the network is under the password its reader has.          *)
AnswerKeys(s) ==
    \A m \in Elems(net[s]) : m \in SentOf(AnswerType) => m.data[1].key = from[Peer(s)][m.login]

ReturnPath(s) ==
    /\ Connected(s)
    /\ challenge_ctxt[s].running => Underway(s)
    /\ Taken(s)
    /\ SameId(s)
    /\ AnswerKeys(s)
ReturnInv == faults = 0 => \A s \in Site : ReturnPath(s)

(* A site whose passwords do not reach the renewal age answers with        *)
(* passwords that never change.                                            *)
Unchanging(s) ==
    /\ \A l \in Login : ~expired[s][l] /\ ~Pending(s, l)
    /\ \A m \in Elems(net[s]) : m \in SentOf(AnswerType) => m.data[1].key = to[s][m.login].pwd
OneSided == \A s \in Site \ ExpiringSites : Unchanging(s)

(* The sequence implements the rotation of passwords of PwdRotation, with  *)
(* one account per site and login.                                         *)
Rotation ==
    INSTANCE PwdRotation WITH
        Account <- Site \X Login,
        pwd     <- [a \in Site \X Login |-> to[a[1]][a[2]].pwd],
        new_pwd <- [a \in Site \X Login |-> to[a[1]][a[2]].new_pwd],
        known   <- [a \in Site \X Login |-> from[Peer(a[1])][a[2]]]

(* Every step of the sessions is a step of PwdRotation or leaves the       *)
(* passwords alone: in particular the owner switches only once its peer    *)
(* has adopted the new password.                                           *)
ImplementsRotation == Rotation!RotationSpec

(* Liveness: a renewal that was started comes to its end, in its session   *)
(* or, when a fault ended that one, through the Ping of a later session.   *)
(* Only a fault after which nobody makes a new session leaves it pending.  *)
RotationCompletes ==
    \A s \in Site, l \in Login :
        Pending(s, l) ~> (~Pending(s, l) \/ (faults > 0 /\ []~link))
=============================================================================
