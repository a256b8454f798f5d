---------------------- MODULE ChallengeSession_proofs ----------------------
(***************************************************************************)
(* Proofs about ChallengeSession, for any number of logins, passwords and  *)
(* faults.                                                                 *)
(***************************************************************************)
EXTENDS ChallengeSession, SequenceTheorems, FiniteSetTheorems, TLAPS

-----------------------------------------------------------------------------
(* Facts about the operators.                                              *)

(* The peer of a site is the other site.                                   *)
LEMMA PeerType == \A s \in Site : Peer(s) \in Site /\ Peer(s) # s /\ Peer(Peer(s)) = s
BY SiteAssumption DEF Site, Peer

(* auth_get_first and auth_get_next_from_auth return logins of the list.   *)
LEMMA LoginChoice == FirstLogin \in Login /\ NextLogin \in Login \cup {NoLogin}
<1>1. Len(LoginSeq) \in Nat \ {0} /\ DOMAIN LoginSeq = 1 .. Len(LoginSeq)
  BY LoginAssumption, EmptySeq, LenProperties
<1>2. 1 \in DOMAIN LoginSeq /\ Len(LoginSeq) \in DOMAIN LoginSeq
  BY <1>1
<1> QED BY <1>2 DEF FirstLogin, NextLogin, Login

(* Appending to, or taking from, one of the queues of a family.            *)
LEMMA QueueAppend ==
  ASSUME NEW S, NEW q \in [Site -> Seq(S)], NEW s \in Site, NEW e \in S
  PROVE  [q EXCEPT ![s] = Append(@, e)] \in [Site -> Seq(S)]
OBVIOUS

LEMMA QueueTail ==
  ASSUME NEW S, NEW q \in [Site -> Seq(S)], NEW s \in Site, q[s] # <<>>
  PROVE  Head(q[s]) \in S /\ [q EXCEPT ![s] = Tail(@)] \in [Site -> Seq(S)]
<1>1. Head(q[s]) \in S /\ Tail(q[s]) \in Seq(S)
  BY HeadTailProperties
<1> QED BY <1>1

LEMMA QueueConcat ==
  ASSUME NEW S, NEW q \in [Site -> Seq(S)], NEW s \in Site, NEW t \in Seq(S)
  PROVE  [q EXCEPT ![s] = @ \o t] \in [Site -> Seq(S)]
<1>1. q[s] \o t \in Seq(S)
  BY ConcatProperties
<1> QED BY <1>1

(* A secret is always derived from a password.                             *)
LEMMA KeyType ==
  ASSUME TypeOK, NEW s \in Site, NEW l \in Login
  PROVE  ToKey(s, l) \in Pwd /\ FromKey(s, l) \in Pwd
BY DEF TypeOK, ToKey, FromKey, ToEntry

(* Message ids stay within their alphabet.                                 *)
LEMMA MIdType ==
  ASSUME TypeOK, NEW s \in Site
  PROVE  NextMId(s) \in MId /\ 0 \in MId
BY MIdAssumption DEF TypeOK, NextMId, MId, Context

(* A message handed to send_q in clear is a well formed entry.             *)
LEMMA ClearType ==
  ASSUME NEW login \in Login \cup {NoLogin}, NEW m \in Plaintext
  PROVE  Clear(login, m) \in SendEntry
<1>1. [key |-> NoPwd, ptxt |-> m] \in Element
  BY DEF Element
<1>2. <<[key |-> NoPwd, ptxt |-> m]>> \in Elements
  BY <1>1 DEF Elements
<1> QED BY <1>2 DEF Clear, SendEntry

(* So is a Challenge.                                                      *)
LEMMA ChallengeType ==
  ASSUME TypeOK, NEW s \in Site, NEW l \in Login, NEW p \in Pwd
  PROVE  Challenge(s, l, p, NextMId(s)) \in SendEntry
<1> DEFINE a == [key |-> ToKey(s, l), ptxt |-> ChangePwdRequest(NextMId(s), p)]
           b == [key |-> p, ptxt |-> Ping(NextMId(s))]
<1>1. ChangePwdRequest(NextMId(s), p) \in Plaintext /\ Ping(NextMId(s)) \in Plaintext
  BY MIdType DEF ChangePwdRequest, Ping, Plaintext
<1>2. a \in Element /\ b \in Element
  BY <1>1, KeyType DEF Element
<1> HIDE DEF a, b
<1>3. <<a, b>> \in Elements
  BY <1>2 DEF Elements
<1> QED BY <1>3 DEF a, b, Challenge, SendEntry

(* What cyber_send writes is a well formed message.                        *)
LEMMA WrittenType ==
  ASSUME TypeOK, NEW s \in Site, NEW e \in SendEntry
  PROVE  SendLogin(e) \in Login /\ Encrypted_write(s, e) \in Encrypted
<1>1. SendLogin(e) \in Login
  BY LoginChoice DEF SendLogin, SendEntry
<1>2. e.data \in Seq(Element) /\ e.data # <<>>
  BY DEF SendEntry, Elements
<1>3. 1 \in 1 .. Len(e.data)
  BY <1>2, EmptySeq
<1>4. e.data[1] \in Element
  BY <1>2, <1>3, ElementOfSeq
<1>5. [key |-> ToKey(s, SendLogin(e)), ptxt |-> e.data[1].ptxt] \in Element
  BY <1>1, <1>4, KeyType DEF Element
<1>6. <<[key |-> ToKey(s, SendLogin(e)), ptxt |-> e.data[1].ptxt]>> \in Elements
  BY <1>5 DEF Elements
<1> QED BY <1>1, <1>6 DEF Encrypted_write, Encrypted, SendEntry

(* What Encrypted_decode keeps are well formed internal messages.          *)
LEMMA DecodedType ==
  ASSUME TypeOK, NEW s \in Site, NEW e \in Encrypted
  PROVE  Encrypted_decode(s, e) \in Seq(Internal)
<1>1. e.data \in Seq(Element) /\ e.login \in Login
  BY DEF Encrypted, Elements
<1>2. ASSUME NEW k, NEW i PROVE Opened(k, e, i) \in Seq(Internal)
  <2>1. CASE i \in DOMAIN e.data
    <3>1. e.data[i] \in Element
      BY <1>1, <2>1, ElementOfSeq, LenProperties
    <3>2. [login |-> e.login, ptxt |-> e.data[i].ptxt] \in Internal
      BY <1>1, <3>1 DEF Element, Internal
    <3> QED BY <3>2 DEF Opened
  <2>2. CASE i \notin DOMAIN e.data
    BY <2>2 DEF Opened
  <2> QED BY <2>1, <2>2
<1> QED BY <1>2, ConcatProperties DEF Encrypted_decode

-----------------------------------------------------------------------------
(* StoreInv is inductive: one lemma for the initial states, one for each   *)
(* thread.                                                                 *)

LEMMA StoreInit == Init => StoreInv
<1> SUFFICES ASSUME Init PROVE StoreInv
  OBVIOUS
<1>1. PICK p \in [Site -> [Login -> Pwd]] :
        /\ to = [s \in Site |-> [l \in Login |-> [pwd |-> p[s][l], new_pwd |-> NoPwd]]]
        /\ from = [s \in Site |-> p[Peer(s)]]
  BY DEF Init
<1>2. to \in [Site -> [Login -> ToEntry]] /\ from \in [Site -> [Login -> Pwd]]
  BY <1>1, PeerType DEF ToEntry
<1>3. NoChallenge \in Context
  BY MIdAssumption DEF NoChallenge, Context, MId
<1>4. TypeOK
  <2>1. /\ disk \in [Site -> [to : [Login -> ToEntry], from : [Login -> Pwd]]]
        /\ to_secret \in [Site -> [Login -> Pwd \cup {NoPwd}]]
        /\ from_secret \in [Site -> [Login -> Pwd \cup {NoPwd}]]
    BY <1>2 DEF Init
  <2>2. /\ expired \in [Site -> [Login -> BOOLEAN]]
        /\ live \in [Site -> BOOLEAN]
        /\ link \in BOOLEAN
        /\ allClearRxed \in [Site -> BOOLEAN]
        /\ allClearSent \in [Site -> BOOLEAN]
    BY DEF Init
  <2>3. /\ challenge_ctxt \in [Site -> Context]
        /\ send_q \in [Site -> Seq(SendEntry)]
        /\ net \in [Site -> Seq(Encrypted)]
        /\ internal_q \in [Site -> Seq(Internal)]
        /\ internal_pc \in [Site -> {"wait", "initiate", "launch", "done"}]
        /\ app \in [Site -> Login \cup {NoLogin}]
        /\ faults \in 0 .. MaxFaults
    BY <1>3, BoundAssumption DEF Init
  <2> QED BY <1>2, <2>1, <2>2, <2>3 DEF TypeOK
<1>5. Durable /\ RunningPending
  BY DEF Init, Durable, RunningPending, InProgress, NoChallenge
<1> QED BY <1>4, <1>5 DEF StoreInv

LEMMA StoreSend ==
  ASSUME StoreInv, NEW s \in Site, cyber_send(s)
  PROVE  StoreInv'
<1> DEFINE e == Head(send_q[s])
<1>1. TypeOK
  BY DEF StoreInv
<1>2. e \in SendEntry /\ send_q' \in [Site -> Seq(SendEntry)]
  BY <1>1, QueueTail DEF TypeOK, cyber_send
<1>3. SendLogin(e) \in Login /\ Encrypted_write(s, e) \in Encrypted /\ ToKey(s, SendLogin(e)) \in Pwd
  BY <1>1, <1>2, WrittenType, KeyType
<1>4. net' \in [Site -> Seq(Encrypted)]
  BY <1>1, <1>3, QueueAppend DEF TypeOK, cyber_send
<1>5. to_secret' \in [Site -> [Login -> Pwd \cup {NoPwd}]]
  BY <1>1, <1>3 DEF TypeOK, cyber_send
<1>6. TypeOK'
  BY <1>1, <1>2, <1>4, <1>5 DEF TypeOK, cyber_send, stores, flags
<1>7. Durable' /\ RunningPending'
  BY DEF StoreInv, Durable, RunningPending, InProgress, Pending, cyber_send, stores
<1> QED BY <1>6, <1>7 DEF StoreInv

LEMMA StoreReceive ==
  ASSUME StoreInv, NEW s \in Site, cyber_receive(s)
  PROVE  StoreInv'
<1> DEFINE e == Head(net[Peer(s)])
<1>1. TypeOK
  BY DEF StoreInv
<1>2. e \in Encrypted /\ net' \in [Site -> Seq(Encrypted)]
  BY <1>1, PeerType, QueueTail DEF TypeOK, cyber_receive
<1>3. internal_q' \in [Site -> Seq(Internal)]
  BY <1>1, <1>2, DecodedType, QueueConcat DEF TypeOK, cyber_receive
<1>4. e.login \in Login /\ FromKey(s, e.login) \in Pwd
  BY <1>1, <1>2, KeyType DEF Encrypted
<1>5. from_secret' \in [Site -> [Login -> Pwd \cup {NoPwd}]]
  BY <1>1, <1>4 DEF TypeOK, cyber_receive
<1>6. TypeOK'
  BY <1>1, <1>2, <1>3, <1>5 DEF TypeOK, cyber_receive, stores, flags
<1>7. Durable' /\ RunningPending'
  BY DEF StoreInv, Durable, RunningPending, InProgress, Pending, cyber_receive, stores
<1> QED BY <1>6, <1>7 DEF StoreInv

(* Taking a message from internal_q.                                       *)
LEMMA DequeueType ==
  ASSUME TypeOK, NEW s \in Site, Dequeue(s)
  PROVE  /\ Head(internal_q[s]) \in Internal
         /\ internal_q' \in [Site -> Seq(Internal)]
         /\ internal_pc' \in [Site -> {"wait", "initiate", "launch", "done"}]
         /\ internal_pc[s] # "launch" /\ internal_pc'[s] # "launch"
         /\ \A t \in Site : t # s => internal_pc'[t] = internal_pc[t]
BY QueueTail DEF TypeOK, Dequeue

(* The loop test of cyber_receive_internal.                                *)
LEMMA LoopType ==
  ASSUME TypeOK, NEW s \in Site, Loop(s)
  PROVE  /\ internal_pc' \in [Site -> {"wait", "initiate", "launch", "done"}]
         /\ internal_pc'[s] # "launch"
         /\ \A t \in Site : t # s => internal_pc'[t] = internal_pc[t]
BY DEF TypeOK, Loop

(* A challenge is not launched and its context not touched by a step that  *)
(* takes a message and leaves the passwords of its site alone.             *)
LEMMA DequeuePending ==
  ASSUME TypeOK, RunningPending, NEW s \in Site, Dequeue(s), UNCHANGED <<to, challenge_ctxt>>
  PROVE  RunningPending'
<1>1. \A t \in Site : internal_pc'[t] = "launch" <=> internal_pc[t] = "launch"
  BY DequeueType
<1> QED BY <1>1 DEF RunningPending, InProgress, Pending

LEMMA StoreAllClear ==
  ASSUME StoreInv, NEW s \in Site, HandleAllClear(s)
  PROVE  StoreInv'
<1>1. TypeOK
  BY DEF StoreInv
<1>2. TypeOK'
  <2>1. Dequeue(s) /\ allClearRxed' = [allClearRxed EXCEPT ![s] = TRUE]
    BY DEF HandleAllClear
  <2>2. allClearRxed' \in [Site -> BOOLEAN]
    BY <1>1, <2>1 DEF TypeOK
  <2> QED BY <1>1, <2>1, <2>2, DequeueType DEF TypeOK, HandleAllClear, stores, secrets
<1>3. Durable' /\ RunningPending'
  BY DequeuePending DEF StoreInv, Durable, HandleAllClear, stores
<1> QED BY <1>2, <1>3 DEF StoreInv

LEMMA StoreRequest ==
  ASSUME StoreInv, NEW s \in Site, HandleChangePwdRequest(s)
  PROVE  StoreInv'
<1> DEFINE i == Head(internal_q[s])
<1>1. TypeOK /\ Durable /\ RunningPending /\ Dequeue(s)
  BY DEF StoreInv, HandleChangePwdRequest
<1>2. i.login \in Login /\ i.ptxt \in Plaintext
  BY <1>1, DequeueType DEF Internal
<1>3. i.ptxt.arg \in Pwd /\ i.ptxt.mId \in MId
  BY <1>2 DEF HandleChangePwdRequest, Plaintext
<1>4. send_q' \in [Site -> Seq(SendEntry)]
  <2>1. CanAccept(s) \in BOOLEAN
    BY DEF CanAccept
  <2>2. ChangePwdResponse(i.ptxt.mId, CanAccept(s)) \in Plaintext
    BY <1>3, <2>1 DEF ChangePwdResponse, Plaintext
  <2>3. Clear(NoLogin, ChangePwdResponse(i.ptxt.mId, CanAccept(s))) \in SendEntry
    BY <2>2, ClearType
  <2>4. PushOut(s, Clear(NoLogin, ChangePwdResponse(i.ptxt.mId, CanAccept(s))))
    BY DEF HandleChangePwdRequest
  <2> QED BY <1>1, <2>3, <2>4, QueueAppend DEF TypeOK, PushOut
<1>5. /\ from' \in [Site -> [Login -> Pwd]]
      /\ disk' \in [Site -> [to : [Login -> ToEntry], from : [Login -> Pwd]]]
      /\ from_secret' \in [Site -> [Login -> Pwd \cup {NoPwd}]]
      /\ to' = to /\ challenge_ctxt' = challenge_ctxt
      /\ Durable'
  <2>1. to' = to /\ challenge_ctxt' = challenge_ctxt
    BY DEF HandleChangePwdRequest
  <2>2. CASE CanAccept(s)
    <3>1. auth_set_pwd(s, i.login, i.ptxt.arg)
      BY <2>2 DEF HandleChangePwdRequest
    <3> QED BY <1>1, <1>2, <1>3, <2>1, <3>1 DEF TypeOK, Durable, auth_set_pwd, auth_db_to_file
  <2>3. CASE ~CanAccept(s)
    <3>1. UNCHANGED <<from, disk, from_secret>>
      BY <2>3 DEF HandleChangePwdRequest
    <3> QED BY <1>1, <2>1, <3>1 DEF TypeOK, Durable
  <2> QED BY <2>2, <2>3
<1>6. TypeOK'
  BY <1>1, <1>4, <1>5, DequeueType DEF TypeOK, HandleChangePwdRequest, flags
<1>7. RunningPending'
  BY <1>1, <1>5, DequeuePending
<1> QED BY <1>5, <1>6, <1>7 DEF StoreInv

(* The owner's switch, of a login that has a password to switch to.        *)
LEMMA SwitchStore ==
  ASSUME StoreInv, NEW s \in Site, NEW l \in Login, Pending(s, l),
         auth_switch_to_new_pwd(s, l), from' = from
  PROVE  /\ to' \in [Site -> [Login -> ToEntry]]
         /\ expired' \in [Site -> [Login -> BOOLEAN]]
         /\ disk' \in [Site -> [to : [Login -> ToEntry], from : [Login -> Pwd]]]
         /\ to_secret' \in [Site -> [Login -> Pwd \cup {NoPwd}]]
         /\ \A t \in Site : t # s => to'[t] = to[t]
         /\ Durable'
<1>1. TypeOK /\ Durable
  BY DEF StoreInv
<1>2. to[s][l].new_pwd \in Pwd
  BY <1>1 DEF TypeOK, ToEntry, Pending
<1>3. to' \in [Site -> [Login -> ToEntry]] /\ to_secret' \in [Site -> [Login -> Pwd \cup {NoPwd}]]
  BY <1>1, <1>2 DEF TypeOK, ToEntry, auth_switch_to_new_pwd
<1>4. expired' \in [Site -> [Login -> BOOLEAN]]
  BY <1>1 DEF TypeOK, auth_switch_to_new_pwd
<1>5. \A t \in Site : t # s => to'[t] = to[t]
  BY <1>1 DEF TypeOK, auth_switch_to_new_pwd
<1>6. disk' = [disk EXCEPT ![s] = [to |-> to'[s], from |-> from[s]]]
  BY DEF auth_switch_to_new_pwd, auth_db_to_file
<1>7. disk' \in [Site -> [to : [Login -> ToEntry], from : [Login -> Pwd]]]
  BY <1>1, <1>3, <1>6 DEF TypeOK
<1>8. Durable'
  BY <1>1, <1>5, <1>6 DEF TypeOK, Durable
<1> QED BY <1>3, <1>4, <1>5, <1>7, <1>8

(* The end of a challenge leaves a context.                                *)
LEMMA FinishType ==
  ASSUME TypeOK, NEW s \in Site, Finish(s)
  PROVE  /\ challenge_ctxt' \in [Site -> Context]
         /\ ~challenge_ctxt'[s].running
         /\ challenge_ctxt'[s].toSend = challenge_ctxt[s].toSend
         /\ \A t \in Site : t # s => challenge_ctxt'[t] = challenge_ctxt[t]
<1>1. challenge_ctxt \in [Site -> Context] /\ challenge_ctxt[s] \in Context
  BY DEF TypeOK
<1>2. [challenge_ctxt[s] EXCEPT !.running = FALSE] \in Context
  BY <1>1 DEF Context
<1>3. challenge_ctxt' = [challenge_ctxt EXCEPT ![s] = [challenge_ctxt[s] EXCEPT !.running = FALSE]]
  BY DEF Finish
<1> QED BY <1>1, <1>2, <1>3 DEF Context

(* The end of a challenge: by a switch, without one, or no end at all.     *)
LEMMA AnswerStore ==
  ASSUME StoreInv, NEW s \in Site, Dequeue(s),
         UNCHANGED <<from, from_secret, live, link, flags, send_q, net, app, faults>>,
         \/ /\ challenge_ctxt[s].running
            /\ auth_switch_to_new_pwd(s, challenge_ctxt[s].login)
            /\ Finish(s)
         \/ Finish(s) /\ UNCHANGED <<to, expired, disk, to_secret>>
         \/ UNCHANGED <<to, expired, disk, to_secret, challenge_ctxt>>
  PROVE  StoreInv'
<1>1. TypeOK /\ Durable /\ RunningPending
  BY DEF StoreInv
<1>2. CASE challenge_ctxt[s].running /\ auth_switch_to_new_pwd(s, challenge_ctxt[s].login) /\ Finish(s)
  <2>1. challenge_ctxt[s].login \in Login /\ Pending(s, challenge_ctxt[s].login)
    BY <1>1, <1>2 DEF RunningPending, InProgress
  <2>2. challenge_ctxt' \in [Site -> Context]
    BY <1>1, <1>2, FinishType
  <2>3. TypeOK'
    BY <1>1, <1>2, <2>1, <2>2, SwitchStore, DequeueType DEF TypeOK, flags
  <2>4. RunningPending'
    <3>1. ~challenge_ctxt[s].toSend /\ internal_pc'[s] # "launch"
      BY <1>1, DequeueType DEF RunningPending
    <3>2. ~challenge_ctxt'[s].toSend /\ ~challenge_ctxt'[s].running
      BY <1>1, <1>2, <3>1, FinishType
    <3>3. \A t \in Site : t # s =>
            /\ challenge_ctxt'[t] = challenge_ctxt[t] /\ internal_pc'[t] = internal_pc[t]
            /\ to'[t] = to[t]
      BY <1>1, <1>2, <2>1, SwitchStore, FinishType, DequeueType
    <3> QED BY <1>1, <3>1, <3>2, <3>3 DEF RunningPending, InProgress, Pending
  <2> QED BY <1>2, <2>1, <2>3, <2>4, SwitchStore DEF StoreInv
<1>3. CASE Finish(s) /\ UNCHANGED <<to, expired, disk, to_secret>>
  <2>1. challenge_ctxt' \in [Site -> Context]
    BY <1>1, <1>3, FinishType
  <2>2. TypeOK'
    BY <1>1, <1>3, <2>1, DequeueType DEF TypeOK, flags
  <2>3. Durable' /\ RunningPending'
    BY <1>1, <1>3, FinishType, DequeueType DEF Durable, RunningPending, InProgress, Pending
  <2> QED BY <2>2, <2>3 DEF StoreInv
<1>4. CASE UNCHANGED <<to, expired, disk, to_secret, challenge_ctxt>>
  <2>1. TypeOK'
    BY <1>1, <1>4, DequeueType DEF TypeOK, flags
  <2>2. Durable' /\ RunningPending'
    BY <1>1, <1>4, DequeuePending DEF Durable
  <2> QED BY <2>1, <2>2 DEF StoreInv
<1> QED BY <1>2, <1>3, <1>4

LEMMA StoreResponse ==
  ASSUME StoreInv, NEW s \in Site, HandleChangePwdResponse(s)
  PROVE  StoreInv'
BY AnswerStore DEF HandleChangePwdResponse, Answers

LEMMA StorePong ==
  ASSUME StoreInv, NEW s \in Site, HandlePong(s)
  PROVE  StoreInv'
BY AnswerStore DEF HandlePong, Answers

LEMMA StorePing ==
  ASSUME StoreInv, NEW s \in Site, HandlePing(s)
  PROVE  StoreInv'
<1> DEFINE m == Head(internal_q[s]).ptxt
<1>1. TypeOK /\ Dequeue(s)
  BY DEF StoreInv, HandlePing
<1>2. m.mId \in MId
  BY <1>1, DequeueType DEF Internal, Plaintext
<1>3. Pong(m.mId) \in Plaintext
  BY <1>2 DEF Pong, Plaintext
<1>4. Clear(NoLogin, Pong(m.mId)) \in SendEntry
  BY <1>3, ClearType
<1>5. send_q' \in [Site -> Seq(SendEntry)]
  BY <1>1, <1>4, QueueAppend DEF TypeOK, HandlePing, PushOut
<1>6. TypeOK'
  BY <1>1, <1>5, DequeueType DEF TypeOK, HandlePing, stores, secrets, flags
<1>7. Durable' /\ RunningPending'
  BY DequeuePending DEF StoreInv, Durable, HandlePing, stores
<1> QED BY <1>6, <1>7 DEF StoreInv

(* initiateChallenge: what it leaves of the store and of the context.      *)
LEMMA InitiateStore ==
  ASSUME StoreInv, NEW s \in Site, initiateChallenge(s), internal_pc[s] # "launch",
         from' = from
  PROVE  /\ to' \in [Site -> [Login -> ToEntry]]
         /\ disk' \in [Site -> [to : [Login -> ToEntry], from : [Login -> Pwd]]]
         /\ to_secret' \in [Site -> [Login -> Pwd \cup {NoPwd}]]
         /\ challenge_ctxt' \in [Site -> Context]
         /\ allClearSent' \in [Site -> BOOLEAN]
         /\ send_q' \in [Site -> Seq(SendEntry)]
         /\ internal_pc' \in [Site -> {"wait", "initiate", "launch", "done"}]
         /\ Durable'
         /\ RunningPending'
<1> USE DEF TypeOK
<1>1. TypeOK /\ Durable /\ RunningPending
  BY DEF StoreInv
<1>2. CASE UNCHANGED <<to, disk, to_secret, challenge_ctxt, allClearSent, send_q>> /\ Loop(s)
  BY <1>1, <1>2, LoopType DEF Durable, RunningPending, InProgress, Pending
<1>3. CASE ~challenge_ctxt[s].running /\ SendAllClear(s) /\ Loop(s)
  <2>1. UNCHANGED <<to, disk, to_secret>>
    BY <1>3 DEF SendAllClear
  <2>2. challenge_ctxt' \in [Site -> Context]
    BY <1>1, <1>3 DEF SendAllClear, Context
  <2>3. allClearSent' \in [Site -> BOOLEAN]
    BY <1>1, <1>3 DEF SendAllClear
  <2>4. Clear(NoLogin, AllClear) \in SendEntry
    BY <1>1, MIdType, ClearType DEF AllClear, Plaintext
  <2>5. send_q' \in [Site -> Seq(SendEntry)]
    <3>1. send_q' = send_q \/ PushOut(s, Clear(NoLogin, AllClear))
      BY <1>3 DEF SendAllClear
    <3>2. [send_q EXCEPT ![s] = Append(@, Clear(NoLogin, AllClear))] \in [Site -> Seq(SendEntry)]
      BY <1>1, <2>4, QueueAppend
    <3> QED BY <1>1, <3>1, <3>2 DEF PushOut
  <2>6. Durable' /\ RunningPending'
    BY <1>1, <1>3, <2>1, LoopType DEF SendAllClear, Context, Durable, RunningPending, InProgress, Pending
  <2> QED BY <1>1, <1>3, LoopType, <2>1, <2>2, <2>3, <2>5, <2>6
<1>4. CASE StartChallenge(s)
  <2>1. PICK l \in Login, p \in Pwd :
          /\ auth_get_new_pwd(s, l, p)
          /\ PushOut(s, Challenge(s, l, p, NextMId(s)))
          /\ to_secret' = [to_secret EXCEPT ![s][l] = ToKey(s, l)]
          /\ challenge_ctxt' =
               [challenge_ctxt EXCEPT ![s] = Encoded(l, NextMId(s))]
          /\ internal_pc' = [internal_pc EXCEPT ![s] = "launch"]
          /\ UNCHANGED allClearSent
    BY <1>4 DEF StartChallenge, Due, Login
  <2>2. to' = [to EXCEPT ![s][l].new_pwd = p]
    BY <2>1 DEF auth_get_new_pwd
  <2>3. disk' = [disk EXCEPT ![s] = [to |-> to'[s], from |-> from[s]]]
    BY <2>1 DEF auth_get_new_pwd, auth_db_to_file
  <2>4. to' \in [Site -> [Login -> ToEntry]]
    <3>1. to[s][l] \in ToEntry /\ to[s] \in [Login -> ToEntry]
      BY <1>1
    <3>2. [to[s][l] EXCEPT !.new_pwd = p] \in ToEntry
      BY <3>1 DEF ToEntry
    <3>3. [to[s] EXCEPT ![l] = [to[s][l] EXCEPT !.new_pwd = p]] \in [Login -> ToEntry]
      BY <3>1, <3>2
    <3>4. to' = [to EXCEPT ![s] = [to[s] EXCEPT ![l] = [to[s][l] EXCEPT !.new_pwd = p]]]
      BY <2>2
    <3> QED BY <1>1, <3>3, <3>4
  <2>5. disk' \in [Site -> [to : [Login -> ToEntry], from : [Login -> Pwd]]]
    BY <1>1, <2>3, <2>4
  <2>6. to_secret' \in [Site -> [Login -> Pwd \cup {NoPwd}]]
    BY <1>1, <2>1, KeyType
  <2>7. challenge_ctxt' \in [Site -> Context]
    BY <1>1, <2>1, MIdType DEF Context, Encoded
  <2>8. send_q' \in [Site -> Seq(SendEntry)]
    BY <1>1, <2>1, ChallengeType, QueueAppend DEF PushOut
  <2>9. Durable'
    BY <1>1, <2>2, <2>3 DEF Durable
  <2>10. RunningPending'
    BY <1>1, <2>1, <2>2, PwdsAssumption DEF Encoded, RunningPending, InProgress, Pending, Context, ToEntry
  <2> QED BY <1>1, <2>1, <2>4, <2>5, <2>6, <2>7, <2>8, <2>9, <2>10
<1> QED BY <1>2, <1>3, <1>4 DEF initiateChallenge

LEMMA StoreInitiate ==
  ASSUME StoreInv, NEW s \in Site, InternalInitiate(s) \/ InternalIdle(s)
  PROVE  StoreInv'
<1>1. TypeOK
  BY DEF StoreInv
<1>2. /\ initiateChallenge(s) /\ internal_pc[s] # "launch"
      /\ UNCHANGED <<expired, from, from_secret, live, link, allClearRxed, net, internal_q, app,
                     faults>>
  BY DEF InternalInitiate, InternalIdle
<1>3. TypeOK'
  BY <1>1, <1>2, InitiateStore DEF TypeOK
<1> QED BY <1>2, <1>3, InitiateStore DEF StoreInv

(* The end of initiateChallenge: the challenge it queued is the one that   *)
(* runs.                                                                   *)
LEMMA StoreLaunch ==
  ASSUME StoreInv, NEW s \in Site, Launch(s)
  PROVE  StoreInv'
<1>1. TypeOK /\ Durable /\ RunningPending /\ Loop(s) /\ challenge_ctxt[s] \in Context
  BY DEF StoreInv, Launch, TypeOK
<1>2. /\ challenge_ctxt' \in [Site -> Context]
      /\ ~challenge_ctxt'[s].toSend /\ challenge_ctxt'[s].login = challenge_ctxt[s].login
      /\ \A t \in Site : t # s => challenge_ctxt'[t] = challenge_ctxt[t]
  BY <1>1 DEF TypeOK, Launch, Context
<1>3. UNCHANGED <<stores, secrets, live, link, flags, queues, app, faults>>
  BY DEF Launch
<1>4. TypeOK'
  BY <1>1, <1>2, <1>3, LoopType DEF TypeOK, stores, secrets, flags, queues
<1>5. challenge_ctxt[s].login \in Login /\ Pending(s, challenge_ctxt[s].login)
  BY <1>1 DEF Launch, RunningPending, InProgress
<1>6. Durable' /\ RunningPending'
  BY <1>1, <1>2, <1>3, <1>5, LoopType DEF Durable, RunningPending, InProgress, Pending, stores
<1> QED BY <1>4, <1>6 DEF StoreInv

LEMMA StoreExpire ==
  ASSUME StoreInv, NEW s \in Site, NEW l \in Login, Expire(s, l)
  PROVE  StoreInv'
<1>1. TypeOK
  BY DEF StoreInv
<1>2. expired' \in [Site -> [Login -> BOOLEAN]]
  BY <1>1 DEF TypeOK, Expire
<1>3. TypeOK'
  BY <1>1, <1>2 DEF TypeOK, Expire, secrets, flags, queues
<1>4. Durable' /\ RunningPending'
  BY DEF StoreInv, Durable, RunningPending, InProgress, Pending, Expire
<1> QED BY <1>3, <1>4 DEF StoreInv

LEMMA StoreSendChoose ==
  ASSUME StoreInv, NEW s \in Site, SendChoose(s)
  PROVE  StoreInv'
<1>1. TypeOK
  BY DEF StoreInv
<1>2. \A login \in Login \cup {NoLogin} : ChosenLogin(s, login) \in Login \cup {NoLogin}
  BY LoginChoice DEF ChosenLogin
<1>3. app' \in [Site -> Login \cup {NoLogin}]
  BY <1>1, <1>2 DEF TypeOK, SendChoose
<1>4. TypeOK'
  BY <1>1, <1>3 DEF TypeOK, SendChoose, stores, secrets, flags, queues
<1>5. Durable' /\ RunningPending'
  BY DEF StoreInv, Durable, RunningPending, InProgress, Pending, SendChoose, stores
<1> QED BY <1>4, <1>5 DEF StoreInv

LEMMA StoreSendPush ==
  ASSUME StoreInv, NEW s \in Site, SendPush(s)
  PROVE  StoreInv'
<1>1. TypeOK
  BY DEF StoreInv
<1>2. External \in Plaintext
  BY MIdAssumption DEF External, Plaintext, MId
<1>3. Clear(app[s], External) \in SendEntry
  BY <1>1, <1>2, ClearType DEF TypeOK
<1>4. send_q' \in [Site -> Seq(SendEntry)]
  BY <1>1, <1>3, QueueAppend DEF TypeOK, SendPush, PushOut
<1>5. app' \in [Site -> Login \cup {NoLogin}]
  BY <1>1 DEF TypeOK, SendPush
<1>6. TypeOK'
  BY <1>1, <1>4, <1>5 DEF TypeOK, SendPush, stores, secrets, flags
<1>7. Durable' /\ RunningPending'
  BY DEF StoreInv, Durable, RunningPending, InProgress, Pending, SendPush, stores
<1> QED BY <1>6, <1>7 DEF StoreInv

(* _stop leaves booleans.                                                  *)
LEMMA StopType ==
  ASSUME TypeOK, NEW s \in Site, Stop(s)
  PROVE  live' \in [Site -> BOOLEAN] /\ link' \in BOOLEAN
BY DEF TypeOK, Stop

(* Counting a fault below the bound.                                       *)
LEMMA FaultType ==
  ASSUME TypeOK, faults < MaxFaults, faults' = faults + 1
  PROVE  faults' \in 0 .. MaxFaults
BY BoundAssumption DEF TypeOK

LEMMA StoreTimeout ==
  ASSUME StoreInv, NEW s \in Site, ChallengeTimeout(s)
  PROVE  StoreInv'
<1>1. TypeOK
  BY DEF StoreInv
<1>2. faults' \in 0 .. MaxFaults
  <2>1. CASE Quiet(s)
    BY <1>1, <2>1 DEF TypeOK, ChallengeTimeout
  <2>2. CASE ~Quiet(s)
    BY <1>1, <2>2, FaultType DEF ChallengeTimeout
  <2> QED BY <2>1, <2>2
<1>3. TypeOK'
  BY <1>1, <1>2, StopType DEF TypeOK, ChallengeTimeout, stores, secrets, flags, queues
<1>4. Durable' /\ RunningPending'
  BY DEF StoreInv, Durable, RunningPending, InProgress, Pending, ChallengeTimeout, stores
<1> QED BY <1>3, <1>4 DEF StoreInv

LEMMA StoreBreaks ==
  ASSUME StoreInv, ConnectionBreaks
  PROVE  StoreInv'
<1>1. TypeOK
  BY DEF StoreInv
<1>2. faults' \in 0 .. MaxFaults
  BY <1>1, FaultType DEF ConnectionBreaks
<1>3. link' \in BOOLEAN
  BY DEF ConnectionBreaks
<1>4. TypeOK'
  BY <1>1, <1>2, <1>3 DEF TypeOK, ConnectionBreaks, stores, secrets, flags, queues
<1>5. Durable' /\ RunningPending'
  BY DEF StoreInv, Durable, RunningPending, InProgress, Pending, ConnectionBreaks, stores
<1> QED BY <1>4, <1>5 DEF StoreInv

LEMMA StoreLost ==
  ASSUME StoreInv, NEW s \in Site, ConnectionLost(s)
  PROVE  StoreInv'
<1>1. TypeOK
  BY DEF StoreInv
<1>2. net' \in [Site -> Seq(Encrypted)]
  <2>1. net \in [Site -> Seq(Encrypted)] /\ <<>> \in Seq(Encrypted)
    BY <1>1, EmptySeq DEF TypeOK
  <2> QED BY <2>1 DEF ConnectionLost
<1>3. TypeOK'
  BY <1>1, <1>2, StopType DEF TypeOK, ConnectionLost, stores, secrets, flags
<1>4. Durable' /\ RunningPending'
  BY DEF StoreInv, Durable, RunningPending, InProgress, Pending, ConnectionLost, stores
<1> QED BY <1>3, <1>4 DEF StoreInv

(* A dropped payload.                                                      *)
LEMMA StoreCut ==
  ASSUME StoreInv, NEW s \in Site, PayloadCut(s)
  PROVE  StoreInv'
<1>1. TypeOK
  BY DEF StoreInv
<1>2. net' \in [Site -> Seq(Encrypted)]
  <2>1. net \in [Site -> Seq(Encrypted)] /\ Peer(s) \in Site
    BY <1>1, PeerType DEF TypeOK
  <2>2. Tail(net[Peer(s)]) \in Seq(Encrypted)
    BY <2>1, QueueTail DEF PayloadCut
  <2> QED BY <2>1, <2>2 DEF PayloadCut
<1>3. faults' \in 0 .. MaxFaults
  BY <1>1, FaultType DEF TypeOK, PayloadCut
<1>4. TypeOK'
  BY <1>1, <1>2, <1>3 DEF TypeOK, PayloadCut, stores, secrets, flags
<1>5. Durable' /\ RunningPending'
  BY DEF StoreInv, Durable, RunningPending, InProgress, Pending, PayloadCut, stores
<1> QED BY <1>4, <1>5 DEF StoreInv

(* Loading auth.db changes nothing but the secrets, which start empty: the *)
(* file holds what the memory of the dead process held.                    *)
LEMMA ReloadSame ==
  ASSUME StoreInv, NEW s \in Site, Reload(s)
  PROVE  /\ to' = to /\ from' = from
         /\ to_secret' \in [Site -> [Login -> Pwd \cup {NoPwd}]]
         /\ from_secret' \in [Site -> [Login -> Pwd \cup {NoPwd}]]
<1>1. TypeOK
  BY DEF StoreInv
<1>2. disk[s].to = to[s] /\ disk[s].from = from[s]
  <2>1. disk[s] = [to |-> to[s], from |-> from[s]]
    BY DEF StoreInv, Durable
  <2> QED BY <2>1
<1>3. to \in [Site -> [Login -> ToEntry]] /\ from \in [Site -> [Login -> Pwd]]
  BY <1>1 DEF TypeOK
<1>4. to' = [to EXCEPT ![s] = to[s]] /\ from' = [from EXCEPT ![s] = from[s]]
  BY <1>2 DEF Reload
<1>5. to' = to /\ from' = from
  BY <1>3, <1>4
<1>6. /\ to_secret' \in [Site -> [Login -> Pwd \cup {NoPwd}]]
      /\ from_secret' \in [Site -> [Login -> Pwd \cup {NoPwd}]]
  BY <1>1 DEF TypeOK, Reload
<1> QED BY <1>5, <1>6

LEMMA StoreCrash ==
  ASSUME StoreInv, NEW s \in Site, Crash(s)
  PROVE  StoreInv'
<1>1. TypeOK /\ Durable /\ RunningPending /\ Reload(s) /\ Stop(s)
  BY DEF StoreInv, Crash
<1>2. faults' \in 0 .. MaxFaults
  BY <1>1, FaultType DEF Crash
<1>3. NoChallenge \in Context /\ ~NoChallenge.toSend /\ ~NoChallenge.running
  BY MIdAssumption DEF NoChallenge, Context, MId
<1>4. /\ challenge_ctxt' \in [Site -> Context]
      /\ internal_pc' \in [Site -> {"wait", "initiate", "launch", "done"}]
      /\ send_q' \in [Site -> Seq(SendEntry)]
      /\ internal_q' \in [Site -> Seq(Internal)]
      /\ app' \in [Site -> Login \cup {NoLogin}]
  BY <1>1, <1>3 DEF TypeOK, Crash
<1>5. allClearRxed' \in [Site -> BOOLEAN] /\ allClearSent' \in [Site -> BOOLEAN]
  BY <1>1 DEF TypeOK, Crash
<1>6. UNCHANGED <<expired, disk, net>>
  BY DEF Crash
<1>7. TypeOK'
  BY <1>1, <1>2, <1>4, <1>5, <1>6, ReloadSame, StopType DEF TypeOK
<1>8. Durable'
  BY <1>1, <1>6, ReloadSame DEF Durable
<1>9. RunningPending'
  BY <1>1, <1>3, ReloadSame DEF TypeOK, RunningPending, InProgress, Pending, Crash
<1> QED BY <1>7, <1>8, <1>9 DEF StoreInv

LEMMA StoreConnect ==
  ASSUME StoreInv, Connect
  PROVE  StoreInv'
<1>1. TypeOK /\ Durable /\ Reload(Follower) /\ Follower \in Site
  BY DEF StoreInv, Connect, Site
<1>2. NoChallenge \in Context /\ ~NoChallenge.toSend /\ ~NoChallenge.running
  BY MIdAssumption DEF NoChallenge, Context, MId
<1>3. /\ challenge_ctxt' \in [Site -> Context]
      /\ internal_pc' \in [Site -> {"wait", "initiate", "launch", "done"}]
      /\ send_q' \in [Site -> Seq(SendEntry)]
      /\ net' \in [Site -> Seq(Encrypted)]
      /\ internal_q' \in [Site -> Seq(Internal)]
      /\ app' \in [Site -> Login \cup {NoLogin}]
  BY <1>2 DEF Connect
<1>4. /\ live' \in [Site -> BOOLEAN] /\ link' \in BOOLEAN
      /\ allClearRxed' \in [Site -> BOOLEAN] /\ allClearSent' \in [Site -> BOOLEAN]
  BY DEF Connect
<1>5. UNCHANGED <<expired, disk, faults>>
  BY DEF Connect
<1>6. TypeOK'
  BY <1>1, <1>3, <1>4, <1>5, ReloadSame DEF TypeOK
<1>7. Durable'
  BY <1>1, <1>5, ReloadSame DEF Durable
<1>8. RunningPending'
  BY <1>2 DEF RunningPending, InProgress, Connect
<1> QED BY <1>6, <1>7, <1>8 DEF StoreInv

-----------------------------------------------------------------------------
(* Whatever is lost, stopped or restarted, auth.db holds what the memory   *)
(* of its site holds and a running challenge has a password to switch to.  *)
THEOREM StoreInvariant == Spec => []StoreInv
<1>1. StoreInv /\ [Next]_vars => StoreInv'
  <2> SUFFICES ASSUME StoreInv, [Next]_vars PROVE StoreInv'
    OBVIOUS
  <2>1. CASE UNCHANGED vars
    <3>1. TypeOK'
      BY <2>1 DEF StoreInv, TypeOK, vars, stores, secrets, flags, queues
    <3>2. Durable' /\ RunningPending'
      BY <2>1 DEF StoreInv, Durable, RunningPending, InProgress, Pending, vars, stores
    <3> QED BY <3>1, <3>2 DEF StoreInv
  <2>2. CASE ConnectionBreaks \/ Connect
    BY <2>2, StoreBreaks, StoreConnect
  <2>3. ASSUME NEW s \in Site, HandleMessage(s) PROVE StoreInv'
    BY <2>3, StoreAllClear, StoreRequest, StoreResponse, StorePing, StorePong DEF HandleMessage
  <2>4. ASSUME NEW s \in Site,
               \/ \E l \in Login : Expire(s, l)
               \/ cyber_send(s)
               \/ cyber_receive(s)
               \/ InternalInitiate(s)
               \/ InternalIdle(s)
               \/ Launch(s)
        PROVE  StoreInv'
    BY <2>4, StoreExpire, StoreSend, StoreReceive, StoreInitiate, StoreLaunch
  <2>5. ASSUME NEW s \in Site,
               \/ SendChoose(s)
               \/ SendPush(s)
               \/ ChallengeTimeout(s)
               \/ ConnectionLost(s)
               \/ PayloadCut(s)
               \/ Crash(s)
        PROVE  StoreInv'
    BY <2>5, StoreSendChoose, StoreSendPush, StoreTimeout, StoreLost, StoreCut,
        StoreCrash
  <2> QED BY <2>1, <2>2, <2>3, <2>4, <2>5 DEF Next
<1> QED BY <1>1, StoreInit, PTL DEF Spec

(* Every variable keeps its type; in particular a password is never        *)
(* replaced by the absence of one.                                         *)
THEOREM TypeCorrect == Spec => []TypeOK
<1>1. StoreInv => TypeOK
  BY DEF StoreInv
<1> QED BY <1>1, StoreInvariant, PTL

-----------------------------------------------------------------------------
(* A key used to encrypt or to decrypt is the current password.            *)
LEMMA KeyCurrent ==
  ASSUME SecretsCurrent, NEW s \in Site, NEW l \in Login
  PROVE  ToKey(s, l) = to[s][l].pwd /\ FromKey(s, l) = from[s][l]
BY DEF SecretsCurrent, ToKey, FromKey

(* A switch drops the secret of the password it replaces.                  *)
LEMMA SecretsSwitch ==
  ASSUME StoreInv, SecretsCurrent, NEW s \in Site, NEW l \in Login,
         auth_switch_to_new_pwd(s, l), UNCHANGED <<from, from_secret>>
  PROVE  SecretsCurrent'
<1>1. TypeOK
  BY DEF StoreInv
<1>2. \A t \in Site, k \in Login : <<t, k>> # <<s, l>> =>
         to'[t][k] = to[t][k] /\ to_secret'[t][k] = to_secret[t][k]
  BY <1>1 DEF TypeOK, auth_switch_to_new_pwd
<1>3. to_secret'[s][l] = NoPwd
  BY <1>1 DEF TypeOK, auth_switch_to_new_pwd
<1> QED BY <1>2, <1>3 DEF SecretsCurrent

(* initiateChallenge caches the secret of the password it does not change. *)
LEMMA SecretsInitiate ==
  ASSUME StoreInv, SecretsCurrent, NEW s \in Site, initiateChallenge(s),
         UNCHANGED <<from, from_secret>>
  PROVE  SecretsCurrent'
<1>1. TypeOK
  BY DEF StoreInv
<1>2. CASE UNCHANGED <<to, to_secret>>
  BY <1>2 DEF SecretsCurrent
<1>3. CASE StartChallenge(s)
  <2>1. PICK l \in Login, p \in Pwd :
          /\ auth_get_new_pwd(s, l, p)
          /\ to_secret' = [to_secret EXCEPT ![s][l] = ToKey(s, l)]
    BY <1>3 DEF StartChallenge, Due, Login
  <2>2. \A t \in Site, k \in Login : to'[t][k].pwd = to[t][k].pwd
    BY <1>1, <2>1 DEF TypeOK, ToEntry, auth_get_new_pwd
  <2>3. \A t \in Site, k \in Login : to_secret'[t][k] \in {to_secret[t][k], to[t][k].pwd}
    BY <1>1, <2>1, KeyCurrent DEF TypeOK
  <2> QED BY <2>2, <2>3 DEF SecretsCurrent
<1> QED BY <1>2, <1>3 DEF initiateChallenge, SendAllClear

(* No cached secret outlives its password, whichever thread derives it and *)
(* whichever changes the password: auth_secret_delete_by_key is called     *)
(* wherever it must be.                                                    *)
THEOREM SecretsAlwaysCurrent == Spec => []SecretsCurrent
<1>1. Init => SecretsCurrent
  BY DEF Init, SecretsCurrent
<1>2. StoreInv /\ SecretsCurrent /\ [Next]_vars => SecretsCurrent'
  <2> SUFFICES ASSUME StoreInv, SecretsCurrent, [Next]_vars PROVE SecretsCurrent'
    OBVIOUS
  <2>1. TypeOK
    BY DEF StoreInv
  <2>2. CASE UNCHANGED <<to, from, secrets>>
    BY <2>2 DEF SecretsCurrent, secrets
  <2>3. ASSUME NEW s \in Site, cyber_send(s) PROVE SecretsCurrent'
    <3> DEFINE e == Head(send_q[s])
    <3>1. SendLogin(e) \in Login
      BY <2>1, <2>3, QueueTail, WrittenType DEF TypeOK, cyber_send
    <3>2. \A t \in Site, k \in Login : to_secret'[t][k] \in {to_secret[t][k], to[t][k].pwd}
      BY <2>1, <2>3, <3>1, KeyCurrent DEF TypeOK, cyber_send
    <3> QED BY <2>3, <3>2 DEF SecretsCurrent, cyber_send, stores
  <2>4. ASSUME NEW s \in Site, cyber_receive(s) PROVE SecretsCurrent'
    <3> DEFINE e == Head(net[Peer(s)])
    <3>1. e \in Encrypted
      BY <2>1, <2>4, PeerType, QueueTail DEF TypeOK, cyber_receive
    <3>2. e.login \in Login
      BY <3>1 DEF Encrypted
    <3>3. \A t \in Site, k \in Login : from_secret'[t][k] \in {from_secret[t][k], from[t][k]}
      BY <2>1, <2>4, <3>2, KeyCurrent DEF TypeOK, cyber_receive
    <3> QED BY <2>4, <3>3 DEF SecretsCurrent, cyber_receive, stores
  <2>5. ASSUME NEW s \in Site, HandleChangePwdRequest(s) PROVE SecretsCurrent'
    <3> DEFINE i == Head(internal_q[s])
    <3>1. UNCHANGED <<to, to_secret>>
      BY <2>5 DEF HandleChangePwdRequest
    <3>2. CASE UNCHANGED <<from, from_secret>>
      BY <3>1, <3>2 DEF SecretsCurrent
    <3>3. CASE auth_set_pwd(s, i.login, i.ptxt.arg)
      <4>1. \A t \in Site, k \in Login :
               \/ from'[t][k] = from[t][k] /\ from_secret'[t][k] = from_secret[t][k]
               \/ from_secret'[t][k] = NoPwd
        BY <2>1, <3>3 DEF TypeOK, auth_set_pwd
      <4> QED BY <3>1, <4>1 DEF SecretsCurrent
    <3> QED BY <2>5, <3>2, <3>3 DEF HandleChangePwdRequest
  <2>6. ASSUME NEW s \in Site, HandleChangePwdResponse(s) \/ HandlePong(s) PROVE SecretsCurrent'
    <3>1. UNCHANGED <<from, from_secret>>
      BY <2>6 DEF HandleChangePwdResponse, HandlePong
    <3>2. CASE UNCHANGED <<to, to_secret>>
      BY <3>1, <3>2 DEF SecretsCurrent
    <3>3. CASE challenge_ctxt[s].running /\ auth_switch_to_new_pwd(s, challenge_ctxt[s].login)
      <4>1. challenge_ctxt[s].login \in Login
        BY <3>3 DEF StoreInv, RunningPending, InProgress
      <4> QED BY <3>1, <3>3, <4>1, SecretsSwitch
    <3> QED BY <2>6, <3>2, <3>3 DEF HandleChangePwdResponse, HandlePong, Answers
  <2>7. ASSUME NEW s \in Site, InternalInitiate(s) \/ InternalIdle(s) PROVE SecretsCurrent'
    BY <2>7, SecretsInitiate DEF InternalInitiate, InternalIdle
  <2>8. ASSUME NEW s \in Site, Reload(s) PROVE SecretsCurrent'
    <3>1. \A t \in Site, k \in Login : /\ to_secret'[t][k] \in {to_secret[t][k], NoPwd}
                                      /\ from_secret'[t][k] \in {from_secret[t][k], NoPwd}
      BY <2>1, <2>8 DEF TypeOK, Reload
    <3> QED BY <2>8, <3>1, ReloadSame DEF SecretsCurrent
  <2>9. ASSUME NEW s \in Site,
               \/ \E l \in Login : Expire(s, l)
               \/ HandleAllClear(s)
               \/ HandlePing(s)
               \/ Launch(s)
               \/ SendChoose(s)
               \/ SendPush(s)
               \/ ChallengeTimeout(s)
               \/ ConnectionLost(s)
               \/ PayloadCut(s)
        PROVE  UNCHANGED <<to, from, secrets>>
    BY <2>9 DEF Expire, HandleAllClear, HandlePing, Launch, SendChoose, SendPush, ChallengeTimeout,
                ConnectionLost, PayloadCut, stores
  <2>10. CASE ConnectionBreaks \/ UNCHANGED vars
    BY <2>2, <2>10 DEF ConnectionBreaks, stores, vars
  <2>11. CASE Connect
    BY <2>8, <2>11 DEF Connect, Site
  <2> QED BY <2>2, <2>3, <2>4, <2>5, <2>6, <2>7, <2>8, <2>9, <2>10, <2>11 DEF Next, HandleMessage, Crash
<1> QED BY <1>1, <1>2, StoreInvariant, PTL DEF Spec

-----------------------------------------------------------------------------
(* Queues.  What adding to one and taking from one does to the messages of *)
(* a kind it holds.                                                        *)
LEMMA EmptyQueue ==
  ASSUME NEW S, NEW A, NEW B
  PROVE  Elems(<<>>) = {} /\ ~Has(<<>>, S) /\ Once(<<>>, S) /\ Before(<<>>, A, B)
BY DEF Elems, Has, Once, Before, Index

LEMMA HasElems ==
  ASSUME NEW q, NEW S
  PROVE  Has(q, S) <=> \E e \in Elems(q) : e \in S
BY DEF Has, Elems, Index

(* A queue of messages of a type holds messages of that type.              *)
LEMMA ElemsType ==
  ASSUME NEW T, NEW q \in Seq(T)
  PROVE  \A e \in Elems(q) : e \in T
BY ElementOfSeq, LenProperties DEF Elems

LEMMA AppendQueue ==
  ASSUME NEW T, NEW q \in Seq(T), NEW e \in T, NEW S
  PROVE  /\ Elems(Append(q, e)) = Elems(q) \cup {e}
         /\ Has(Append(q, e), S) <=> Has(q, S) \/ e \in S
         /\ Once(q, S) /\ (e \notin S \/ ~Has(q, S)) => Once(Append(q, e), S)
<1>1. /\ Len(Append(q, e)) = Len(q) + 1 /\ Append(q, e) \in Seq(T)
      /\ \A i \in 1 .. Len(q) : Append(q, e)[i] = q[i]
      /\ Append(q, e)[Len(q) + 1] = e
  BY AppendProperties
<1>2. Len(q) \in Nat /\ DOMAIN q = 1 .. Len(q) /\ DOMAIN Append(q, e) = 1 .. Len(q) + 1
  BY <1>1, LenProperties
<1>3. Elems(Append(q, e)) = Elems(q) \cup {e}
  BY <1>1, <1>2 DEF Elems
<1>4. Has(Append(q, e), S) <=> Has(q, S) \/ e \in S
  BY <1>3, HasElems
<1>5. Index(Append(q, e), S) = Index(q, S) \cup (IF e \in S THEN {Len(q) + 1} ELSE {})
  BY <1>1, <1>2 DEF Index
<1>6. Once(q, S) /\ (e \notin S \/ ~Has(q, S)) => Once(Append(q, e), S)
  BY <1>5 DEF Once, Has
<1> QED BY <1>3, <1>4, <1>6

LEMMA AppendBefore ==
  ASSUME NEW T, NEW q \in Seq(T), NEW e \in T, NEW A, NEW B, Before(q, A, B),
         e \in A => ~Has(q, B) /\ e \notin B
  PROVE  Before(Append(q, e), A, B)
<1>1. /\ Len(Append(q, e)) = Len(q) + 1 /\ Append(q, e) \in Seq(T)
      /\ \A i \in 1 .. Len(q) : Append(q, e)[i] = q[i]
      /\ Append(q, e)[Len(q) + 1] = e
  BY AppendProperties
<1>2. Len(q) \in Nat /\ DOMAIN q = 1 .. Len(q) /\ DOMAIN Append(q, e) = 1 .. Len(q) + 1
  BY <1>1, LenProperties
<1>3. \A S : Index(Append(q, e), S) = Index(q, S) \cup (IF e \in S THEN {Len(q) + 1} ELSE {})
  BY <1>1, <1>2 DEF Index
<1>4. \A S : \A i \in Index(q, S) : i \in 1 .. Len(q)
  BY <1>2 DEF Index
<1>5. SUFFICES ASSUME NEW i \in Index(Append(q, e), A), NEW j \in Index(Append(q, e), B)
               PROVE  i < j
  BY DEF Before
<1>6. CASE i \in Index(q, A) /\ j \in Index(q, B)
  BY <1>6 DEF Before
<1>7. CASE i \in Index(q, A) /\ e \in B /\ j = Len(q) + 1
  BY <1>2, <1>4, <1>7
<1>8. CASE e \in A
  BY <1>3, <1>5, <1>4, <1>8, <1>2 DEF Has
<1> QED BY <1>3, <1>5, <1>6, <1>7, <1>8

LEMMA TailQueue ==
  ASSUME NEW T, NEW q \in Seq(T), q # <<>>, NEW S
  PROVE  /\ Elems(Tail(q)) \subseteq Elems(q) /\ Head(q) \in Elems(q)
         /\ Has(Tail(q), S) => Has(q, S)
         /\ Head(q) \in S => Has(q, S)
         /\ Once(q, S) => Once(Tail(q), S) /\ (Head(q) \in S => ~Has(Tail(q), S))
<1>1. /\ Tail(q) \in Seq(T) /\ Len(Tail(q)) = Len(q) - 1
      /\ \A i \in 1 .. Len(Tail(q)) : Tail(q)[i] = q[i + 1]
  BY HeadTailProperties
<1>2. Len(q) \in Nat \ {0} /\ DOMAIN q = 1 .. Len(q) /\ DOMAIN Tail(q) = 1 .. Len(q) - 1
  BY <1>1, LenProperties, EmptySeq
<1>3. Head(q) = q[1] /\ 1 \in DOMAIN q
  BY <1>2
<1>4. \A i \in Index(Tail(q), S) : i + 1 \in Index(q, S) /\ i \in Nat \ {0}
  BY <1>1, <1>2 DEF Index
<1>5. Elems(Tail(q)) \subseteq Elems(q) /\ Head(q) \in Elems(q)
  BY <1>1, <1>2, <1>3 DEF Elems
<1>6. Has(Tail(q), S) => Has(q, S)
  BY <1>4 DEF Has
<1>7. Head(q) \in S => 1 \in Index(q, S)
  BY <1>3 DEF Index
<1>8. ASSUME Once(q, S) PROVE Once(Tail(q), S) /\ (Head(q) \in S => ~Has(Tail(q), S))
  <2>1. \A i, j \in Index(Tail(q), S) : i = j
    BY <1>4, <1>8 DEF Once
  <2>2. ASSUME Head(q) \in S, NEW i \in Index(Tail(q), S) PROVE FALSE
    BY <1>4, <1>7, <1>8, <2>2 DEF Once
  <2> QED BY <2>1, <2>2 DEF Once, Has
<1> QED BY <1>5, <1>6, <1>7, <1>8 DEF Has

LEMMA TailBefore ==
  ASSUME NEW T, NEW q \in Seq(T), q # <<>>, NEW A, NEW B, Before(q, A, B)
  PROVE  Before(Tail(q), A, B) /\ (Head(q) \in B => ~Has(q, A))
<1>1. /\ Tail(q) \in Seq(T) /\ Len(Tail(q)) = Len(q) - 1
      /\ \A i \in 1 .. Len(Tail(q)) : Tail(q)[i] = q[i + 1]
  BY HeadTailProperties
<1>2. Len(q) \in Nat \ {0} /\ DOMAIN q = 1 .. Len(q) /\ DOMAIN Tail(q) = 1 .. Len(q) - 1
  BY <1>1, LenProperties, EmptySeq
<1>3. Head(q) = q[1] /\ 1 \in DOMAIN q
  BY <1>2
<1>4. \A S : \A i \in Index(Tail(q), S) : i + 1 \in Index(q, S) /\ i \in Nat \ {0}
  BY <1>1, <1>2 DEF Index
<1>5. \A i \in Index(Tail(q), A), j \in Index(Tail(q), B) : i < j
  BY <1>4 DEF Before
<1>6. Head(q) \in B => 1 \in Index(q, B)
  BY <1>3 DEF Index
<1>7. \A i \in Index(q, A) : ~(i < 1)
  BY <1>2 DEF Index
<1>8. Head(q) \in B => Index(q, A) = {}
  BY <1>6, <1>7 DEF Before
<1> QED BY <1>5, <1>8 DEF Before, Has

-----------------------------------------------------------------------------
(* The invariant of the challenge sequence, one lemma per kind of step.    *)

(* A queue that only loses messages keeps its shape.                       *)
LEMMA ShapesKept ==
  ASSUME NEW t \in Site, Shapes(t), UNCHANGED <<to, from>>,
         Elems(send_q'[t]) \subseteq Elems(send_q[t]),
         Elems(net'[t]) \subseteq Elems(net[t]),
         Elems(internal_q'[t]) \subseteq Elems(internal_q[t])
  PROVE  Shapes(t)'
BY DEF Shapes, EntryShape, SentShape, ReadShape, IsChallenge, Pending

(* A challenge is recognised by its first element.                         *)
LEMMA ChallengeFirst ==
  ASSUME NEW s \in Site, NEW l, NEW data, IsChallenge(s, l, data)
  PROVE  data[1].ptxt.type \in RequestType
BY DEF IsChallenge, ChangePwdRequest, RequestType

(* A step that only takes messages away.                                   *)
Trimmed(r, q) == r = q \/ r = <<>> \/ (q # <<>> /\ r = Tail(q))
QueuesTrimmed ==
    \A t \in Site : /\ Trimmed(send_q'[t], send_q[t])
                    /\ Trimmed(net'[t], net[t])
                    /\ Trimmed(internal_q'[t], internal_q[t])

LEMMA TrimQueue ==
  ASSUME NEW T, NEW q \in Seq(T), NEW r, Trimmed(r, q), NEW S, NEW A, NEW B
  PROVE  /\ Elems(r) \subseteq Elems(q)
         /\ Has(r, S) => Has(q, S)
         /\ Once(q, S) => Once(r, S)
         /\ Before(q, A, B) => Before(r, A, B)
<1>1. CASE r = q
  BY <1>1
<1>2. CASE r = <<>>
  BY <1>2, EmptyQueue
<1>3. CASE q # <<>> /\ r = Tail(q)
  BY <1>3, TailQueue, TailBefore
<1> QED BY <1>1, <1>2, <1>3 DEF Trimmed

LEMMA TokenKept ==
  ASSUME NEW t \in Site, OneToken(t),
         \A k \in 1 .. 6 : OnceAt(t, k)' /\ (At(t, k)' => At(t, k))
  PROVE  OneToken(t)'
BY DEF OneToken

LEMMA TokenMoved ==
  ASSUME NEW t \in Site, OneToken(t), NEW a \in 1 .. 6, NEW b \in 1 .. 6,
         At(t, a), ~At(t, a)',
         \A k \in 1 .. 6 : OnceAt(t, k)' /\ (At(t, k)' => At(t, k) \/ k = b)
  PROVE  OneToken(t)'
BY DEF OneToken

LEMMA TrimTokens ==
  ASSUME TypeOK, NEW t \in Site, QueuesTrimmed
  PROVE  /\ \A k \in 1 .. 6 : At(t, k)' => At(t, k)
         /\ OneToken(t) => OneToken(t)'
<1>1. Peer(t) \in Site
  BY PeerType
<1>2. /\ send_q[t] \in Seq(SendEntry) /\ send_q[Peer(t)] \in Seq(SendEntry)
      /\ net[t] \in Seq(Encrypted) /\ net[Peer(t)] \in Seq(Encrypted)
      /\ internal_q[t] \in Seq(Internal) /\ internal_q[Peer(t)] \in Seq(Internal)
  BY <1>1 DEF TypeOK
<1>3. /\ Trimmed(send_q'[t], send_q[t]) /\ Trimmed(send_q'[Peer(t)], send_q[Peer(t)])
      /\ Trimmed(net'[t], net[t]) /\ Trimmed(net'[Peer(t)], net[Peer(t)])
      /\ Trimmed(internal_q'[t], internal_q[t])
      /\ Trimmed(internal_q'[Peer(t)], internal_q[Peer(t)])
  BY <1>1 DEF QueuesTrimmed
<1>4. \A k \in 1 .. 6 : At(t, k)' => At(t, k)
  <2>1. \A S : /\ Has(send_q'[t], S) => Has(send_q[t], S)
               /\ Has(send_q'[Peer(t)], S) => Has(send_q[Peer(t)], S)
               /\ Has(net'[t], S) => Has(net[t], S)
               /\ Has(net'[Peer(t)], S) => Has(net[Peer(t)], S)
               /\ Has(internal_q'[t], S) => Has(internal_q[t], S)
               /\ Has(internal_q'[Peer(t)], S) => Has(internal_q[Peer(t)], S)
    BY <1>2, <1>3, TrimQueue
  <2> QED BY <2>1 DEF At
<1>5. \A k \in 1 .. 6 : OnceAt(t, k) => OnceAt(t, k)'
  BY <1>2, <1>3, TrimQueue DEF OnceAt
<1>6. OneToken(t) => OneToken(t)'
  BY <1>4, <1>5 DEF OneToken
<1> QED BY <1>4, <1>6

(* What such a step may do to the challenge of a site: leave it, or end    *)
(* the process or the session that had it.                                 *)
SameChallenge(t) ==
    /\ challenge_ctxt'[t].running = challenge_ctxt[t].running
    /\ challenge_ctxt[t].running => challenge_ctxt'[t].login = challenge_ctxt[t].login
    /\ challenge_ctxt'[t].toSend => challenge_ctxt'[t].running
    /\ allClearSent'[t] = allClearSent[t]
    /\ live'[t] => internal_pc'[t] # "done"
    /\ internal_pc'[t] # "done" => internal_pc[t] # "done"
NewChallenge(t) ==
    /\ ~challenge_ctxt'[t].running /\ ~challenge_ctxt'[t].toSend
    /\ ~allClearSent'[t]
    /\ live'[t] => internal_pc'[t] # "done"
    /\ internal_pc'[t] = "done" \/ NoToken(t)'

LEMMA TrimInv ==
  ASSUME ChallengeInv, QueuesTrimmed, UNCHANGED <<to, from>>,
         \A t \in Site : SameChallenge(t) \/ NewChallenge(t)
  PROVE  TokenInv'
<1>1. TypeOK /\ TokenInv
  BY DEF ChallengeInv, StoreInv
<1>2. CredentialAgreement' /\ NewPwdDiffers'
  BY <1>1 DEF TokenInv, CredentialAgreement, NewPwdDiffers, Pending
<1>3. ASSUME NEW t \in Site
      PROVE  /\ Shapes(t)' /\ OneToken(t)' /\ Settled(t)' /\ Matching(t)'
             /\ OthersInStep(t)' /\ AllClearAhead(t)'
  <2>1. /\ Shapes(t) /\ OneToken(t) /\ Settled(t) /\ Matching(t)
        /\ OthersInStep(t) /\ AllClearAhead(t)
    BY <1>1 DEF TokenInv
  <2>2. Peer(t) \in Site
    BY PeerType
  <2>3. /\ send_q[t] \in Seq(SendEntry) /\ send_q[Peer(t)] \in Seq(SendEntry)
        /\ net[t] \in Seq(Encrypted) /\ net[Peer(t)] \in Seq(Encrypted)
        /\ internal_q[t] \in Seq(Internal) /\ internal_q[Peer(t)] \in Seq(Internal)
    BY <1>1, <2>2 DEF TypeOK
  <2>4. /\ Trimmed(send_q'[t], send_q[t]) /\ Trimmed(send_q'[Peer(t)], send_q[Peer(t)])
        /\ Trimmed(net'[t], net[t]) /\ Trimmed(net'[Peer(t)], net[Peer(t)])
        /\ Trimmed(internal_q'[t], internal_q[t])
        /\ Trimmed(internal_q'[Peer(t)], internal_q[Peer(t)])
    BY <2>2 DEF QueuesTrimmed
  <2>5. /\ Elems(send_q'[t]) \subseteq Elems(send_q[t])
        /\ Elems(send_q'[Peer(t)]) \subseteq Elems(send_q[Peer(t)])
        /\ Elems(net'[t]) \subseteq Elems(net[t])
        /\ Elems(net'[Peer(t)]) \subseteq Elems(net[Peer(t)])
        /\ Elems(internal_q'[t]) \subseteq Elems(internal_q[t])
        /\ Elems(internal_q'[Peer(t)]) \subseteq Elems(internal_q[Peer(t)])
    BY <2>3, <2>4, TrimQueue
  <2>6. OneToken(t)' /\ \A k \in 1 .. 6 : At(t, k)' => At(t, k)
    BY <1>1, <2>1, TrimTokens
  <2>7. Shapes(t)'
    BY <2>1, <2>5 DEF Shapes, EntryShape, SentShape, ReadShape, IsChallenge, Pending
  <2>8. Settled(t)'
    <3>1. NoToken(t) => NoToken(t)'
      BY <2>6 DEF NoToken
    <3> QED BY <2>1, <3>1 DEF Settled, SameChallenge, NewChallenge
  <2>9. Matching(t)'
    <3>1. CASE ~challenge_ctxt'[t].running
      BY <3>1 DEF Matching
    <3>2. CASE challenge_ctxt'[t].running
      <4>1. challenge_ctxt[t].running /\ challenge_ctxt'[t].login = challenge_ctxt[t].login
        BY <3>2 DEF SameChallenge, NewChallenge
      <4> QED BY <2>1, <2>5, <4>1 DEF Matching, AnswerTrue
    <3> QED BY <3>1, <3>2
  <2>10. OthersInStep(t)'
    BY <2>1 DEF OthersInStep, InStep, SameChallenge, NewChallenge
  <2>11. AllClearAhead(t)'
    <3>1. /\ Before(send_q'[t], EntryOf({"AllClear"}), EntryOf(RequestType))
          /\ Before(net'[t], SentOf({"AllClear"}), SentOf(RequestType))
      BY <2>1, <2>3, <2>4, TrimQueue DEF AllClearAhead
    <3>2. /\ Has(send_q'[t], EntryOf({"AllClear"})) => Has(send_q[t], EntryOf({"AllClear"}))
          /\ Has(net'[t], SentOf({"AllClear"})) => Has(net[t], SentOf({"AllClear"}))
      BY <2>3, <2>4, TrimQueue
    <3> QED BY <2>1, <2>5, <2>6, <3>1, <3>2 DEF AllClearAhead, InStep
  <2> QED BY <2>1, <2>6, <2>7, <2>8, <2>9, <2>10, <2>11
<1> QED BY <1>2, <1>3 DEF TokenInv

(* There are two sites.                                                    *)
LEMMA OtherSite ==
  ASSUME NEW s \in Site, NEW t \in Site
  PROVE  t = s \/ t = Peer(s)
BY DEF Site, Peer

(* What TokenInv says of one site, with the types of its queues.           *)
LEMMA SiteFacts ==
  ASSUME ChallengeInv, NEW t \in Site
  PROVE  /\ Peer(t) \in Site /\ Peer(t) # t /\ Peer(Peer(t)) = t
         /\ send_q[t] \in Seq(SendEntry) /\ net[t] \in Seq(Encrypted)
         /\ internal_q[t] \in Seq(Internal)
         /\ Shapes(t) /\ OneToken(t) /\ Settled(t) /\ Matching(t)
         /\ OthersInStep(t) /\ AllClearAhead(t)
<1>1. /\ Shapes(t) /\ OneToken(t) /\ Settled(t) /\ Matching(t)
      /\ OthersInStep(t) /\ AllClearAhead(t)
  BY DEF ChallengeInv, TokenInv
<1>2. send_q[t] \in Seq(SendEntry) /\ net[t] \in Seq(Encrypted) /\ internal_q[t] \in Seq(Internal)
  BY DEF ChallengeInv, StoreInv, TypeOK
<1> QED BY <1>1, <1>2, PeerType

(* Conversely, TokenInv holds after a step when it does of both sites.     *)
LEMMA BothSites ==
  ASSUME NEW s \in Site, CredentialAgreement', NewPwdDiffers',
         Shapes(s)' /\ OneToken(s)' /\ Settled(s)' /\ Matching(s)'
           /\ OthersInStep(s)' /\ AllClearAhead(s)',
         Shapes(Peer(s))' /\ OneToken(Peer(s))' /\ Settled(Peer(s))' /\ Matching(Peer(s))'
           /\ OthersInStep(Peer(s))' /\ AllClearAhead(Peer(s))'
  PROVE  TokenInv'
<1>1. \A t \in Site : t = s \/ t = Peer(s)
  BY OtherSite
<1>2. ASSUME NEW t \in Site
      PROVE  Shapes(t)' /\ OneToken(t)' /\ Settled(t)' /\ Matching(t)'
               /\ OthersInStep(t)' /\ AllClearAhead(t)'
  <2>1. CASE t = s
    BY <2>1
  <2>2. CASE t = Peer(s)
    BY <2>2
  <2> QED BY <1>1, <2>1, <2>2
<1> QED BY <1>2 DEF TokenInv

(* What cyber_send writes for an entry of send_q.                          *)
LEMMA WrittenShape ==
  ASSUME ChallengeInv, NEW s \in Site, NEW e \in SendEntry, EntryShape(s, e),
         NEW m, m = Encrypted_write(s, e)
  PROVE  /\ m \in Encrypted
         /\ SentShape(s, m)
         /\ m.data[1].ptxt = e.data[1].ptxt
         /\ \A T : m \in SentOf(T) <=> e \in EntryOf(T)
         /\ e \in EntryOf(RequestType) => m.login = e.login
         /\ e \in EntryOf({"AllClear"}) => m.data[1].key = to[s][m.login].pwd
<1>1. TypeOK /\ SecretsCurrent
  BY DEF ChallengeInv, StoreInv
<1>2. m \in Encrypted /\ SendLogin(e) \in Login
  BY <1>1, WrittenType
<1>3. CASE e.flag_do_encrypt
  <2> DEFINE x == [key |-> ToKey(s, SendLogin(e)), ptxt |-> e.data[1].ptxt]
  <2>1. m.login = SendLogin(e) /\ m.data = <<x>>
    BY <1>3 DEF Encrypted_write
  <2>2. Len(m.data) = 1 /\ m.data[1] = x
    BY <2>1
  <2>3. x.key = to[s][SendLogin(e)].pwd
    BY <1>1, <1>2, KeyCurrent
  <2>4. e.data[1].ptxt.type \in SingleType
    BY <1>3 DEF EntryShape
  <2>5. e \notin EntryOf(RequestType)
    BY <2>4 DEF EntryOf, RequestType, SingleType, AnswerType
  <2> QED BY <1>2, <2>1, <2>2, <2>3, <2>4, <2>5 DEF SentShape, SentOf, EntryOf
<1>4. CASE ~e.flag_do_encrypt
  <2>1. e.login \in Login /\ IsChallenge(s, e.login, e.data)
    BY <1>4 DEF EntryShape
  <2>2. m.login = e.login /\ m.data = e.data
    BY <1>4, <2>1, LoginAssumption DEF Encrypted_write, SendLogin
  <2>3. e.data[1].ptxt.type = "ChangePwdRequest"
    BY <2>1 DEF IsChallenge, ChangePwdRequest
  <2>4. e \notin EntryOf({"AllClear"})
    BY <2>3 DEF EntryOf
  <2> QED BY <1>2, <2>1, <2>2, <2>4 DEF SentShape, SentOf, EntryOf
<1> QED BY <1>3, <1>4 DEF SendEntry

(* cyber_send moves the head of send_q to the connection.                  *)
LEMMA SendInv ==
  ASSUME ChallengeInv, NEW s \in Site, cyber_send(s)
  PROVE  TokenInv'
<1> DEFINE e == Head(send_q[s])
           m == Encrypted_write(s, e)
           p == Peer(s)
           R == RequestType
           C == {"AllClear"}
<1>1. /\ send_q[s] # <<>> /\ UNCHANGED <<to, from, internal_q, challenge_ctxt>>
      /\ UNCHANGED <<live, internal_pc, allClearSent>>
  BY DEF cyber_send, stores, flags
<1>2. /\ p \in Site /\ p # s /\ Peer(p) = s
      /\ send_q[s] \in Seq(SendEntry) /\ net[s] \in Seq(Encrypted)
      /\ Shapes(s) /\ OneToken(s) /\ Settled(s) /\ Matching(s) /\ OthersInStep(s) /\ AllClearAhead(s)
      /\ Shapes(p) /\ OneToken(p) /\ Settled(p) /\ Matching(p) /\ OthersInStep(p) /\ AllClearAhead(p)
  BY SiteFacts
<1>3. send_q \in [Site -> Seq(SendEntry)] /\ net \in [Site -> Seq(Encrypted)]
  BY DEF ChallengeInv, StoreInv, TypeOK
<1>4. send_q'[s] = Tail(send_q[s]) /\ send_q'[p] = send_q[p]
  BY <1>2, <1>3 DEF cyber_send
<1>5. SUFFICES ASSUME link PROVE TokenInv'
  <2>1. ASSUME ~link PROVE QueuesTrimmed /\ \A t \in Site : SameChallenge(t)
    <3>1. net' = net
      BY <2>1 DEF cyber_send
    <3>2. \A t \in Site : Settled(t)
      BY SiteFacts
    <3>3. QueuesTrimmed
      BY <1>1, <1>4, <3>1, OtherSite DEF QueuesTrimmed, Trimmed
    <3> QED BY <1>1, <3>2, <3>3 DEF SameChallenge, Settled
  <2> QED BY <1>1, <2>1, TrimInv
<1>6. net'[s] = Append(net[s], m) /\ net'[p] = net[p]
  BY <1>2, <1>3, <1>5 DEF cyber_send
<1>7. e \in SendEntry /\ e \in Elems(send_q[s])
  BY <1>1, <1>2, <1>3, QueueTail, TailQueue
<1>8. /\ m \in Encrypted
      /\ SentShape(s, m)
      /\ m.data[1].ptxt = e.data[1].ptxt
      /\ \A T : m \in SentOf(T) <=> e \in EntryOf(T)
      /\ e \in EntryOf(R) => m.login = e.login
      /\ e \in EntryOf(C) => m.data[1].key = to[s][m.login].pwd
  BY <1>2, <1>7, WrittenShape DEF Shapes
<1> HIDE DEF e, m, p, R, C
<1>9. /\ Elems(send_q'[s]) \subseteq Elems(send_q[s])
      /\ Elems(net'[s]) = Elems(net[s]) \cup {m}
  BY <1>1, <1>2, <1>4, <1>6, <1>8, TailQueue, AppendQueue
<1>10. CredentialAgreement' /\ NewPwdDiffers'
  BY <1>1 DEF ChallengeInv, TokenInv, CredentialAgreement, NewPwdDiffers, Pending
<1>11. /\ \A S : Has(send_q'[s], S) => Has(send_q[s], S)
       /\ \A S : e \in S => Has(send_q[s], S)
       /\ \A S : Once(send_q[s], S) => Once(send_q'[s], S) /\ (e \in S => ~Has(send_q'[s], S))
       /\ \A S : Has(net'[s], S) <=> Has(net[s], S) \/ m \in S
       /\ \A S : Once(net[s], S) /\ (m \notin S \/ ~Has(net[s], S)) => Once(net'[s], S)
  BY <1>1, <1>2, <1>4, <1>6, <1>8, TailQueue, AppendQueue DEF e
<1>12. OneToken(s)' /\ (\A k \in 1 .. 6 : At(s, k)' => At(s, k) \/ (k = 2 /\ e \in EntryOf(R)))
  <2>1. \A k \in 1 .. 6 : At(s, k)' => At(s, k) \/ (k = 2 /\ e \in EntryOf(R))
    BY <1>1, <1>2, <1>4, <1>6, <1>8, <1>11 DEF At, R, p
  <2>2. CASE e \in EntryOf(R)
    <3>1. At(s, 1) /\ ~At(s, 1)' /\ ~At(s, 2)
      BY <1>2, <1>11, <2>2 DEF At, R, OneToken, OnceAt
    <3>2. \A k \in 1 .. 6 : OnceAt(s, k)'
      BY <1>1, <1>2, <1>4, <1>6, <1>11, <3>1 DEF OnceAt, OneToken, At, R, p
    <3> QED BY <1>2, <2>1, <3>1, <3>2, TokenMoved
  <2>3. CASE e \notin EntryOf(R)
    <3>1. \A k \in 1 .. 6 : OnceAt(s, k)'
      BY <1>1, <1>2, <1>4, <1>6, <1>8, <1>11, <2>3 DEF OnceAt, OneToken, R, p
    <3> QED BY <1>2, <2>1, <2>3, <3>1, TokenKept
  <2> QED BY <2>1, <2>2, <2>3
<1>13. OneToken(p)' /\ (\A k \in 1 .. 6 : At(p, k)' => At(p, k) \/ (k = 5 /\ e \in EntryOf(AnswerType)))
  <2>1. \A k \in 1 .. 6 : At(p, k)' => At(p, k) \/ (k = 5 /\ e \in EntryOf(AnswerType))
    BY <1>1, <1>2, <1>4, <1>6, <1>8, <1>11 DEF At
  <2>2. CASE e \in EntryOf(AnswerType)
    <3>1. At(p, 4) /\ ~At(p, 4)' /\ ~At(p, 5)
      BY <1>2, <1>11, <2>2 DEF At, OneToken, OnceAt
    <3>2. \A k \in 1 .. 6 : OnceAt(p, k)'
      BY <1>1, <1>2, <1>4, <1>6, <1>11, <3>1 DEF OnceAt, OneToken, At
    <3> QED BY <1>2, <2>1, <3>1, <3>2, TokenMoved
  <2>3. CASE e \notin EntryOf(AnswerType)
    <3>1. \A k \in 1 .. 6 : OnceAt(p, k)'
      BY <1>1, <1>2, <1>4, <1>6, <1>8, <1>11, <2>3 DEF OnceAt, OneToken
    <3> QED BY <1>2, <2>1, <2>3, <3>1, TokenKept
  <2> QED BY <2>1, <2>2, <2>3
<1>14. Shapes(s)' /\ Shapes(p)'
  <2>1. Shapes(s)'
    BY <1>1, <1>2, <1>8, <1>9 DEF Shapes, EntryShape, SentShape, ReadShape, IsChallenge, Pending
  <2>2. Shapes(p)'
    BY <1>1, <1>2, <1>4, <1>6, ShapesKept
  <2> QED BY <2>1, <2>2
<1>15. Settled(s)' /\ Settled(p)'
  <2>1. e \in EntryOf(R) => At(s, 1)
    BY <1>11 DEF At, R
  <2>2. e \in EntryOf(AnswerType) => At(p, 4)
    BY <1>2, <1>11 DEF At
  <2>3. (NoToken(s) => NoToken(s)') /\ (NoToken(p) => NoToken(p)')
    BY <1>12, <1>13, <2>1, <2>2 DEF NoToken
  <2> QED BY <1>1, <1>2, <2>3 DEF Settled
<1>16. Matching(s)'
  BY <1>1, <1>2, <1>4, <1>6, <1>7, <1>8, <1>9 DEF Matching, AnswerTrue, R, p
<1>17. Matching(p)'
  <2> SUFFICES ASSUME challenge_ctxt[p].running PROVE Matching(p)'
    BY <1>1 DEF Matching
  <2>1. /\ \A x \in Elems(send_q[s]) : AnswerTrue(p, x.data[1].ptxt)
        /\ \A x \in Elems(net[s]) : AnswerTrue(p, x.data[1].ptxt)
    BY <1>2 DEF Matching
  <2>2. /\ \A x \in Elems(send_q'[s]) : AnswerTrue(p, x.data[1].ptxt)
        /\ \A x \in Elems(net'[s]) : AnswerTrue(p, x.data[1].ptxt)
    BY <1>7, <1>8, <1>9, <2>1
  <2> QED BY <1>1, <1>2, <1>4, <1>6, <2>2 DEF Matching, AnswerTrue
<1>18. OthersInStep(s)' /\ OthersInStep(p)'
  BY <1>1, <1>2 DEF OthersInStep, InStep
<1>19. AllClearAhead(s)'
  <2>1. Before(send_q'[s], EntryOf(C), EntryOf(R)) /\ (e \in EntryOf(R) => ~Has(send_q[s], EntryOf(C)))
    BY <1>1, <1>2, <1>4, TailBefore DEF AllClearAhead, e, R, C
  <2>2. e \in EntryOf(C) => ~Has(net[s], SentOf(R)) /\ e \notin EntryOf(R)
    <3>1. e \in EntryOf(C) => Has(send_q[s], EntryOf(C))
      BY <1>11
    <3>2. Has(net[s], SentOf(R)) => At(s, 2)
      BY DEF At, R
    <3> QED BY <1>2, <2>1, <3>1, <3>2 DEF AllClearAhead, R, C
  <2>3. Before(net'[s], SentOf(C), SentOf(R))
    BY <1>2, <1>6, <1>8, <2>2, AppendBefore DEF AllClearAhead, R, C
  <2>4. Has(send_q'[s], EntryOf(C)) => \A k \in 2 .. 6 : ~At(s, k)'
    BY <1>2, <1>11, <1>12, <2>1 DEF AllClearAhead, R, C
  <2>5. Has(net'[s], SentOf(C)) => \A k \in 3 .. 6 : ~At(s, k)'
    BY <1>2, <1>8, <1>11, <1>12 DEF AllClearAhead, R, C
  <2>6. (Has(send_q'[s], EntryOf(C)) \/ Has(net'[s], SentOf(C))) => \A l \in Login : InStep(s, l)'
    BY <1>1, <1>2, <1>8, <1>11 DEF AllClearAhead, InStep, R, C
  <2>7. \A n \in Elems(net'[s]) : n \in SentOf(C) => n.data[1].key = to'[s][n.login].pwd
    BY <1>1, <1>2, <1>8, <1>9 DEF AllClearAhead, C
  <2> QED BY <2>1, <2>3, <2>4, <2>5, <2>6, <2>7 DEF AllClearAhead, R, C
<1>20. AllClearAhead(p)'
  <2>1. Has(send_q[p], EntryOf(C)) \/ Has(net[p], SentOf(C)) => e \notin EntryOf(AnswerType)
    <3>1. e \in EntryOf(AnswerType) => At(p, 4)
      BY <1>2, <1>11 DEF At
    <3> QED BY <1>2, <3>1 DEF AllClearAhead, C
  <2> QED BY <1>1, <1>2, <1>4, <1>6, <1>13, <2>1 DEF AllClearAhead, InStep, C
<1> QED BY <1>10, <1>12, <1>13, <1>14, <1>15, <1>16, <1>17, <1>18, <1>19, <1>20, BothSites DEF p

(* An element that the secret does not open, or for the application.       *)
LEMMA OpenedNone ==
  ASSUME NEW k, NEW e, NEW i, i \notin DOMAIN e.data \/ e.data[i].key # k \/ e.data[i].ptxt.type = "External"
  PROVE  Opened(k, e, i) = <<>>
BY DEF Opened

LEMMA SingleConcat == \A x : <<x>> \o <<>> = <<x>> /\ <<>> \o <<x>> = <<x>>
<1> TAKE x
<1>1. <<x>> \in Seq({x})
  OBVIOUS
<1> QED BY <1>1, ConcatEmptySeq

(* Encrypted_decode keeps at most one element of a message: the passwords  *)
(* of the two elements of a challenge differ.                              *)
LEMMA DecodedOne ==
  ASSUME ChallengeInv, NEW s \in Site, NEW e \in Encrypted, SentShape(Peer(s), e)
  PROVE  \/ Encrypted_decode(s, e) = <<>>
         \/ \E i \in Internal :
              /\ Encrypted_decode(s, e) = <<i>>
              /\ i.login = e.login
              /\ ReadShape(s, i)
              /\ i \in ReadOf(RequestType \cup {"Ping"}) => e \in SentOf(RequestType)
              /\ i \in ReadOf(AnswerType) => e \in SentOf(AnswerType)
              /\ i.ptxt = e.data[1].ptxt \/ i.ptxt.type = "Ping"
<1> DEFINE k == FromKey(s, e.login)
           p == Peer(s)
           l == e.login
<1>1. /\ TypeOK /\ SecretsCurrent /\ CredentialAgreement /\ NewPwdDiffers
      /\ p \in Site /\ Peer(p) = s /\ l \in Login
  BY PeerType DEF ChallengeInv, StoreInv, TokenInv, Encrypted
<1>2. k = from[s][l] /\ e.data \in Seq(Element) /\ e.data # <<>> /\ to[p][l] \in ToEntry
  BY <1>1, KeyCurrent DEF Encrypted, Elements, TypeOK
<1>3. Encrypted_decode(s, e) = Opened(k, e, 1) \o Opened(k, e, 2)
  BY DEF Encrypted_decode
<1> DEFINE i(j) == [login |-> l, ptxt |-> e.data[j].ptxt]
<1>4. ASSUME NEW j \in DOMAIN e.data PROVE i(j) \in Internal
  <2>1. e.data[j] \in Element
    BY <1>2, ElementOfSeq, LenProperties
  <2> QED BY <1>1, <2>1 DEF Element, Internal
<1>5. CASE Len(e.data) = 1 /\ e.data[1].ptxt.type \in SingleType
  <2>1. DOMAIN e.data = 1 .. 1
    BY <1>2, <1>5, LenProperties
  <2>2. Opened(k, e, 2) = <<>>
    BY <2>1, OpenedNone
  <2>3. CASE e.data[1].key = k /\ e.data[1].ptxt.type # "External"
    <3>1. Opened(k, e, 1) = <<i(1)>> /\ i(1) \in Internal
      BY <1>4, <2>1, <2>3 DEF Opened
    <3>2. Encrypted_decode(s, e) = <<i(1)>>
      BY <1>3, <2>2, <3>1, SingleConcat
    <3>3. ReadShape(s, i(1)) /\ i(1) \notin ReadOf(RequestType \cup {"Ping"})
      BY <1>5 DEF ReadShape, SingleType, AnswerType, ReadOf, RequestType
    <3>4. i(1) \in ReadOf(AnswerType) => e \in SentOf(AnswerType)
      BY DEF ReadOf, SentOf
    <3> HIDE DEF i
    <3> QED BY <3>1, <3>2, <3>3, <3>4 DEF i
  <2>4. CASE ~(e.data[1].key = k /\ e.data[1].ptxt.type # "External")
    <3>1. Opened(k, e, 1) = <<>>
      BY <2>4, OpenedNone
    <3> QED BY <1>3, <2>2, <3>1
  <2> QED BY <2>3, <2>4
<1>6. CASE IsChallenge(p, l, e.data)
  <2>1. PICK id \in MId :
          e.data = <<[key |-> to[p][l].pwd, ptxt |-> ChangePwdRequest(id, to[p][l].new_pwd)],
                     [key |-> to[p][l].new_pwd, ptxt |-> Ping(id)]>>
    BY <1>6 DEF IsChallenge
  <2>2. /\ DOMAIN e.data = 1 .. 2
        /\ e.data[1].key = to[p][l].pwd /\ e.data[1].ptxt = ChangePwdRequest(id, to[p][l].new_pwd)
        /\ e.data[2].key = to[p][l].new_pwd /\ e.data[2].ptxt = Ping(id)
    BY <2>1
  <2>3. to[p][l].pwd # to[p][l].new_pwd /\ to[p][l].new_pwd # NoPwd
    BY <1>1, <1>6 DEF NewPwdDiffers, IsChallenge, Pending
  <2>4. e \in SentOf(RequestType)
    BY <2>2 DEF SentOf, RequestType, ChangePwdRequest
  <2>5. CASE k = to[p][l].pwd
    <3>1. Opened(k, e, 1) = <<i(1)>> /\ i(1) \in Internal
      BY <1>4, <2>2, <2>5 DEF Opened, ChangePwdRequest
    <3>2. Opened(k, e, 2) = <<>>
      BY <2>2, <2>3, <2>5, OpenedNone
    <3>3. Encrypted_decode(s, e) = <<i(1)>>
      BY <1>3, <3>1, <3>2, SingleConcat
    <3>4. i(1).ptxt = ChangePwdRequest(id, to[p][l].new_pwd) /\ i(1).login = l
      BY <2>2
    <3> HIDE DEF i
    <3>5. ReadShape(s, i(1)) /\ i(1) \notin ReadOf(AnswerType)
      <4>1. i(1).ptxt.type = "ChangePwdRequest" /\ i(1).ptxt.arg = to[p][l].new_pwd
        BY <3>4 DEF ChangePwdRequest
      <4> QED BY <1>1, <1>2, <2>3, <2>5, <3>4, <4>1 DEF ReadShape, ReadOf, AnswerType
    <3> QED BY <2>2, <2>4, <3>1, <3>3, <3>4, <3>5
  <2>6. CASE k = to[p][l].new_pwd
    <3>1. Opened(k, e, 2) = <<i(2)>> /\ i(2) \in Internal
      BY <1>4, <2>2, <2>6 DEF Opened, Ping
    <3>2. Opened(k, e, 1) = <<>>
      BY <2>2, <2>3, <2>6, OpenedNone
    <3>3. Encrypted_decode(s, e) = <<i(2)>>
      BY <1>3, <3>1, <3>2, SingleConcat
    <3>4. i(2).ptxt.type = "Ping" /\ i(2).login = l
      BY <2>2 DEF Ping
    <3>5. ReadShape(s, i(2)) /\ i(2) \notin ReadOf(AnswerType)
      BY <1>1, <1>2, <2>3, <2>6, <3>4 DEF ReadShape, ReadOf, AnswerType
    <3> HIDE DEF i
    <3> QED BY <2>4, <3>1, <3>3, <3>4, <3>5
  <2>7. k = to[p][l].pwd \/ k = to[p][l].new_pwd
    BY <1>1, <1>2 DEF CredentialAgreement
  <2> QED BY <2>5, <2>6, <2>7
<1> QED BY <1>5, <1>6 DEF SentShape

(* cyber_receive moves what it decrypts from the connection to internal_q. *)
LEMMA ReceiveInv ==
  ASSUME ChallengeInv, NEW s \in Site, cyber_receive(s)
  PROVE  TokenInv'
<1> DEFINE p == Peer(s)
           e == Head(net[p])
           d == Encrypted_decode(s, e)
           R == RequestType
           C == {"AllClear"}
           P == RequestType \cup {"Ping"}
<1>1. /\ net[p] # <<>> /\ UNCHANGED <<to, from, send_q, challenge_ctxt>>
      /\ UNCHANGED <<live, internal_pc, allClearSent>>
  BY DEF cyber_receive, stores, flags
<1>2. /\ p \in Site /\ p # s /\ Peer(p) = s
      /\ net[p] \in Seq(Encrypted) /\ internal_q[s] \in Seq(Internal)
      /\ Shapes(s) /\ OneToken(s) /\ Settled(s) /\ Matching(s) /\ OthersInStep(s) /\ AllClearAhead(s)
      /\ Shapes(p) /\ OneToken(p) /\ Settled(p) /\ Matching(p) /\ OthersInStep(p) /\ AllClearAhead(p)
  BY SiteFacts
<1>3. net \in [Site -> Seq(Encrypted)] /\ internal_q \in [Site -> Seq(Internal)]
  BY DEF ChallengeInv, StoreInv, TypeOK
<1>4. /\ net'[p] = Tail(net[p]) /\ net'[s] = net[s]
      /\ internal_q'[s] = internal_q[s] \o d /\ internal_q'[p] = internal_q[p]
  BY <1>2, <1>3 DEF cyber_receive
<1>5. e \in Encrypted /\ e \in Elems(net[p]) /\ SentShape(p, e)
  <2>1. e \in Encrypted /\ e \in Elems(net[p])
    BY <1>1, <1>2, <1>3, QueueTail, TailQueue
  <2> QED BY <1>2, <2>1 DEF Shapes
<1>6. CASE d = <<>>
  <2>1. internal_q'[s] = internal_q[s]
    BY <1>2, <1>4, <1>6, ConcatEmptySeq
  <2>2. QueuesTrimmed
    BY <1>1, <1>4, <2>1, OtherSite DEF QueuesTrimmed, Trimmed
  <2>3. \A t \in Site : Settled(t)
    BY SiteFacts
  <2>4. \A t \in Site : SameChallenge(t)
    BY <1>1, <2>3 DEF SameChallenge, Settled
  <2> QED BY <1>1, <2>2, <2>4, TrimInv
<1>7. ASSUME NEW i \in Internal,
             /\ d = <<i>>
             /\ i.login = e.login
             /\ ReadShape(s, i)
             /\ i \in ReadOf(P) => e \in SentOf(R)
             /\ i \in ReadOf(AnswerType) => e \in SentOf(AnswerType)
             /\ i.ptxt = e.data[1].ptxt \/ i.ptxt.type = "Ping"
      PROVE  TokenInv'
  <2>1. internal_q'[s] = Append(internal_q[s], i)
    BY <1>2, <1>4, <1>7, AppendIsConcat
  <2>2. /\ Elems(net'[p]) \subseteq Elems(net[p])
        /\ Elems(internal_q'[s]) = Elems(internal_q[s]) \cup {i}
    BY <1>1, <1>2, <1>4, <2>1, TailQueue, AppendQueue
  <2> HIDE DEF p, e, d, R, C, P
  <2>3. /\ \A S : Has(net'[p], S) => Has(net[p], S)
        /\ \A S : e \in S => Has(net[p], S)
        /\ \A S : Once(net[p], S) => Once(net'[p], S) /\ (e \in S => ~Has(net'[p], S))
        /\ \A S : Has(internal_q'[s], S) <=> Has(internal_q[s], S) \/ i \in S
        /\ \A S : Once(internal_q[s], S) /\ (i \notin S \/ ~Has(internal_q[s], S))
                    => Once(internal_q'[s], S)
    BY <1>1, <1>2, <1>4, <2>1, TailQueue, AppendQueue DEF e
  <2>4. CredentialAgreement' /\ NewPwdDiffers'
    BY <1>1 DEF ChallengeInv, TokenInv, CredentialAgreement, NewPwdDiffers, Pending
  <2>5. OneToken(p)' /\ (\A k \in 1 .. 6 : At(p, k)' => At(p, k) \/ (k = 3 /\ i \in ReadOf(P)))
    <3>1. \A k \in 1 .. 6 : At(p, k)' => At(p, k) \/ (k = 3 /\ i \in ReadOf(P))
      BY <1>1, <1>2, <1>4, <2>3 DEF At, P
    <3>2. CASE i \in ReadOf(P)
      <4>1. At(p, 2) /\ ~At(p, 2)' /\ ~At(p, 3)
        BY <1>2, <1>7, <2>3, <3>2 DEF At, R, OneToken, OnceAt
      <4>2. \A k \in 1 .. 6 : OnceAt(p, k)'
        BY <1>1, <1>2, <1>4, <2>3, <4>1 DEF OnceAt, OneToken, At
      <4> QED BY <1>2, <3>1, <4>1, <4>2, TokenMoved
    <3>3. CASE i \notin ReadOf(P)
      <4>1. \A k \in 1 .. 6 : OnceAt(p, k)'
        BY <1>1, <1>2, <1>4, <2>3, <3>3 DEF OnceAt, OneToken, P
      <4> QED BY <1>2, <3>1, <3>3, <4>1, TokenKept
    <3> QED BY <3>1, <3>2, <3>3
  <2>6. OneToken(s)' /\ (\A k \in 1 .. 6 : At(s, k)' => At(s, k) \/ (k = 6 /\ i \in ReadOf(AnswerType)))
    <3>1. \A k \in 1 .. 6 : At(s, k)' => At(s, k) \/ (k = 6 /\ i \in ReadOf(AnswerType))
      BY <1>1, <1>2, <1>4, <2>3 DEF At, p
    <3>2. CASE i \in ReadOf(AnswerType)
      <4>1. At(s, 5) /\ ~At(s, 5)' /\ ~At(s, 6)
        BY <1>2, <1>7, <2>3, <3>2 DEF At, OneToken, OnceAt, p
      <4>2. \A k \in 1 .. 6 : OnceAt(s, k)'
        BY <1>1, <1>2, <1>4, <2>3, <4>1 DEF OnceAt, OneToken, At, p
      <4> QED BY <1>2, <3>1, <4>1, <4>2, TokenMoved
    <3>3. CASE i \notin ReadOf(AnswerType)
      <4>1. \A k \in 1 .. 6 : OnceAt(s, k)'
        BY <1>1, <1>2, <1>4, <2>3, <3>3 DEF OnceAt, OneToken, p
      <4> QED BY <1>2, <3>1, <3>3, <4>1, TokenKept
    <3> QED BY <3>1, <3>2, <3>3
  <2>7. Shapes(s)'
    BY <1>1, <1>2, <1>4, <1>7, <2>2 DEF Shapes, EntryShape, SentShape, ReadShape, IsChallenge, Pending
  <2>8. Shapes(p)'
    BY <1>1, <1>2, <1>4, <2>2, ShapesKept
  <2>9. (i \in ReadOf(P) => At(p, 2)) /\ (i \in ReadOf(AnswerType) => At(s, 5))
    BY <1>7, <2>3 DEF At, R, p
  <2>10. Settled(s)' /\ Settled(p)'
    <3>1. (NoToken(s) => NoToken(s)') /\ (NoToken(p) => NoToken(p)')
      BY <2>5, <2>6, <2>9 DEF NoToken
    <3> QED BY <1>1, <1>2, <3>1 DEF Settled
  <2>11. Matching(p)'
    <3>1. i \in ReadOf(P) /\ challenge_ctxt[p].running => i.login = challenge_ctxt[p].login
      BY <1>2, <1>5, <1>7 DEF Matching, R
    <3> QED BY <1>1, <1>2, <1>4, <2>2, <3>1 DEF Matching, AnswerTrue, P
  <2>12. Matching(s)'
    <3> SUFFICES ASSUME challenge_ctxt[s].running PROVE Matching(s)'
      BY <1>1 DEF Matching
    <3>1. AnswerTrue(s, i.ptxt)
      <4>1. AnswerTrue(s, e.data[1].ptxt)
        BY <1>5 , <1>2 DEF Matching, p
      <4>2. i.ptxt.type = "Ping" => AnswerTrue(s, i.ptxt)
        BY DEF AnswerTrue
      <4> QED BY <1>7, <4>1, <4>2
    <3>2. \A x \in Elems(internal_q'[s]) : AnswerTrue(s, x.ptxt)
      BY <1>2, <2>2, <3>1 DEF Matching
    <3> QED BY <1>1, <1>2, <1>4, <2>2, <3>2 DEF Matching, AnswerTrue, p
  <2>13. OthersInStep(s)' /\ OthersInStep(p)'
    BY <1>1, <1>2 DEF OthersInStep, InStep
  <2>14. AllClearAhead(p)'
    <3>1. Before(net'[p], SentOf(C), SentOf(R)) /\ (e \in SentOf(R) => ~Has(net[p], SentOf(C)))
      BY <1>1, <1>2, <1>4, TailBefore DEF AllClearAhead, e, R, C
    <3>2. Has(send_q[p], EntryOf(C)) => i \notin ReadOf(P)
      BY <1>2, <2>9 DEF AllClearAhead, C
    <3>3. Has(net'[p], SentOf(C)) => Has(net[p], SentOf(C)) /\ i \notin ReadOf(P)
      BY <1>7, <2>3, <3>1
    <3> QED BY <1>1, <1>2, <1>4, <2>2, <2>5, <3>1, <3>2, <3>3 DEF AllClearAhead, InStep, R, C
  <2>15. AllClearAhead(s)'
    <3>1. Has(send_q[s], EntryOf(C)) \/ Has(net[s], SentOf(C)) => i \notin ReadOf(AnswerType)
      BY <1>2, <2>9 DEF AllClearAhead, C
    <3> QED BY <1>1, <1>2, <1>4, <2>6, <3>1 DEF AllClearAhead, InStep, C
  <2> QED BY <2>4, <2>5, <2>6, <2>7, <2>8, <2>10, <2>11, <2>12, <2>13, <2>14, <2>15, BothSites DEF p
<1> QED BY <1>2, <1>5, <1>6, <1>7, DecodedOne

(* The handlers of a request and of a Ping answer the challenge of the     *)
(* peer, the first after it has replaced the password or refused to.       *)
LEMMA AnswerStep ==
  ASSUME ChallengeInv, NEW s \in Site, Dequeue(s), UNCHANGED <<to, live, challenge_ctxt, net>>,
         UNCHANGED allClearSent,
         NEW i, i = Head(internal_q[s]), i \in ReadOf(RequestType \cup {"Ping"}),
         NEW m \in Plaintext, m.type \in AnswerType, PushOut(s, Clear(NoLogin, m)),
         \/ from' = from
         \/ from' = [from EXCEPT ![s][i.login] = to[Peer(s)][i.login].new_pwd],
         m.type = "Pong" \/ (m.type = "ChangePwdResponse" /\ m.arg = TRUE)
           => from'[s][i.login] = to[Peer(s)][i.login].new_pwd,
         m.type = "ChangePwdResponse" /\ m.arg = FALSE
           => from'[s][i.login] = to[Peer(s)][i.login].pwd
  PROVE  TokenInv'
<1> DEFINE p == Peer(s)
           l == i.login
           x == Clear(NoLogin, m)
           R == RequestType
           C == {"AllClear"}
           P == RequestType \cup {"Ping"}
<1>1. /\ p \in Site /\ p # s /\ Peer(p) = s
      /\ send_q[s] \in Seq(SendEntry) /\ internal_q[s] \in Seq(Internal)
      /\ Shapes(s) /\ OneToken(s) /\ Settled(s) /\ Matching(s) /\ OthersInStep(s) /\ AllClearAhead(s)
      /\ Shapes(p) /\ OneToken(p) /\ Settled(p) /\ Matching(p) /\ OthersInStep(p) /\ AllClearAhead(p)
  BY SiteFacts
<1>2. TypeOK /\ CredentialAgreement /\ NewPwdDiffers
  BY DEF ChallengeInv, StoreInv, TokenInv
<1>3. /\ internal_q[s] # <<>> /\ internal_q'[s] = Tail(internal_q[s]) /\ internal_q'[p] = internal_q[p]
      /\ internal_pc[s] = "wait" /\ internal_pc'[s] = "initiate" /\ internal_pc'[p] = internal_pc[p]
  BY <1>1, <1>2 DEF Dequeue, TypeOK
<1>4. send_q'[s] = Append(send_q[s], x) /\ send_q'[p] = send_q[p]
  BY <1>1, <1>2 DEF PushOut, TypeOK
<1>5. x \in SendEntry
  BY ClearType
<1>6. /\ x.flag_do_encrypt /\ Len(x.data) = 1 /\ x.data[1].ptxt = m
      /\ x \notin EntryOf(R) /\ x \notin EntryOf(C) /\ x \in EntryOf(AnswerType)
      /\ m.type \in SingleType
  <2>1. x.flag_do_encrypt /\ Len(x.data) = 1 /\ x.data[1].ptxt = m
    BY DEF Clear
  <2> QED BY <1>5, <2>1 DEF EntryOf, RequestType, AnswerType, SingleType
<1>7. i \in Internal /\ l \in Login /\ i \in Elems(internal_q[s])
  BY <1>1, <1>3, TailQueue DEF ReadOf, Internal
<1>8. Pending(p, l) /\ to[p][l].new_pwd # NoPwd
  <2>1. ReadShape(s, i)
    BY <1>1, <1>7 DEF Shapes
  <2> QED BY <2>1 DEF ReadShape, Pending, ReadOf, RequestType
<1>9. /\ from'[p] = from[p] /\ \A k \in Login : k # l => from'[s][k] = from[s][k]
      /\ from'[s][l] \in {from[s][l], to[p][l].new_pwd}
  BY <1>1, <1>2, <1>7 DEF TypeOK
<1> HIDE DEF p, l, x, R, C, P
<1>10. /\ Elems(internal_q'[s]) \subseteq Elems(internal_q[s])
       /\ Elems(send_q'[s]) = Elems(send_q[s]) \cup {x}
  BY <1>1, <1>3, <1>4, <1>5, TailQueue, AppendQueue
<1>11. /\ \A S : Has(internal_q'[s], S) => Has(internal_q[s], S)
       /\ \A S : i \in S => Has(internal_q[s], S)
       /\ \A S : Once(internal_q[s], S) => Once(internal_q'[s], S) /\ (i \in S => ~Has(internal_q'[s], S))
       /\ \A S : Has(send_q'[s], S) <=> Has(send_q[s], S) \/ x \in S
       /\ \A S : Once(send_q[s], S) /\ (x \notin S \/ ~Has(send_q[s], S)) => Once(send_q'[s], S)
  BY <1>1, <1>3, <1>4, <1>5, TailQueue, AppendQueue
<1>12. /\ At(p, 3) /\ ~At(p, 3)' /\ ~Has(internal_q'[s], ReadOf(P))
       /\ \A k \in 1 .. 6 : k # 3 => ~At(p, k)
  <2>1. At(p, 3) /\ Has(internal_q[s], ReadOf(P))
    BY <1>1, <1>11 DEF At, P
  <2>2. Once(internal_q[s], ReadOf(P))
    BY <1>1 DEF OneToken, OnceAt, P
  <2>3. ~Has(internal_q'[s], ReadOf(P)) /\ ~At(p, 3)'
    BY <1>1, <1>11, <2>2 DEF At, P
  <2> QED BY <1>1, <2>1, <2>3 DEF OneToken
<1>13. OneToken(p)'
  <2>1. \A k \in 1 .. 6 : At(p, k)' => At(p, k) \/ k = 4
    BY <1>1, <1>3, <1>4, <1>11 DEF At
  <2>2. \A k \in 1 .. 6 : OnceAt(p, k)'
    <3>1. ~Has(send_q[s], EntryOf(AnswerType))
      BY <1>1, <1>12 DEF At
    <3> QED BY <1>1, <1>3, <1>4, <1>11, <3>1 DEF OnceAt, OneToken
  <2> QED BY <1>1, <1>12, <2>1, <2>2, TokenMoved
<1>14. OneToken(s)' /\ \A k \in 1 .. 6 : At(s, k)' => At(s, k)
  <2>1. \A k \in 1 .. 6 : At(s, k)' => At(s, k)
    BY <1>1, <1>3, <1>4, <1>6, <1>11 DEF At, R, p
  <2>2. \A k \in 1 .. 6 : OnceAt(s, k)'
    BY <1>1, <1>3, <1>4, <1>6, <1>11 DEF OnceAt, OneToken, R, p
  <2> QED BY <1>1, <2>1, <2>2, TokenKept
<1>15. CredentialAgreement' /\ NewPwdDiffers'
  <2>1. ASSUME NEW t \in Site, NEW k \in Login
        PROVE  \/ from'[Peer(t)][k] = to[t][k].pwd
               \/ Pending(t, k) /\ from'[Peer(t)][k] = to[t][k].new_pwd
    <3>1. CASE t = s
      BY <1>2, <1>9, <3>1 DEF CredentialAgreement, p
    <3>2. CASE t = p
      BY <1>1, <1>2, <1>8, <1>9, <3>2 DEF CredentialAgreement
    <3> QED BY <3>1, <3>2, OtherSite DEF p
  <2> QED BY <1>2, <2>1 DEF CredentialAgreement, NewPwdDiffers, Pending
<1>16. Shapes(s)'
  <2>1. \A e \in Elems(send_q'[s]) : EntryShape(s, e)'
    BY <1>1, <1>6, <1>10 DEF Shapes, EntryShape, IsChallenge, Pending
  <2>2. \A n \in Elems(net'[s]) : SentShape(s, n)'
    BY <1>1 DEF Shapes, SentShape, IsChallenge, Pending
  <2>3. \A j \in Elems(internal_q'[s]) : j \notin ReadOf(P)
    BY <1>12, HasElems
  <2>4. \A j \in Elems(internal_q'[s]) : j \in Internal
    BY <1>1, <1>10, ElemsType
  <2>5. \A j \in Elems(internal_q'[s]) : ReadShape(s, j)'
    BY <2>3, <2>4 DEF ReadShape, ReadOf, P, RequestType
  <2> QED BY <2>1, <2>2, <2>5 DEF Shapes
<1>17. Shapes(p)'
  <2>1. \A e \in Elems(send_q'[p]) : EntryShape(p, e)'
    BY <1>1, <1>4 DEF Shapes, EntryShape, IsChallenge, Pending
  <2>2. \A n \in Elems(net'[p]) : SentShape(p, n)'
    BY <1>1 DEF Shapes, SentShape, IsChallenge, Pending
  <2>3. \A j \in Elems(internal_q'[p]) : ReadShape(p, j)'
    BY <1>1, <1>3, <1>9 DEF Shapes, ReadShape
  <2> QED BY <2>1, <2>2, <2>3 DEF Shapes
<1>18. Settled(s)' /\ Settled(p)'
  <2>1. NoToken(s) => NoToken(s)'
    BY <1>14 DEF NoToken
  <2>2. ~NoToken(p)
    BY <1>12 DEF NoToken
  <2> QED BY <1>1, <1>3, <2>1, <2>2 DEF Settled
<1>19. Matching(s)'
  BY <1>1, <1>3, <1>4, <1>6, <1>9, <1>10 DEF Matching, AnswerTrue, p, R
<1>20. challenge_ctxt[p].running => l = challenge_ctxt[p].login
  BY <1>1, <1>7 DEF Matching, l
<1>21. Matching(p)'
  <2> SUFFICES ASSUME challenge_ctxt[p].running PROVE Matching(p)'
    BY DEF Matching
  <2>1. /\ ~Has(send_q[s], EntryOf(AnswerType)) /\ ~Has(net[s], SentOf(AnswerType))
        /\ ~Has(internal_q[p], ReadOf(AnswerType))
    BY <1>1, <1>12 DEF At
  <2>2. /\ \A y \in Elems(send_q[s]) : y \in SendEntry
        /\ \A y \in Elems(net[s]) : y \in Encrypted
        /\ \A y \in Elems(internal_q[p]) : y \in Internal
    BY <1>1, SiteFacts, ElemsType
  <2>3. /\ \A y \in Elems(send_q[s]) : y.data[1].ptxt.type \notin AnswerType
        /\ \A y \in Elems(net[s]) : y.data[1].ptxt.type \notin AnswerType
        /\ \A y \in Elems(internal_q[p]) : y.ptxt.type \notin AnswerType
    BY <2>1, <2>2, HasElems DEF EntryOf, SentOf, ReadOf
  <2>4. \A n : n.type \notin AnswerType => AnswerTrue(p, n)'
    BY DEF AnswerTrue, AnswerType
  <2>5. AnswerTrue(p, m)'
    BY <1>1, <1>20 DEF AnswerTrue, l, p
  <2>6. /\ \A y \in Elems(send_q'[s]) : AnswerTrue(p, y.data[1].ptxt)'
        /\ \A y \in Elems(net'[s]) : AnswerTrue(p, y.data[1].ptxt)'
        /\ \A y \in Elems(internal_q'[p]) : AnswerTrue(p, y.ptxt)'
    BY <1>3, <1>6, <1>10, <2>3, <2>4, <2>5
  <2> QED BY <1>1, <1>3, <1>4, <1>10, <2>6 DEF Matching
<1>22. OthersInStep(s)'
  BY <1>1, <1>9 DEF OthersInStep, InStep, p
<1>23. OthersInStep(p)'
  <2>1. allClearSent[p] => challenge_ctxt[p].running
    BY <1>1, <1>12 DEF Settled, NoToken
  <2> QED BY <1>1, <1>9, <1>20, <2>1 DEF OthersInStep, InStep
<1>24. AllClearAhead(s)'
  <2>1. Before(send_q'[s], EntryOf(C), EntryOf(R))
    BY <1>1, <1>4, <1>5, <1>6, AppendBefore DEF AllClearAhead, R, C
  <2> QED BY <1>1, <1>6, <1>9, <1>11, <1>14, <2>1 DEF AllClearAhead, InStep, R, C, p
<1>25. AllClearAhead(p)'
  <2>1. ~Has(send_q[p], EntryOf(C)) /\ ~Has(net[p], SentOf(C))
    BY <1>1, <1>12 DEF AllClearAhead, C
  <2>2. \A n \in Elems(net[p]) : n \notin SentOf(C)
    BY <2>1, HasElems
  <2> QED BY <1>1, <1>4, <2>1, <2>2 DEF AllClearAhead, C
<1> QED BY <1>13, <1>14, <1>15, <1>16, <1>17, <1>18, <1>19, <1>21, <1>22, <1>23, <1>24, <1>25, BothSites DEF p

LEMMA RequestInv ==
  ASSUME ChallengeInv, NEW s \in Site, HandleChangePwdRequest(s)
  PROVE  TokenInv'
<1> DEFINE i == Head(internal_q[s])
           m == ChangePwdResponse(i.ptxt.mId, CanAccept(s))
<1>1. /\ TypeOK /\ Dequeue(s) /\ UNCHANGED <<to, live, challenge_ctxt, net, allClearSent>>
      /\ PushOut(s, Clear(NoLogin, m)) /\ i.ptxt.type = "ChangePwdRequest"
  BY DEF ChallengeInv, StoreInv, HandleChangePwdRequest, flags
<1>2. i \in Internal /\ i.login \in Login /\ i.ptxt \in Plaintext /\ i \in Elems(internal_q[s])
  <2>1. i \in Internal /\ internal_q[s] \in Seq(Internal) /\ internal_q[s] # <<>>
    BY <1>1, DequeueType DEF TypeOK, Dequeue
  <2> QED BY <2>1, TailQueue DEF Internal
<1>3. m \in Plaintext /\ m.type = "ChangePwdResponse" /\ m.arg = CanAccept(s) /\ CanAccept(s) \in BOOLEAN
  <2>1. CanAccept(s) \in BOOLEAN
    BY DEF CanAccept
  <2> QED BY <1>1, <1>2, <2>1 DEF ChangePwdResponse, Plaintext
<1>4. i \in ReadOf(RequestType \cup {"Ping"}) /\ m.type \in AnswerType
  BY <1>1, <1>2, <1>3 DEF ReadOf, RequestType, AnswerType
<1>5. from[s][i.login] = to[Peer(s)][i.login].pwd /\ i.ptxt.arg = to[Peer(s)][i.login].new_pwd
  <2>1. ReadShape(s, i)
    BY <1>2, SiteFacts DEF Shapes
  <2> QED BY <1>1, <2>1 DEF ReadShape
<1>6. CASE CanAccept(s)
  <2>1. from' = [from EXCEPT ![s][i.login] = to[Peer(s)][i.login].new_pwd]
    BY <1>5, <1>6 DEF HandleChangePwdRequest, auth_set_pwd
  <2>2. from'[s][i.login] = to[Peer(s)][i.login].new_pwd
    BY <1>1, <1>2, <2>1 DEF TypeOK
  <2> HIDE DEF i, m
  <2>3. m.arg = TRUE
    BY <1>3, <1>6
  <2> QED BY <1>1, <1>3, <1>4, <2>1, <2>2, <2>3, AnswerStep DEF i
<1>7. CASE ~CanAccept(s)
  <2>1. from' = from
    BY <1>7 DEF HandleChangePwdRequest
  <2> HIDE DEF i, m
  <2>3. m.arg = FALSE
    BY <1>3, <1>7
  <2> QED BY <1>1, <1>3, <1>4, <1>5, <2>1, <2>3, AnswerStep DEF i
<1> QED BY <1>6, <1>7

LEMMA PingInv ==
  ASSUME ChallengeInv, NEW s \in Site, HandlePing(s)
  PROVE  TokenInv'
<1> DEFINE i == Head(internal_q[s])
           m == Pong(i.ptxt.mId)
<1>1. /\ TypeOK /\ Dequeue(s) /\ UNCHANGED <<to, from, live, challenge_ctxt, net, allClearSent>>
      /\ PushOut(s, Clear(NoLogin, m)) /\ i.ptxt.type = "Ping"
  BY DEF ChallengeInv, StoreInv, HandlePing, flags, stores
<1>2. i \in Internal /\ i.ptxt \in Plaintext /\ i \in Elems(internal_q[s])
  <2>1. i \in Internal /\ internal_q[s] \in Seq(Internal) /\ internal_q[s] # <<>>
    BY <1>1, DequeueType DEF TypeOK, Dequeue
  <2> QED BY <2>1, TailQueue DEF Internal
<1>3. m \in Plaintext /\ m.type = "Pong"
  BY <1>2 DEF Pong, Plaintext
<1>4. i \in ReadOf(RequestType \cup {"Ping"}) /\ m.type \in AnswerType
  BY <1>1, <1>2, <1>3 DEF ReadOf, RequestType, AnswerType
<1>5. from[s][i.login] = to[Peer(s)][i.login].new_pwd
  <2>1. ReadShape(s, i)
    BY <1>2, SiteFacts DEF Shapes
  <2> QED BY <1>1, <2>1 DEF ReadShape
<1> HIDE DEF i, m
<1> QED BY <1>1, <1>3, <1>4, <1>5, AnswerStep DEF i

(* The end of a challenge: the answer taken from internal_q says which     *)
(* password the peer has, and the owner has it too afterwards.             *)
LEMMA EndStep ==
  ASSUME ChallengeInv, NEW s \in Site, Dequeue(s), UNCHANGED <<from, send_q, net, live, allClearSent>>,
         Head(internal_q[s]) \in ReadOf(AnswerType), challenge_ctxt[s].running, Finish(s),
         to' \in [Site -> [Login -> ToEntry]],
         \A t \in Site, k \in Login :
            \/ to'[t][k] = to[t][k]
            \/ t = s /\ k = challenge_ctxt[s].login /\ to'[t][k].new_pwd = NoPwd,
         from[Peer(s)][challenge_ctxt[s].login] = to'[s][challenge_ctxt[s].login].pwd
  PROVE  TokenInv'
<1> DEFINE p == Peer(s)
           l == challenge_ctxt[s].login
           R == RequestType
           C == {"AllClear"}
           P == RequestType \cup {"Ping"}
<1>1. /\ p \in Site /\ p # s /\ Peer(p) = s
      /\ send_q[s] \in Seq(SendEntry) /\ internal_q[s] \in Seq(Internal) /\ net[s] \in Seq(Encrypted)
      /\ Shapes(s) /\ OneToken(s) /\ Settled(s) /\ Matching(s) /\ OthersInStep(s) /\ AllClearAhead(s)
      /\ Shapes(p) /\ OneToken(p) /\ Settled(p) /\ Matching(p) /\ OthersInStep(p) /\ AllClearAhead(p)
  BY SiteFacts
<1>2. /\ TypeOK /\ CredentialAgreement /\ NewPwdDiffers /\ RunningPending
      /\ internal_q[p] \in Seq(Internal) /\ l \in Login
  BY <1>1 DEF ChallengeInv, StoreInv, TokenInv, TypeOK, RunningPending, InProgress
<1>3. /\ internal_q[s] # <<>> /\ internal_q'[s] = Tail(internal_q[s]) /\ internal_q'[p] = internal_q[p]
      /\ internal_pc[s] = "wait" /\ internal_pc'[s] = "initiate" /\ internal_pc'[p] = internal_pc[p]
  BY <1>1, <1>2 DEF Dequeue, TypeOK
<1>4. /\ ~challenge_ctxt'[s].running /\ ~challenge_ctxt'[s].toSend
      /\ challenge_ctxt'[p] = challenge_ctxt[p]
  BY <1>1, <1>2, <1>3, FinishType DEF RunningPending
<1>5. QueuesTrimmed
  BY <1>3, OtherSite DEF QueuesTrimmed, Trimmed
<1>6. /\ Elems(internal_q'[s]) \subseteq Elems(internal_q[s])
      /\ ~Has(internal_q'[s], ReadOf(AnswerType)) /\ Has(internal_q[s], ReadOf(AnswerType))
  <2>1. Once(internal_q[s], ReadOf(AnswerType))
    BY <1>1 DEF OneToken, OnceAt
  <2> QED BY <1>1, <1>3, <2>1, TailQueue
<1>7. At(s, 6) /\ ~At(s, 6)' /\ \A k \in 1 .. 6 : k # 6 => ~At(s, k)
  BY <1>1, <1>6 DEF At, OneToken
<1>8. /\ OneToken(s)' /\ OneToken(p)'
      /\ \A k \in 1 .. 6 : At(s, k)' => At(s, k)
      /\ \A k \in 1 .. 6 : At(p, k)' => At(p, k)
  BY <1>1, <1>2, <1>5, TrimTokens
<1>9. NoToken(s)' /\ (NoToken(p) => NoToken(p)')
  BY <1>7, <1>8 DEF NoToken
<1> HIDE DEF p, l, R, C, P
<1>10. /\ to'[p] = to[p]
       /\ \A k \in Login : to'[s][k] = to[s][k] \/ (k = l /\ to'[s][k].new_pwd = NoPwd)
       /\ from[p][l] = to'[s][l].pwd
  <2>1. to \in [Site -> [Login -> ToEntry]]
    BY <1>2 DEF TypeOK
  <2>2. \A k \in Login : to'[p][k] = to[p][k]
    BY <1>1
  <2> QED BY <1>1, <2>1, <2>2 DEF p, l
<1>11. CredentialAgreement' /\ NewPwdDiffers'
  <2>1. ASSUME NEW t \in Site, NEW k \in Login
        PROVE  /\ \/ from[Peer(t)][k] = to'[t][k].pwd
                  \/ to'[t][k].new_pwd # NoPwd /\ from[Peer(t)][k] = to'[t][k].new_pwd
               /\ to'[t][k].new_pwd # to'[t][k].pwd
    <3>1. CASE to'[t][k] = to[t][k]
      BY <1>2, <3>1 DEF CredentialAgreement, NewPwdDiffers, Pending
    <3>2. CASE t = s /\ k = l /\ to'[t][k].new_pwd = NoPwd
      <4>1. to'[t][k].pwd \in Pwd
        BY DEF ToEntry
      <4> QED BY <1>10, <3>2, <4>1, PwdsAssumption DEF p
    <3> QED BY <3>1, <3>2 DEF l
  <2> QED BY <2>1 DEF CredentialAgreement, NewPwdDiffers, Pending
<1>12. Shapes(s)'
  <2>1. /\ ~Has(send_q[s], EntryOf(R)) /\ ~Has(net[s], SentOf(R))
    BY <1>7 DEF At, R
  <2>2. \A e \in Elems(send_q[s]) : EntryShape(s, e)'
    <3> SUFFICES ASSUME NEW e \in Elems(send_q[s]) PROVE EntryShape(s, e)'
      OBVIOUS
    <3>1. e \in SendEntry /\ EntryShape(s, e) /\ e \notin EntryOf(R)
      BY <1>1, <2>1, ElemsType, HasElems DEF Shapes
    <3>2. e.flag_do_encrypt
      BY <3>1, ChallengeFirst DEF EntryShape, EntryOf, R
    <3> QED BY <3>1, <3>2 DEF EntryShape
  <2>3. \A n \in Elems(net[s]) : SentShape(s, n)'
    <3> SUFFICES ASSUME NEW n \in Elems(net[s]) PROVE SentShape(s, n)'
      OBVIOUS
    <3>1. n \in Encrypted /\ SentShape(s, n) /\ n \notin SentOf(R)
      BY <1>1, <2>1, ElemsType, HasElems DEF Shapes
    <3>2. ~IsChallenge(s, n.login, n.data)
      BY <3>1, ChallengeFirst DEF SentOf, R
    <3> QED BY <3>1, <3>2 DEF SentShape
  <2>4. \A j \in Elems(internal_q'[s]) : ReadShape(s, j)'
    BY <1>1, <1>6, <1>10 DEF Shapes, ReadShape, p
  <2> QED BY <2>2, <2>3, <2>4 DEF Shapes
<1>13. Shapes(p)'
  <2>1. ~Has(internal_q[p], ReadOf(P))
    BY <1>7 DEF At, P, p
  <2>2. \A j \in Elems(internal_q[p]) : j \in Internal /\ j \notin ReadOf(P)
    BY <1>2, <2>1, ElemsType, HasElems
  <2>3. \A j \in Elems(internal_q'[p]) : ReadShape(p, j)'
    BY <1>3, <2>2 DEF ReadShape, ReadOf, P, RequestType
  <2>4. \A e \in Elems(send_q'[p]) : EntryShape(p, e)'
    BY <1>1, <1>10 DEF Shapes, EntryShape, IsChallenge, Pending
  <2>5. \A n \in Elems(net'[p]) : SentShape(p, n)'
    BY <1>1, <1>10 DEF Shapes, SentShape, IsChallenge, Pending
  <2> QED BY <2>3, <2>4, <2>5 DEF Shapes
<1>14. Settled(s)' /\ Settled(p)'
  BY <1>1, <1>3, <1>4, <1>9 DEF Settled
<1>15. Matching(s)'
  BY <1>4 DEF Matching
<1>16. Matching(p)'
  <2> SUFFICES ASSUME challenge_ctxt[p].running PROVE Matching(p)'
    BY <1>4 DEF Matching
  <2>1. \A n : AnswerTrue(p, n) <=> AnswerTrue(p, n)'
    BY <1>1, <1>4, <1>10 DEF AnswerTrue
  <2>2. /\ \A y \in Elems(send_q'[s]) : AnswerTrue(p, y.data[1].ptxt)'
        /\ \A y \in Elems(net'[s]) : AnswerTrue(p, y.data[1].ptxt)'
        /\ \A y \in Elems(internal_q'[p]) : AnswerTrue(p, y.ptxt)'
    BY <1>1, <1>3, <2>1 DEF Matching
  <2>3. /\ \A y \in Elems(send_q[p]) : y \in EntryOf(R) => y.login = challenge_ctxt'[p].login
        /\ \A y \in Elems(net[p]) : y \in SentOf(R) => y.login = challenge_ctxt'[p].login
        /\ \A y \in Elems(internal_q'[s]) : y \in ReadOf(P) => y.login = challenge_ctxt'[p].login
    <3>1. \A y \in Elems(send_q[p]) : y \in EntryOf(R) => y.login = challenge_ctxt[p].login
      BY <1>1 DEF Matching, R
    <3>2. \A y \in Elems(net[p]) : y \in SentOf(R) => y.login = challenge_ctxt[p].login
      BY <1>1 DEF Matching, R
    <3>3. \A y \in Elems(internal_q[s]) : y \in ReadOf(P) => y.login = challenge_ctxt[p].login
      BY <1>1 DEF Matching, P
    <3> QED BY <1>4, <1>6, <3>1, <3>2, <3>3
  <2> QED BY <1>1, <2>2, <2>3 DEF Matching, R, P
<1>17. OthersInStep(s)' /\ OthersInStep(p)'
  <2>1. OthersInStep(s)'
    BY <1>1, <1>10 DEF OthersInStep, InStep, l, p
  <2>2. OthersInStep(p)'
    BY <1>1, <1>4, <1>10 DEF OthersInStep, InStep
  <2> QED BY <2>1, <2>2
<1>18. AllClearAhead(s)'
  <2>1. ~Has(send_q[s], EntryOf(C)) /\ ~Has(net[s], SentOf(C))
    BY <1>1, <1>7 DEF AllClearAhead, C
  <2>2. \A n \in Elems(net[s]) : n \notin SentOf(C)
    BY <2>1, HasElems
  <2> QED BY <1>1, <2>1, <2>2 DEF AllClearAhead, C
<1>19. AllClearAhead(p)'
  BY <1>1, <1>8, <1>10 DEF AllClearAhead, InStep
<1> QED BY <1>8, <1>11, <1>12, <1>13, <1>14, <1>15, <1>16, <1>17, <1>18, <1>19, BothSites DEF p

LEMMA ResponseInv ==
  ASSUME ChallengeInv, NEW s \in Site, HandleChangePwdResponse(s) \/ HandlePong(s)
  PROVE  TokenInv'
<1> DEFINE i == Head(internal_q[s])
           m == i.ptxt
           l == challenge_ctxt[s].login
<1>1. /\ StoreInv /\ TypeOK /\ RunningPending /\ Dequeue(s)
      /\ UNCHANGED <<from, send_q, net, live, allClearSent>>
      /\ m.type \in AnswerType
  BY DEF ChallengeInv, StoreInv, HandleChangePwdResponse, HandlePong, flags, AnswerType
<1>2. i \in ReadOf(AnswerType) /\ i \in Elems(internal_q[s]) /\ m \in Plaintext
  <2>1. i \in Internal /\ internal_q[s] \in Seq(Internal) /\ internal_q[s] # <<>>
    BY <1>1, DequeueType DEF TypeOK, Dequeue
  <2> QED BY <1>1, <2>1, TailQueue DEF ReadOf, Internal
<1>3. /\ Peer(s) \in Site /\ Peer(s) # s /\ Matching(s)
      /\ \A t \in Site : Settled(t)
  BY SiteFacts
<1>4. challenge_ctxt[s].running => AnswerTrue(s, m) /\ l \in Login /\ Pending(s, l)
  BY <1>1, <1>2, <1>3 DEF Matching, RunningPending, InProgress
<1>5. CASE challenge_ctxt[s].running /\ auth_switch_to_new_pwd(s, l) /\ Finish(s)
            /\ (m.type = "ChangePwdResponse" => m.arg = TRUE)
  <2>1. from[Peer(s)][l] = to[s][l].new_pwd
    BY <1>1, <1>4, <1>5 DEF AnswerTrue, AnswerType
  <2>2. to' \in [Site -> [Login -> ToEntry]]
    BY <1>1, <1>4, <1>5, SwitchStore
  <2>3. \A t \in Site, k \in Login :
          \/ to'[t][k] = to[t][k]
          \/ t = s /\ k = l /\ to'[t][k].new_pwd = NoPwd
    BY <1>1, <1>4, <1>5 DEF auth_switch_to_new_pwd, TypeOK
  <2>4. to'[s][l].pwd = to[s][l].new_pwd
    BY <1>1, <1>4, <1>5 DEF auth_switch_to_new_pwd, TypeOK
  <2> QED BY <1>1, <1>2, <1>5, <2>1, <2>2, <2>3, <2>4, EndStep
<1>6. CASE challenge_ctxt[s].running /\ Finish(s) /\ to' = to /\ m.type = "ChangePwdResponse" /\ m.arg = FALSE
  <2>1. from[Peer(s)][l] = to'[s][l].pwd
    BY <1>4, <1>6 DEF AnswerTrue
  <2>2. to' \in [Site -> [Login -> ToEntry]]
    BY <1>1, <1>6 DEF TypeOK
  <2> QED BY <1>1, <1>2, <1>6, <2>1, <2>2, EndStep
<1>7. CASE UNCHANGED <<to, challenge_ctxt>>
  <2>1. QueuesTrimmed
    BY <1>1 DEF QueuesTrimmed, Trimmed, Dequeue, TypeOK
  <2>2. \A t \in Site : SameChallenge(t)
    BY <1>1, <1>3, <1>7 DEF SameChallenge, Settled, Dequeue, TypeOK
  <2> QED BY <1>1, <1>7, <2>1, <2>2, TrimInv
<1> QED
  <2>1. CASE HandleChangePwdResponse(s)
    BY <1>5, <1>6, <1>7, <2>1 DEF HandleChangePwdResponse, Answers
  <2>2. CASE HandlePong(s)
    BY <1>5, <1>7, <2>2 DEF HandlePong, Answers
  <2> QED BY <2>1, <2>2

(* Queueing a message that is neither a challenge nor an answer.  An       *)
(* AllClear is queued when no challenge is on its way and every login is   *)
(* in step.                                                                *)
LEMMA PushStep ==
  ASSUME ChallengeInv, NEW s \in Site, UNCHANGED <<to, from, live, net, internal_q>>,
         NEW m \in Plaintext, NEW login \in Login \cup {NoLogin}, PushOut(s, Clear(login, m)),
         m.type \in {"AllClear", "External"},
         m.type = "AllClear" \/ allClearSent'[s] # allClearSent[s]
           => NoToken(s) /\ \A k \in Login : InStep(s, k),
         \A t \in Site :
            /\ challenge_ctxt'[t].running = challenge_ctxt[t].running
            /\ challenge_ctxt[t].running => challenge_ctxt'[t].login = challenge_ctxt[t].login
            /\ challenge_ctxt'[t].toSend => challenge_ctxt'[t].running
            /\ live'[t] => internal_pc'[t] # "done"
            /\ internal_pc'[t] # "done" => internal_pc[t] # "done"
            /\ t # s => allClearSent'[t] = allClearSent[t]
  PROVE  TokenInv'
<1> DEFINE p == Peer(s)
           x == Clear(login, m)
           R == RequestType
           C == {"AllClear"}
<1>1. /\ p \in Site /\ p # s /\ Peer(p) = s /\ send_q[s] \in Seq(SendEntry)
      /\ Shapes(s) /\ OneToken(s) /\ Settled(s) /\ Matching(s) /\ OthersInStep(s) /\ AllClearAhead(s)
      /\ Shapes(p) /\ OneToken(p) /\ Settled(p) /\ Matching(p) /\ OthersInStep(p) /\ AllClearAhead(p)
  BY SiteFacts
<1>2. TypeOK /\ CredentialAgreement /\ NewPwdDiffers
  BY DEF ChallengeInv, StoreInv, TokenInv
<1>3. send_q'[s] = Append(send_q[s], x) /\ send_q'[p] = send_q[p]
  BY <1>1, <1>2 DEF PushOut, TypeOK
<1>4. x \in SendEntry
  BY ClearType
<1>5. /\ x.flag_do_encrypt /\ Len(x.data) = 1 /\ x.data[1].ptxt = m
      /\ x \notin EntryOf(R) /\ x \notin EntryOf(AnswerType) /\ (x \in EntryOf(C) => m.type = "AllClear")
      /\ m.type \in SingleType
  <2>1. x.flag_do_encrypt /\ Len(x.data) = 1 /\ x.data[1].ptxt = m
    BY DEF Clear
  <2> QED BY <1>4, <2>1 DEF EntryOf, RequestType, AnswerType, SingleType
<1> HIDE DEF p, x, R, C
<1>6. /\ Elems(send_q'[s]) = Elems(send_q[s]) \cup {x}
      /\ \A S : Has(send_q'[s], S) <=> Has(send_q[s], S) \/ x \in S
      /\ \A S : Once(send_q[s], S) /\ x \notin S => Once(send_q'[s], S)
  BY <1>1, <1>3, <1>4, AppendQueue
<1>7. CredentialAgreement' /\ NewPwdDiffers'
  BY <1>2 DEF CredentialAgreement, NewPwdDiffers, Pending
<1>8. OneToken(s)' /\ \A k \in 1 .. 6 : At(s, k)' => At(s, k)
  <2>1. \A k \in 1 .. 6 : At(s, k)' => At(s, k)
    BY <1>1, <1>3, <1>5, <1>6 DEF At, R, p
  <2>2. \A k \in 1 .. 6 : OnceAt(s, k)'
    BY <1>1, <1>3, <1>5, <1>6 DEF OnceAt, OneToken, R, p
  <2> QED BY <1>1, <2>1, <2>2, TokenKept
<1>9. OneToken(p)' /\ \A k \in 1 .. 6 : At(p, k)' => At(p, k)
  <2>1. \A k \in 1 .. 6 : At(p, k)' => At(p, k)
    BY <1>1, <1>3, <1>5, <1>6 DEF At
  <2>2. \A k \in 1 .. 6 : OnceAt(p, k)'
    BY <1>1, <1>3, <1>5, <1>6 DEF OnceAt, OneToken
  <2> QED BY <1>1, <2>1, <2>2, TokenKept
<1>10. Shapes(s)' /\ Shapes(p)'
  <2>1. Shapes(s)'
    <3>1. \A e \in Elems(send_q'[s]) : EntryShape(s, e)'
      BY <1>1, <1>5, <1>6 DEF Shapes, EntryShape, IsChallenge, Pending
    <3>2. \A n \in Elems(net'[s]) : SentShape(s, n)'
      BY <1>1 DEF Shapes, SentShape, IsChallenge, Pending
    <3>3. \A j \in Elems(internal_q'[s]) : ReadShape(s, j)'
      BY <1>1 DEF Shapes, ReadShape
    <3> QED BY <3>1, <3>2, <3>3 DEF Shapes
  <2>2. Shapes(p)'
    BY <1>1, <1>3, ShapesKept
  <2> QED BY <2>1, <2>2
<1>11. Settled(s)' /\ Settled(p)'
  <2>1. (NoToken(s) => NoToken(s)') /\ (NoToken(p) => NoToken(p)')
    BY <1>8, <1>9 DEF NoToken
  <2> QED BY <1>1, <2>1 DEF Settled
<1>12. Matching(s)'
  BY <1>1, <1>3, <1>5, <1>6 DEF Matching, AnswerTrue, R, p
<1>13. Matching(p)'
  <2> SUFFICES ASSUME challenge_ctxt[p].running PROVE Matching(p)'
    BY <1>1 DEF Matching
  <2>1. \A n : AnswerTrue(p, n) <=> AnswerTrue(p, n)'
    BY <1>1 DEF AnswerTrue
  <2>2. AnswerTrue(p, m)
    BY <1>5 DEF AnswerTrue
  <2>3. /\ \A y \in Elems(send_q'[s]) : AnswerTrue(p, y.data[1].ptxt)'
        /\ \A y \in Elems(net'[s]) : AnswerTrue(p, y.data[1].ptxt)'
        /\ \A y \in Elems(internal_q'[p]) : AnswerTrue(p, y.ptxt)'
    BY <1>1, <1>5, <1>6, <2>1, <2>2 DEF Matching
  <2>4. challenge_ctxt'[p].login = challenge_ctxt[p].login
    BY <1>1
  <2> QED BY <1>1, <1>3, <2>3, <2>4 DEF Matching
<1>14. OthersInStep(s)' /\ OthersInStep(p)'
  BY <1>1 DEF OthersInStep, InStep
<1>15. AllClearAhead(s)'
  <2>1. x \in EntryOf(C) => NoToken(s) /\ \A k \in Login : InStep(s, k)
    BY <1>5
  <2>2. x \in EntryOf(C) => ~Has(send_q[s], EntryOf(R))
    BY <2>1 DEF NoToken, At, R
  <2>3. Before(send_q'[s], EntryOf(C), EntryOf(R))
    BY <1>1, <1>3, <1>4, <1>5, <2>2, AppendBefore DEF AllClearAhead, R, C
  <2>4. Has(send_q'[s], EntryOf(C)) => \A k \in 2 .. 6 : ~At(s, k)'
    BY <1>1, <1>6, <1>8, <2>1 DEF AllClearAhead, NoToken, C
  <2>5. (Has(send_q'[s], EntryOf(C)) \/ Has(net'[s], SentOf(C))) => \A k \in Login : InStep(s, k)'
    BY <1>1, <1>6, <2>1 DEF AllClearAhead, InStep, C
  <2> QED BY <1>1, <1>8, <2>3, <2>4, <2>5 DEF AllClearAhead, R, C
<1>16. AllClearAhead(p)'
  BY <1>1, <1>3, <1>9 DEF AllClearAhead, InStep
<1> QED BY <1>7, <1>8, <1>9, <1>10, <1>11, <1>12, <1>13, <1>14, <1>15, <1>16, BothSites DEF p

LEMMA SendPushInv ==
  ASSUME ChallengeInv, NEW s \in Site, SendPush(s)
  PROVE  TokenInv'
<1>1. External \in Plaintext /\ External.type = "External"
  BY MIdAssumption DEF External, Plaintext, MId
<1>2. app[s] \in Login \cup {NoLogin}
  BY DEF ChallengeInv, StoreInv, TypeOK
<1>3. /\ PushOut(s, Clear(app[s], External))
      /\ UNCHANGED <<to, from, live, net, internal_q, challenge_ctxt, allClearSent, internal_pc>>
  BY DEF SendPush, stores, flags
<1>4. \A t \in Site : Settled(t)
  BY SiteFacts
<1> QED BY <1>1, <1>2, <1>3, <1>4, PushStep DEF Settled

(* A challenge is started when none is on its way.                         *)
LEMMA StartStep ==
  ASSUME ChallengeInv, NEW s \in Site, ~challenge_ctxt[s].running, internal_pc[s] # "done",
         StartChallenge(s), UNCHANGED <<from, live, net, internal_q>>
  PROVE  TokenInv'
<1>1. PICK l \in Login, w \in Pwd :
        /\ auth_get_new_pwd(s, l, w)
        /\ PushOut(s, Challenge(s, l, w, NextMId(s)))
        /\ challenge_ctxt' = [challenge_ctxt EXCEPT ![s] = Encoded(l, NextMId(s))]
        /\ internal_pc' = [internal_pc EXCEPT ![s] = "launch"]
        /\ UNCHANGED allClearSent
  BY DEF StartChallenge, Due, Login
<1>0. PICK id, x : id = NextMId(s) /\ x = Challenge(s, l, w, id)
  OBVIOUS
<1> DEFINE p == Peer(s)
           R == RequestType
           C == {"AllClear"}
           P == RequestType \cup {"Ping"}
<1>2. /\ p \in Site /\ p # s /\ Peer(p) = s
      /\ send_q[s] \in Seq(SendEntry) /\ net[s] \in Seq(Encrypted) /\ internal_q[s] \in Seq(Internal)
      /\ Shapes(s) /\ OneToken(s) /\ Settled(s) /\ Matching(s) /\ OthersInStep(s) /\ AllClearAhead(s)
      /\ Shapes(p) /\ OneToken(p) /\ Settled(p) /\ Matching(p) /\ OthersInStep(p) /\ AllClearAhead(p)
  BY SiteFacts
<1>3. /\ TypeOK /\ CredentialAgreement /\ NewPwdDiffers /\ SecretsCurrent
      /\ send_q[p] \in Seq(SendEntry) /\ net[p] \in Seq(Encrypted) /\ internal_q[p] \in Seq(Internal)
  BY <1>2, SiteFacts DEF ChallengeInv, StoreInv, TokenInv
<1>4. send_q'[s] = Append(send_q[s], x) /\ send_q'[p] = send_q[p]
  BY <1>0, <1>1, <1>2, <1>3 DEF PushOut, TypeOK
<1>5. /\ challenge_ctxt'[s].running /\ challenge_ctxt'[s].login = l
      /\ challenge_ctxt'[p] = challenge_ctxt[p]
      /\ internal_pc'[s] = "launch" /\ internal_pc'[p] = internal_pc[p]
  BY <1>1, <1>2, <1>3 DEF Encoded, TypeOK
<1>6. /\ to'[p] = to[p]
      /\ \A k \in Login : to'[s][k].pwd = to[s][k].pwd /\ (k # l => to'[s][k] = to[s][k])
      /\ to'[s][l].new_pwd = w /\ w # NoPwd /\ w # to[s][l].pwd
      /\ Pending(s, l) => to[s][l].new_pwd = w
  <2>1. to \in [Site -> [Login -> ToEntry]] /\ to' = [to EXCEPT ![s][l].new_pwd = w]
    BY <1>1, <1>3 DEF TypeOK, auth_get_new_pwd
  <2>2. /\ to'[p] = to[p]
        /\ \A k \in Login : to'[s][k].pwd = to[s][k].pwd /\ (k # l => to'[s][k] = to[s][k])
        /\ to'[s][l].new_pwd = w
    BY <1>2, <2>1 DEF ToEntry
  <2>3. w # to[s][l].pwd /\ (Pending(s, l) => to[s][l].new_pwd = w)
    BY <1>1, <1>3 DEF auth_get_new_pwd, NewPwdDiffers
  <2> QED BY <2>2, <2>3, PwdsAssumption
<1>7. x \in SendEntry /\ ToKey(s, l) = to[s][l].pwd /\ id \in MId
  BY <1>0, <1>3, ChallengeType, KeyCurrent, MIdType
<1>8. /\ ~x.flag_do_encrypt /\ x.login = l
      /\ x.data = <<[key |-> to[s][l].pwd, ptxt |-> ChangePwdRequest(id, w)],
                    [key |-> w, ptxt |-> Ping(id)]>>
  BY <1>0, <1>7 DEF Challenge
<1> HIDE DEF p, R, C, P
<1>9. x.data[1].ptxt.type = "ChangePwdRequest"
  BY <1>8 DEF ChangePwdRequest
<1>10. x \in EntryOf(R) /\ x \notin EntryOf(C) /\ x \notin EntryOf(AnswerType)
  BY <1>7, <1>9 DEF EntryOf, R, C, RequestType, AnswerType
<1>11. NoToken(s)
  BY <1>2 DEF Settled
<1>12. /\ ~Has(send_q[s], EntryOf(R)) /\ ~Has(net[s], SentOf(R))
       /\ ~Has(internal_q[p], ReadOf(P)) /\ ~Has(send_q[p], EntryOf(AnswerType))
       /\ ~Has(net[p], SentOf(AnswerType)) /\ ~Has(internal_q[s], ReadOf(AnswerType))
  BY <1>11 DEF NoToken, At, R, P, p
<1>13. /\ Elems(send_q'[s]) = Elems(send_q[s]) \cup {x}
       /\ \A S : Has(send_q'[s], S) <=> Has(send_q[s], S) \/ x \in S
       /\ \A S : Once(send_q[s], S) /\ (x \notin S \/ ~Has(send_q[s], S)) => Once(send_q'[s], S)
  BY <1>2, <1>4, <1>7, AppendQueue
<1>14. CredentialAgreement' /\ NewPwdDiffers'
  <2>1. ASSUME NEW t \in Site, NEW k \in Login
        PROVE  /\ \/ from[Peer(t)][k] = to'[t][k].pwd
                  \/ to'[t][k].new_pwd # NoPwd /\ from[Peer(t)][k] = to'[t][k].new_pwd
               /\ to'[t][k].new_pwd # to'[t][k].pwd
    <3>1. /\ \/ from[Peer(t)][k] = to[t][k].pwd
             \/ to[t][k].new_pwd # NoPwd /\ from[Peer(t)][k] = to[t][k].new_pwd
          /\ to[t][k].new_pwd # to[t][k].pwd
      BY <1>3 DEF CredentialAgreement, NewPwdDiffers, Pending
    <3>2. t = s \/ t = p
      BY OtherSite DEF p
    <3> QED BY <1>6, <3>1, <3>2 DEF Pending
  <2> QED BY <2>1 DEF CredentialAgreement, NewPwdDiffers, Pending
<1>15. \A k \in 1 .. 6 : (At(s, k)' => k = 1) /\ OnceAt(s, k)'
  BY <1>2, <1>4, <1>12, <1>13 DEF At, OnceAt, OneToken, R, P, p
<1>16. OneToken(s)'
  BY <1>15 DEF OneToken
<1>17. OneToken(p)' /\ \A k \in 1 .. 6 : At(p, k)' => At(p, k)
  <2>1. \A k \in 1 .. 6 : At(p, k)' => At(p, k)
    BY <1>2, <1>4, <1>10, <1>13 DEF At
  <2>2. \A k \in 1 .. 6 : OnceAt(p, k)'
    BY <1>2, <1>4, <1>10, <1>13 DEF OnceAt, OneToken
  <2> QED BY <1>2, <2>1, <2>2, TokenKept
<1>18. Shapes(s)'
  <2>1. \A e \in Elems(send_q[s]) : EntryShape(s, e)'
    <3> SUFFICES ASSUME NEW e \in Elems(send_q[s]) PROVE EntryShape(s, e)'
      OBVIOUS
    <3>1. e \in SendEntry /\ EntryShape(s, e) /\ e \notin EntryOf(R)
      BY <1>2, <1>12, ElemsType, HasElems DEF Shapes
    <3>2. e.flag_do_encrypt
      BY <3>1, ChallengeFirst DEF EntryShape, EntryOf, R
    <3> QED BY <3>1, <3>2 DEF EntryShape
  <2>2. EntryShape(s, x)'
    BY <1>6, <1>7, <1>8 DEF EntryShape, IsChallenge, Pending
  <2>3. \A n \in Elems(net[s]) : SentShape(s, n)'
    <3> SUFFICES ASSUME NEW n \in Elems(net[s]) PROVE SentShape(s, n)'
      OBVIOUS
    <3>1. n \in Encrypted /\ SentShape(s, n) /\ n \notin SentOf(R)
      BY <1>2, <1>12, ElemsType, HasElems DEF Shapes
    <3>2. ~IsChallenge(s, n.login, n.data)
      BY <3>1, ChallengeFirst DEF SentOf, R
    <3> QED BY <3>1, <3>2 DEF SentShape
  <2>4. \A j \in Elems(internal_q'[s]) : ReadShape(s, j)'
    BY <1>2, <1>6 DEF Shapes, ReadShape, p
  <2> QED BY <1>13, <2>1, <2>2, <2>3, <2>4 DEF Shapes
<1>19. Shapes(p)'
  <2>1. \A j \in Elems(internal_q[p]) : j \in Internal /\ j \notin ReadOf(P)
    BY <1>3, <1>12, ElemsType, HasElems
  <2>2. \A j \in Elems(internal_q'[p]) : ReadShape(p, j)'
    BY <2>1 DEF ReadShape, ReadOf, P, RequestType
  <2>3. \A e \in Elems(send_q'[p]) : EntryShape(p, e)'
    BY <1>2, <1>4, <1>6 DEF Shapes, EntryShape, IsChallenge, Pending
  <2>4. \A n \in Elems(net'[p]) : SentShape(p, n)'
    BY <1>2, <1>6 DEF Shapes, SentShape, IsChallenge, Pending
  <2> QED BY <2>2, <2>3, <2>4 DEF Shapes
<1>20. Settled(s)' /\ Settled(p)'
  <2>1. NoToken(p) => NoToken(p)'
    BY <1>17 DEF NoToken
  <2> QED BY <1>1, <1>2, <1>5, <2>1 DEF Settled
<1>21. Matching(s)'
  <2>1. /\ \A y \in Elems(send_q[p]) : y \in SendEntry /\ y \notin EntryOf(AnswerType)
        /\ \A y \in Elems(net[p]) : y \in Encrypted /\ y \notin SentOf(AnswerType)
        /\ \A y \in Elems(internal_q[s]) : y \in Internal /\ y \notin ReadOf(AnswerType)
    BY <1>2, <1>3, <1>12, ElemsType, HasElems
  <2>2. \A n : n.type \notin AnswerType => AnswerTrue(s, n)'
    BY DEF AnswerTrue, AnswerType
  <2>3. /\ \A y \in Elems(send_q'[p]) : AnswerTrue(s, y.data[1].ptxt)'
        /\ \A y \in Elems(net'[p]) : AnswerTrue(s, y.data[1].ptxt)'
        /\ \A y \in Elems(internal_q'[s]) : AnswerTrue(s, y.ptxt)'
    BY <1>4, <2>1, <2>2 DEF EntryOf, SentOf, ReadOf
  <2>4. /\ \A y \in Elems(send_q'[s]) : y \in EntryOf(R) => y.login = l
        /\ \A y \in Elems(net[s]) : y \notin SentOf(R)
        /\ \A y \in Elems(internal_q[p]) : y \notin ReadOf(P)
    BY <1>8, <1>12, <1>13, HasElems
  <2> QED BY <1>5, <2>3, <2>4 DEF Matching, R, P, p
<1>22. Matching(p)'
  <2> SUFFICES ASSUME challenge_ctxt[p].running PROVE Matching(p)'
    BY <1>5 DEF Matching
  <2>1. \A n : AnswerTrue(p, n) <=> AnswerTrue(p, n)'
    BY <1>2, <1>5, <1>6 DEF AnswerTrue
  <2>2. AnswerTrue(p, x.data[1].ptxt)
    BY <1>9 DEF AnswerTrue
  <2>3. /\ \A y \in Elems(send_q'[s]) : AnswerTrue(p, y.data[1].ptxt)'
        /\ \A y \in Elems(net'[s]) : AnswerTrue(p, y.data[1].ptxt)'
        /\ \A y \in Elems(internal_q'[p]) : AnswerTrue(p, y.ptxt)'
    BY <1>2, <1>13, <2>1, <2>2 DEF Matching
  <2> QED BY <1>2, <1>4, <1>5, <2>3 DEF Matching
<1>23. OthersInStep(s)' /\ OthersInStep(p)'
  <2>1. OthersInStep(s)'
    BY <1>1, <1>2, <1>6 DEF OthersInStep, InStep
  <2>2. OthersInStep(p)'
    BY <1>1, <1>2, <1>5, <1>6 DEF OthersInStep, InStep
  <2> QED BY <2>1, <2>2
<1>24. AllClearAhead(s)'
  <2>1. Before(send_q'[s], EntryOf(C), EntryOf(R))
    BY <1>2, <1>4, <1>7, <1>10, AppendBefore DEF AllClearAhead, R, C
  <2>2. \A k \in 2 .. 6 : ~At(s, k)'
    BY <1>15
  <2>3. \A n \in Elems(net[s]) : n \in Encrypted /\ n.login \in Login
    <3>1. \A n \in Elems(net[s]) : n \in Encrypted
      BY <1>2, ElemsType
    <3> QED BY <3>1 DEF Encrypted
  <2> QED BY <1>2, <1>6, <1>10, <1>13, <2>1, <2>2, <2>3 DEF AllClearAhead, InStep, R, C
<1>25. AllClearAhead(p)'
  BY <1>2, <1>4, <1>6, <1>17 DEF AllClearAhead, InStep
<1> QED BY <1>14, <1>16, <1>17, <1>18, <1>19, <1>20, <1>21, <1>22, <1>23, <1>24, <1>25, BothSites DEF p

(* searchLoginForChallenge walks every login.                              *)
LEMMA NoneDue ==
  ASSUME NEW s \in Site, Due(s) = {}, NEW l \in Login
  PROVE  ~Pending(s, l)
BY DEF Due, Login

LEMMA InitiateInv ==
  ASSUME ChallengeInv, NEW s \in Site, InternalInitiate(s) \/ InternalIdle(s)
  PROVE  TokenInv'
<1>1. /\ initiateChallenge(s) /\ internal_pc[s] # "launch" /\ internal_pc[s] # "done"
      /\ UNCHANGED <<from, live, net, internal_q>>
  BY DEF InternalInitiate, InternalIdle
<1>2. TypeOK /\ RunningPending /\ CredentialAgreement /\ \A t \in Site : Settled(t)
  BY SiteFacts DEF ChallengeInv, StoreInv, TokenInv
<1>3. ASSUME Loop(s), NEW t \in Site
      PROVE  /\ live'[t] => internal_pc'[t] # "done"
             /\ internal_pc'[t] # "done" => internal_pc[t] # "done"
  BY <1>1, <1>2, <1>3 DEF Loop, Settled, TypeOK
<1>4. CASE challenge_ctxt[s].running /\ Loop(s) /\ UNCHANGED <<to, challenge_ctxt, allClearSent, send_q>>
  <2>1. QueuesTrimmed
    BY <1>1, <1>4 DEF QueuesTrimmed, Trimmed
  <2>2. \A t \in Site : SameChallenge(t)
    BY <1>2, <1>3, <1>4 DEF SameChallenge, Settled
  <2> QED BY <1>1, <1>4, <2>1, <2>2, TrimInv
<1>5. CASE ~challenge_ctxt[s].running /\ Due(s) = {} /\ SendAllClear(s) /\ Loop(s)
  <2>1. NoToken(s)
    BY <1>1, <1>2, <1>5 DEF Settled
  <2>2. \A k \in Login : InStep(s, k)
    BY <1>2, <1>5, NoneDue DEF CredentialAgreement, InStep
  <2>3. ASSUME NEW t \in Site
        PROVE  /\ challenge_ctxt'[t].running = challenge_ctxt[t].running
               /\ challenge_ctxt[t].running => challenge_ctxt'[t].login = challenge_ctxt[t].login
               /\ challenge_ctxt'[t].toSend => challenge_ctxt'[t].running
               /\ t # s => allClearSent'[t] = allClearSent[t]
    <3>1. /\ challenge_ctxt \in [Site -> Context] /\ allClearSent \in [Site -> BOOLEAN]
          /\ challenge_ctxt' = [challenge_ctxt EXCEPT ![s].login = NoLogin]
          /\ allClearSent' = [allClearSent EXCEPT ![s] = TRUE]
      BY <1>2, <1>5 DEF TypeOK, SendAllClear
    <3>2. challenge_ctxt[t].toSend => challenge_ctxt[t].running
      BY <1>2 DEF Settled
    <3>3. /\ challenge_ctxt'[t].running = challenge_ctxt[t].running
          /\ challenge_ctxt'[t].toSend = challenge_ctxt[t].toSend
          /\ t # s => challenge_ctxt'[t].login = challenge_ctxt[t].login
      BY <3>1 DEF Context
    <3> QED BY <1>5, <3>1, <3>2, <3>3
  <2>4. CASE allClearSent[s]
    <3>1. send_q' = send_q /\ to' = to /\ allClearSent'[s] = allClearSent[s]
      BY <1>2, <1>5, <2>4 DEF SendAllClear, TypeOK
    <3>2. QueuesTrimmed
      BY <1>1, <3>1 DEF QueuesTrimmed, Trimmed
    <3>3. \A t \in Site : SameChallenge(t)
      BY <1>3, <1>5, <2>3, <3>1 DEF SameChallenge
    <3> QED BY <1>1, <3>1, <3>2, <3>3, TrimInv
  <2>5. CASE ~allClearSent[s]
    <3>1. PushOut(s, Clear(NoLogin, AllClear)) /\ to' = to
      BY <1>5, <2>5 DEF SendAllClear
    <3>2. AllClear \in Plaintext /\ AllClear.type = "AllClear"
      BY <1>2, MIdType DEF AllClear, Plaintext
    <3> QED BY <1>1, <1>3, <1>5, <2>1, <2>2, <2>3, <3>1, <3>2, PushStep
  <2> QED BY <2>4, <2>5
<1>6. CASE ~challenge_ctxt[s].running /\ StartChallenge(s)
  BY <1>1, <1>6, StartStep
<1> QED BY <1>1, <1>4, <1>5, <1>6 DEF initiateChallenge

(* The steps that move no message, or only lose some.                      *)
LEMMA LaunchInv ==
  ASSUME ChallengeInv, NEW s \in Site, Launch(s)
  PROVE  TokenInv'
<1>1. TypeOK /\ RunningPending /\ \A t \in Site : Settled(t)
  BY SiteFacts DEF ChallengeInv, StoreInv
<1>2. UNCHANGED <<to, from, send_q, net, internal_q, live, allClearSent>>
  BY DEF Launch, stores, queues, flags
<1>3. challenge_ctxt[s].toSend /\ challenge_ctxt[s].running
  BY <1>1 DEF Launch, RunningPending, Settled
<1>4. challenge_ctxt \in [Site -> Context] /\ internal_pc[s] = "launch" /\ Loop(s)
  BY <1>1 DEF TypeOK, Launch
<1>5. ASSUME NEW t \in Site PROVE SameChallenge(t)
  <2>1. /\ challenge_ctxt'[t].running = challenge_ctxt[t].running
        /\ challenge_ctxt'[t].login = challenge_ctxt[t].login
        /\ challenge_ctxt'[t].toSend => challenge_ctxt[t].toSend
    BY <1>3, <1>4 DEF Launch, Context
  <2>2. /\ live'[t] => internal_pc'[t] # "done"
        /\ internal_pc'[t] # "done" => internal_pc[t] # "done"
    BY <1>1, <1>2, <1>4 DEF Loop, TypeOK, Settled
  <2> QED BY <1>1, <1>2, <2>1, <2>2 DEF SameChallenge, Settled
<1>6. QueuesTrimmed
  BY <1>2 DEF QueuesTrimmed, Trimmed
<1> QED BY <1>2, <1>5, <1>6, TrimInv

LEMMA AllClearInv ==
  ASSUME ChallengeInv, NEW s \in Site, HandleAllClear(s)
  PROVE  TokenInv'
<1>1. TypeOK /\ \A t \in Site : Settled(t)
  BY SiteFacts DEF ChallengeInv, StoreInv
<1>2. UNCHANGED <<to, from, send_q, net, challenge_ctxt, live, allClearSent>> /\ Dequeue(s)
  BY DEF HandleAllClear, stores
<1>3. QueuesTrimmed
  BY <1>1, <1>2 DEF QueuesTrimmed, Trimmed, Dequeue, TypeOK
<1>4. \A t \in Site : SameChallenge(t)
  BY <1>1, <1>2 DEF SameChallenge, Settled, Dequeue, TypeOK
<1> QED BY <1>2, <1>3, <1>4, TrimInv

LEMMA FaultInv ==
  ASSUME ChallengeInv, NEW s \in Site,
         \/ \E l \in Login : Expire(s, l)
         \/ SendChoose(s)
         \/ ChallengeTimeout(s)
         \/ ConnectionLost(s)
         \/ PayloadCut(s)
         \/ ConnectionBreaks
         \/ UNCHANGED vars
  PROVE  TokenInv'
<1>1. TypeOK /\ Peer(s) \in Site /\ \A t \in Site : Settled(t)
  BY SiteFacts DEF ChallengeInv, StoreInv
<1>2. UNCHANGED <<to, from, send_q, internal_q, challenge_ctxt, allClearSent, internal_pc>>
  BY DEF Expire, SendChoose, ChallengeTimeout, ConnectionLost, PayloadCut, ConnectionBreaks, vars,
         stores, queues, flags
<1>3. live' = live \/ Stop(s)
  BY DEF Expire, SendChoose, ChallengeTimeout, ConnectionLost, PayloadCut, ConnectionBreaks, vars
<1>4. \/ net' = net
      \/ net' = [net EXCEPT ![Peer(s)] = <<>>]
      \/ net[Peer(s)] # <<>> /\ net' = [net EXCEPT ![Peer(s)] = Tail(@)]
  BY DEF Expire, SendChoose, ChallengeTimeout, ConnectionLost, PayloadCut, ConnectionBreaks, vars, queues
<1>5. \A t \in Site : Trimmed(net'[t], net[t])
  BY <1>1, <1>4 DEF Trimmed, TypeOK
<1>6. QueuesTrimmed
  BY <1>2, <1>5 DEF QueuesTrimmed, Trimmed
<1>7. \A t \in Site : live'[t] => live[t]
  BY <1>1, <1>3 DEF Stop, TypeOK
<1>8. \A t \in Site : SameChallenge(t)
  BY <1>1, <1>2, <1>7 DEF SameChallenge, Settled
<1> QED BY <1>2, <1>6, <1>8, TrimInv

LEMMA CrashInv ==
  ASSUME ChallengeInv, NEW s \in Site, Crash(s)
  PROVE  TokenInv'
<1>1. StoreInv /\ TypeOK /\ \A t \in Site : Settled(t)
  BY SiteFacts DEF ChallengeInv, StoreInv
<1>2. UNCHANGED <<to, from, net>>
  BY <1>1, ReloadSame DEF Crash
<1>3. QueuesTrimmed
  BY <1>1, <1>2 DEF QueuesTrimmed, Trimmed, Crash, TypeOK
<1>4. ASSUME NEW t \in Site, t # s PROVE SameChallenge(t)
  BY <1>1, <1>4 DEF SameChallenge, Settled, Crash, Stop, TypeOK
<1>5. NewChallenge(s)
  BY <1>1 DEF NewChallenge, NoChallenge, Crash, Stop, TypeOK
<1> QED BY <1>2, <1>3, <1>4, <1>5, TrimInv

LEMMA ConnectInv ==
  ASSUME ChallengeInv, Connect
  PROVE  TokenInv'
<1>1. StoreInv /\ Follower \in Site
  BY DEF ChallengeInv, Site
<1>2. UNCHANGED <<to, from>>
  BY <1>1, ReloadSame DEF Connect
<1>3. QueuesTrimmed
  BY DEF QueuesTrimmed, Trimmed, Connect
<1>4. ASSUME NEW t \in Site PROVE NewChallenge(t)
  <2>1. Peer(t) \in Site
    BY PeerType
  <2>2. NoToken(t)'
    BY <2>1, EmptyQueue DEF NoToken, At, Connect
  <2> QED BY <2>2 DEF NewChallenge, NoChallenge, Connect
<1> QED BY <1>2, <1>3, <1>4, TrimInv

LEMMA TokenInit == Init => TokenInv
<1> SUFFICES ASSUME Init PROVE TokenInv
  OBVIOUS
<1>1. PICK p \in [Site -> [Login -> Pwd]] :
        /\ to = [s \in Site |-> [l \in Login |-> [pwd |-> p[s][l], new_pwd |-> NoPwd]]]
        /\ from = [s \in Site |-> p[Peer(s)]]
  BY DEF Init
<1>2. CredentialAgreement /\ NewPwdDiffers
  BY <1>1, PeerType, PwdsAssumption DEF CredentialAgreement, NewPwdDiffers, Pending
<1>3. ASSUME NEW s \in Site
      PROVE  Shapes(s) /\ OneToken(s) /\ Settled(s) /\ Matching(s) /\ OthersInStep(s) /\ AllClearAhead(s)
  <2>1. /\ Peer(s) \in Site /\ send_q[s] = <<>> /\ net[s] = <<>> /\ internal_q[s] = <<>>
        /\ send_q[Peer(s)] = <<>> /\ net[Peer(s)] = <<>> /\ internal_q[Peer(s)] = <<>>
        /\ challenge_ctxt[s] = NoChallenge /\ ~allClearSent[s] /\ ~live[s] /\ internal_pc[s] = "done"
    BY PeerType DEF Init
  <2>2. \A k \in 1 .. 6 : ~At(s, k) /\ OnceAt(s, k)
    BY <2>1, EmptyQueue DEF At, OnceAt
  <2>3. Shapes(s) /\ AllClearAhead(s)
    BY <2>1, <2>2, EmptyQueue DEF Shapes, AllClearAhead
  <2>4. OneToken(s) /\ Settled(s) /\ Matching(s) /\ OthersInStep(s)
    BY <2>1, <2>2 DEF OneToken, Settled, Matching, OthersInStep, NoChallenge
  <2> QED BY <2>3, <2>4
<1> QED BY <1>2, <1>3 DEF TokenInv

LEMMA TokenStep == ChallengeInv /\ [Next]_vars => TokenInv'
<1> SUFFICES ASSUME ChallengeInv, [Next]_vars PROVE TokenInv'
  OBVIOUS
<1>1. Follower \in Site
  BY DEF Site
<1>2. CASE ConnectionBreaks \/ Connect \/ UNCHANGED vars
  BY <1>1, <1>2, FaultInv, ConnectInv
<1>3. ASSUME NEW s \in Site, HandleMessage(s) PROVE TokenInv'
  BY <1>3, AllClearInv, RequestInv, ResponseInv, PingInv DEF HandleMessage
<1>4. ASSUME NEW s \in Site,
             \/ cyber_send(s)
             \/ cyber_receive(s)
             \/ InternalInitiate(s)
             \/ InternalIdle(s)
             \/ Launch(s)
             \/ SendPush(s)
             \/ Crash(s)
      PROVE  TokenInv'
  BY <1>4, SendInv, ReceiveInv, InitiateInv, LaunchInv, SendPushInv, CrashInv
<1>5. ASSUME NEW s \in Site,
             \/ \E l \in Login : Expire(s, l)
             \/ SendChoose(s)
             \/ ChallengeTimeout(s)
             \/ ConnectionLost(s)
             \/ PayloadCut(s)
      PROVE  TokenInv'
  BY <1>5, FaultInv
<1> QED BY <1>2, <1>3, <1>4, <1>5 DEF Next

-----------------------------------------------------------------------------
(* The challenge of a site is one token, its messages agree with the       *)
(* passwords on both sides and nothing that is lost, stopped, restarted or *)
(* late breaks that agreement (initiateChallenge, Challenge_encode,        *)
(* Encrypted_decode and the handlers of cyber_process_internal_msg).       *)
THEOREM ChallengeInvariant == Spec => []ChallengeInv
<1>1. Init => TokenInv
  BY TokenInit
<1>2. StoreInv /\ SecretsCurrent /\ TokenInv /\ [Next]_vars => TokenInv'
  BY TokenStep DEF ChallengeInv
<1>3. Spec => []TokenInv
  BY <1>1, <1>2, StoreInvariant, SecretsAlwaysCurrent, PTL DEF Spec
<1>4. StoreInv /\ SecretsCurrent /\ TokenInv => ChallengeInv
  BY DEF ChallengeInv
<1> QED BY <1>3, <1>4, StoreInvariant, SecretsAlwaysCurrent, PTL

(* A renewal never locks a login out, with any number of logins, losses,   *)
(* crashes and early timeouts between auth_set_pwd_b64 and                 *)
(* auth_switch_to_new_pwd.                                                 *)
THEOREM NeverLockedOut == Spec => []CredentialAgreement
<1>1. ChallengeInv => CredentialAgreement
  BY DEF ChallengeInv, TokenInv
<1> QED BY <1>1, ChallengeInvariant, PTL

(* When cyber_isAvailable says yes, the peer has the current password of   *)
(* every login.                                                            *)
THEOREM AvailableIsInStep == Spec => []AcceptedWhenAvailable
<1>1. ChallengeInv => AcceptedWhenAvailable
  BY DEF ChallengeInv, TokenInv, AcceptedWhenAvailable, Available, OthersInStep, InStep
<1> QED BY <1>1, ChallengeInvariant, PTL

(* The one AllClear of a session is never dropped by Encrypted_decode: it  *)
(* stays ahead of the challenges that would change the password it was     *)
(* encrypted with.                                                         *)
THEOREM AllClearIsRead == Spec => []AllClearReadable
<1>1. ChallengeInv => AllClearReadable
  <2> SUFFICES ASSUME ChallengeInv, NEW s \in Site, Arriving(s, "AllClear") PROVE Readable(s)
    BY DEF AllClearReadable
  <2> DEFINE p == Peer(s)
             e == Head(net[p])
  <2>1. /\ p \in Site /\ Peer(p) = s /\ net[p] \in Seq(Encrypted) /\ AllClearAhead(p)
        /\ net[p] # <<>> /\ e.data[1].ptxt.type = "AllClear" /\ SecretsCurrent
    BY SiteFacts DEF Arriving, ChallengeInv
  <2>2. e \in Encrypted /\ e \in Elems(net[p]) /\ e.login \in Login
    <3>1. e \in Elems(net[p])
      BY <2>1, TailQueue
    <3>2. e \in Encrypted
      BY <2>1, <3>1, ElemsType
    <3> QED BY <3>1, <3>2 DEF Encrypted
  <2>3. e \in SentOf({"AllClear"}) /\ Has(net[p], SentOf({"AllClear"}))
    BY <2>1, <2>2, HasElems DEF SentOf
  <2>4. e.data[1].key = to[p][e.login].pwd /\ from[s][e.login] = to[p][e.login].pwd
    BY <2>1, <2>2, <2>3 DEF AllClearAhead, InStep
  <2> QED BY <2>1, <2>2, <2>4, KeyCurrent DEF Readable
<1> QED BY <1>1, ChallengeInvariant, PTL

(* A busy response to the running challenge means that the peer still has  *)
(* the old password.                                                       *)
THEOREM BusyIsHarmless == Spec => []BusyLeavesPassword
<1>1. ChallengeInv => BusyLeavesPassword
  <2> SUFFICES ASSUME ChallengeInv, NEW s \in Site, internal_q[s] # <<>>,
                      Head(internal_q[s]).ptxt.type = "ChangePwdResponse",
                      Head(internal_q[s]).ptxt.arg = FALSE,
                      Answers(s, Head(internal_q[s]).ptxt)
               PROVE  from[Peer(s)][challenge_ctxt[s].login] = to[s][challenge_ctxt[s].login].pwd
    BY DEF BusyLeavesPassword
  <2>1. Matching(s) /\ Head(internal_q[s]) \in Elems(internal_q[s])
    BY SiteFacts, TailQueue
  <2>2. AnswerTrue(s, Head(internal_q[s]).ptxt)
    BY <2>1 DEF Matching, Answers
  <2> QED BY <2>2 DEF AnswerTrue
<1> QED BY <1>1, ChallengeInvariant, PTL

(* The size of a set with no two elements.                                 *)
LEMMA AtMostOne ==
  ASSUME NEW A, \A a, b \in A : a = b
  PROVE  Cardinality(A) \in {0, 1} /\ (Cardinality(A) = 1 => A # {})
<1>1. CASE A = {}
  BY <1>1, FS_EmptySet
<1>2. CASE A # {}
  <2>1. PICK a \in A : A = {a}
    BY <1>2
  <2> QED BY <2>1, FS_Singleton
<1> QED BY <1>1, <1>2

(* A challenge is answered once, by the request's response or the Ping's   *)
(* Pong, and a site without a challenge has none in flight: the guard of   *)
(* initiateChallenge and the two keys of Challenge_encode suffice for it.  *)
THEOREM OneAnswer == Spec => []OneAnswerPerChallenge
<1>1. ChallengeInv => OneAnswerPerChallenge
  <2> SUFFICES ASSUME ChallengeInv, NEW s \in Site
               PROVE  /\ Cardinality(ChallengeOnItsWay(s)) + Cardinality(AnswerOnItsWay(s)) <= 1
                      /\ live[s] /\ ~InProgress(s) =>
                            ChallengeOnItsWay(s) \cup AnswerOnItsWay(s) = {}
    BY DEF OneAnswerPerChallenge
  <2> DEFINE A == ChallengeOnItsWay(s)
             B == AnswerOnItsWay(s)
             P == RequestType \cup {"Ping"}
  <2>1. OneToken(s) /\ Settled(s)
    BY SiteFacts
  <2>2. /\ Once(send_q[s], EntryOf(RequestType)) /\ Once(net[s], SentOf(RequestType))
        /\ Once(internal_q[Peer(s)], ReadOf(P))
        /\ Once(send_q[Peer(s)], EntryOf(AnswerType)) /\ Once(net[Peer(s)], SentOf(AnswerType))
        /\ Once(internal_q[s], ReadOf(AnswerType))
    BY <2>1 DEF OneToken, OnceAt
  <2>3. ASSUME NEW a \in A
        PROVE  \/ At(s, 1) /\ \E i \in Index(send_q[s], EntryOf(RequestType)) : a = <<"send_q", i>>
               \/ At(s, 2) /\ \E i \in Index(net[s], SentOf(RequestType)) : a = <<"net", i>>
               \/ At(s, 3) /\ \E i \in Index(internal_q[Peer(s)], ReadOf(P)) : a = <<"internal_q", i>>
    BY DEF ChallengeOnItsWay, At, Has
  <2>4. ASSUME NEW a \in B
        PROVE  \/ At(s, 4) /\ \E i \in Index(send_q[Peer(s)], EntryOf(AnswerType)) : a = <<"send_q", i>>
               \/ At(s, 5) /\ \E i \in Index(net[Peer(s)], SentOf(AnswerType)) : a = <<"net", i>>
               \/ At(s, 6) /\ \E i \in Index(internal_q[s], ReadOf(AnswerType)) : a = <<"internal_q", i>>
    BY DEF AnswerOnItsWay, At, Has
  <2> HIDE DEF A, B, P
  <2>5. \A j, k \in 1 .. 6 : At(s, j) /\ At(s, k) => j = k
    BY <2>1 DEF OneToken
  <2>6. \A a, b \in A : a = b
    BY <2>2, <2>3, <2>5 DEF Once
  <2>7. \A a, b \in B : a = b
    BY <2>2, <2>4, <2>5 DEF Once
  <2>8. A = {} \/ B = {}
    BY <2>3, <2>4, <2>5
  <2>9. Cardinality(A) + Cardinality(B) <= 1
    BY <2>6, <2>7, <2>8, AtMostOne
  <2>10. live[s] /\ ~InProgress(s) => A \cup B = {}
    BY <2>1, <2>3, <2>4 DEF Settled, InProgress, NoToken
  <2> QED BY <2>9, <2>10 DEF A, B
<1> QED BY <1>1, ChallengeInvariant, PTL

-----------------------------------------------------------------------------
(* The return path of a challenge (ReturnInv, OneSided).                   *)

(* Taking the head of a queue leaves the rest.                             *)
LEMMA TailHas ==
  ASSUME NEW T, NEW q \in Seq(T), q # <<>>, NEW S
  PROVE  /\ Elems(q) = Elems(Tail(q)) \cup {Head(q)}
         /\ Has(q, S) <=> Has(Tail(q), S) \/ Head(q) \in S
<1>1. /\ Tail(q) \in Seq(T) /\ Len(Tail(q)) = Len(q) - 1
      /\ \A i \in 1 .. Len(Tail(q)) : Tail(q)[i] = q[i + 1]
  BY HeadTailProperties
<1>2. /\ Len(q) \in Nat \ {0} /\ DOMAIN q = 1 .. Len(q) /\ DOMAIN Tail(q) = 1 .. Len(q) - 1
      /\ Head(q) = q[1]
  BY <1>1, LenProperties, EmptySeq
<1>3. \A i \in DOMAIN q : i = 1 \/ (i - 1 \in DOMAIN Tail(q) /\ Tail(q)[i - 1] = q[i])
  BY <1>1, <1>2
<1>4. Elems(q) \subseteq Elems(Tail(q)) \cup {Head(q)}
  BY <1>2, <1>3 DEF Elems
<1>5. Elems(q) = Elems(Tail(q)) \cup {Head(q)}
  BY <1>4, TailQueue
<1> QED BY <1>5, HasElems

(* With one login, every login is the first.                               *)
LEMMA SingleLogin ==
  ASSUME Len(LoginSeq) = 1
  PROVE  NextLogin = NoLogin /\ Login = {FirstLogin}
<1>1. LoginSeq \in Seq(Login) /\ DOMAIN LoginSeq = 1 .. 1
  BY LoginAssumption, LenProperties
<1> QED BY <1>1 DEF NextLogin, FirstLogin, Login

(* A site whose own challenge is answered, or on its way, has it running,  *)
(* and its peer has not adopted a password it did not answer about.        *)
LEMMA ReturnFacts ==
  ASSUME ChallengeInv, NEW s \in Site, ReturnPath(s), ReturnPath(Peer(s))
  PROVE  /\ \A k \in 1 .. 6 : At(s, k) => Untaken(s) \/ k \in 4 .. 6
         /\ \A k \in 4 .. 6 : At(s, k) => Untaken(Peer(s))
<1>1. /\ Peer(s) \in Site /\ Peer(Peer(s)) = s /\ OneToken(s) /\ OneToken(Peer(s))
      /\ Taken(s) /\ Taken(Peer(s))
  BY SiteFacts DEF ReturnPath
<1>2. \A k \in 1 .. 6 : At(s, k) => Untaken(s) \/ k \in 4 .. 6
  BY <1>1 DEF Taken, OneToken
<1>3. ASSUME NEW k \in 4 .. 6, At(s, k), ~Untaken(Peer(s)) PROVE FALSE
  <2>1. PICK j \in 4 .. 6 : At(Peer(s), j)
    BY <1>1, <1>3 DEF Taken
  <2>2. AnswerAhead(Peer(s)) /\ k \in 2 .. 6 /\ k \in 3 .. 6
    BY <1>1, <1>3 DEF Taken
  <2>3. j = 4 \/ j = 5 \/ j = 6
    OBVIOUS
  <2> QED BY <1>1, <1>3, <2>1, <2>2, <2>3 DEF AnswerAhead
<1> QED BY <1>2, <1>3

(* cyber_send on the return path: what is written for an answer is under   *)
(* the password that the peer has.                                         *)
LEMMA SendReturn ==
  ASSUME ChallengeInv, NEW s \in Site, cyber_send(s), ReturnPath(s), ReturnPath(Peer(s))
  PROVE  ReturnPath(s)' /\ ReturnPath(Peer(s))'
<1> DEFINE e == Head(send_q[s])
           m == Encrypted_write(s, e)
           p == Peer(s)
           R == RequestType
           A == AnswerType
<1>1. /\ send_q[s] # <<>> /\ UNCHANGED <<to, from, internal_q, challenge_ctxt>>
      /\ UNCHANGED <<live, link, internal_pc>> /\ live[s] /\ link
  BY DEF cyber_send, stores, ReturnPath, Connected
<1>2. /\ p \in Site /\ p # s /\ Peer(p) = s
      /\ send_q[s] \in Seq(SendEntry) /\ net[s] \in Seq(Encrypted)
      /\ Shapes(s) /\ OneToken(s) /\ OneToken(p)
  BY SiteFacts
<1>3. /\ send_q \in [Site -> Seq(SendEntry)] /\ net \in [Site -> Seq(Encrypted)]
      /\ TypeOK /\ SecretsCurrent
  BY DEF ChallengeInv, StoreInv, TypeOK
<1>4. /\ send_q'[s] = Tail(send_q[s]) /\ send_q'[p] = send_q[p]
      /\ net'[s] = Append(net[s], m) /\ net'[p] = net[p]
  BY <1>1, <1>2, <1>3 DEF cyber_send
<1>5. e \in SendEntry /\ e \in Elems(send_q[s]) /\ EntryShape(s, e)
  BY <1>1, <1>2, <1>3, QueueTail, TailQueue DEF Shapes
<1>6. /\ m \in Encrypted /\ m.login \in Login
      /\ m.data[1].ptxt = e.data[1].ptxt
      /\ \A T : m \in SentOf(T) <=> e \in EntryOf(T)
  BY <1>5, WrittenShape DEF Encrypted
<1>7. e \in EntryOf(A) => e \notin EntryOf(R) /\ m.data[1].key = to[s][m.login].pwd
  <2> SUFFICES ASSUME e \in EntryOf(A) PROVE e \notin EntryOf(R) /\ m.data[1].key = to[s][m.login].pwd
    OBVIOUS
  <2>1. e \notin EntryOf(R)
    BY DEF EntryOf, AnswerType, RequestType
  <2>2. e.flag_do_encrypt
    BY <1>5, <2>1, ChallengeFirst DEF EntryShape, EntryOf
  <2>3. m.login = SendLogin(e) /\ m.data[1].key = ToKey(s, SendLogin(e))
    BY <2>2 DEF Encrypted_write
  <2> QED BY <1>3, <1>6, <2>1, <2>3, KeyCurrent
<1>8. /\ Elems(send_q[s]) = Elems(send_q'[s]) \cup {e}
      /\ \A S : Has(send_q[s], S) <=> Has(send_q'[s], S) \/ e \in S
      /\ \A S : Once(send_q[s], S) /\ e \in S => ~Has(send_q'[s], S)
      /\ Elems(net'[s]) = Elems(net[s]) \cup {m}
      /\ \A S : Has(net'[s], S) <=> Has(net[s], S) \/ m \in S
  BY <1>1, <1>2, <1>4, <1>6, TailHas, TailQueue, AppendQueue
<1>9. /\ \A k \in 1 .. 6 : At(s, k)' <=> IF k = 1 THEN Has(send_q'[s], EntryOf(R))
                                        ELSE At(s, k) \/ (k = 2 /\ e \in EntryOf(R))
      /\ At(s, 1) <=> At(s, 1)' \/ e \in EntryOf(R)
      /\ \A k \in 1 .. 6 : At(p, k)' <=> IF k = 4 THEN Has(send_q'[s], EntryOf(A))
                                        ELSE At(p, k) \/ (k = 5 /\ e \in EntryOf(A))
      /\ At(p, 4) <=> At(p, 4)' \/ e \in EntryOf(A)
  BY <1>1, <1>2, <1>4, <1>6, <1>8 DEF At
<1>10. /\ Connected(s) /\ Taken(s) /\ SameId(s) /\ AnswerKeys(s)
       /\ Connected(p) /\ Taken(p) /\ SameId(p) /\ AnswerKeys(p)
       /\ challenge_ctxt[s].running => Underway(s)
       /\ challenge_ctxt[p].running => Underway(p)
       /\ At(p, 4) => Untaken(s)
  BY <1>2, ReturnFacts DEF ReturnPath
<1> HIDE DEF e, m, p, R, A
<1>11. Connected(s)' /\ Connected(p)'
  BY <1>1, <1>10 DEF Connected, Untaken, InStep
<1>12. (Underway(s) => Underway(s)') /\ (Underway(p) => Underway(p)')
  BY <1>9 DEF Underway
<1>13. (Untaken(s)' <=> Untaken(s)) /\ (Untaken(p)' <=> Untaken(p))
  BY <1>1 DEF Untaken, InStep
<1>14. Taken(s)'
  BY <1>1, <1>2, <1>4, <1>9, <1>10, <1>13 DEF Taken, AnswerAhead, p
<1>15. Taken(p)'
  <2> SUFFICES ASSUME ~Untaken(p) PROVE (\E k \in 4 .. 6 : At(p, k)') /\ AnswerAhead(p)'
    BY <1>13 DEF Taken
  <2>1. (\E k \in 4 .. 6 : At(p, k)) /\ AnswerAhead(p)
    BY <1>10 DEF Taken
  <2>2. \E k \in 4 .. 6 : At(p, k)'
    BY <1>9, <2>1
  <2>3. At(p, 4) => /\ Before(send_q'[s], EntryOf(A), EntryOf(R)) /\ e \notin EntryOf(R)
                    /\ \A k \in 2 .. 6 : ~At(s, k)'
    <3> SUFFICES ASSUME At(p, 4)
                 PROVE  /\ Before(send_q'[s], EntryOf(A), EntryOf(R)) /\ e \notin EntryOf(R)
                        /\ \A k \in 2 .. 6 : ~At(s, k)'
      OBVIOUS
    <3>1. Before(send_q[s], EntryOf(A), EntryOf(R)) /\ \A k \in 2 .. 6 : ~At(s, k)
      BY <1>2, <2>1 DEF AnswerAhead, R, A
    <3>2. Has(send_q[s], EntryOf(A))
      BY <1>2 DEF At, A
    <3>3. Before(send_q'[s], EntryOf(A), EntryOf(R)) /\ e \notin EntryOf(R)
      BY <1>1, <1>2, <1>4, <3>1, <3>2, TailBefore DEF e
    <3> QED BY <1>9, <3>1, <3>3
  <2>4. At(p, 5)' => Before(net'[s], SentOf(A), SentOf(R)) /\ \A k \in 3 .. 6 : ~At(s, k)'
    <3> SUFFICES ASSUME At(p, 5)'
                 PROVE  Before(net'[s], SentOf(A), SentOf(R)) /\ \A k \in 3 .. 6 : ~At(s, k)'
      OBVIOUS
    <3>1. CASE At(p, 5)
      <4>1. e \notin EntryOf(A)
        BY <1>2, <1>9, <3>1 DEF OneToken
      <4>2. Before(net[s], SentOf(A), SentOf(R)) /\ \A k \in 3 .. 6 : ~At(s, k)
        BY <1>2, <2>1, <3>1 DEF AnswerAhead, R, A
      <4> QED BY <1>2, <1>4, <1>6, <1>9, <4>1, <4>2, AppendBefore
    <3>2. CASE ~At(p, 5)
      <4>1. e \in EntryOf(A) /\ At(p, 4)
        BY <1>9, <3>2
      <4>2. ~Has(net[s], SentOf(R)) /\ ~Has(net[s], SentOf(A))
        BY <1>2, <1>9, <2>3, <3>2, <4>1 DEF At, R, A
      <4>3. Before(net[s], SentOf(A), SentOf(R))
        BY <4>2 DEF Before, Has
      <4> QED BY <1>2, <1>4, <1>6, <1>9, <2>3, <4>1, <4>2, <4>3, AppendBefore
    <3> QED BY <3>1, <3>2
  <2>5. At(p, 6)' => /\ Before(internal_q'[p], ReadOf(A), ReadOf(R \cup {"Ping"}))
                     /\ \A k \in 4 .. 6 : ~At(s, k)'
    <3>1. At(p, 6)' => At(p, 6)
      BY <1>9
    <3>2. \A k \in 4 .. 6 : At(s, k)' <=> At(s, k)
      BY <1>9
    <3> QED BY <1>1, <1>2, <2>1, <3>1, <3>2 DEF AnswerAhead, R, A
  <2>6. At(p, 4)' => At(p, 4)
    BY <1>9
  <2> QED BY <1>2, <2>2, <2>3, <2>4, <2>5, <2>6 DEF AnswerAhead, R, A
<1>16. SameId(s)'
  <2> SUFFICES ASSUME challenge_ctxt[s].running PROVE SameId(s)'
    BY <1>1 DEF SameId
  <2>1. m \in SentOf(R) => m.data[1].ptxt.mId = challenge_ctxt[s].mId
    BY <1>6, <1>8, <1>10 DEF SameId, R
  <2>2. /\ \A x \in Elems(send_q'[s]) : x \in Elems(send_q[s])
        /\ \A x \in Elems(net'[s]) : x \in Elems(net[s]) \/ x = m
    BY <1>8
  <2> QED BY <1>1, <1>2, <1>4, <1>10, <2>1, <2>2 DEF SameId, p, R
<1>17. SameId(p)'
  <2> SUFFICES ASSUME challenge_ctxt[p].running PROVE SameId(p)'
    BY <1>1 DEF SameId
  <2>1. m \in SentOf(A) => m.data[1].ptxt.mId = challenge_ctxt[p].mId
    BY <1>2, <1>6, <1>8, <1>10 DEF SameId, A
  <2>2. /\ \A x \in Elems(send_q'[s]) : x \in Elems(send_q[s])
        /\ \A x \in Elems(net'[s]) : x \in Elems(net[s]) \/ x = m
    BY <1>8
  <2> QED BY <1>1, <1>2, <1>4, <1>10, <2>1, <2>2 DEF SameId, A
<1>18. AnswerKeys(s)'
  <2>1. m \in SentOf(A) => m.data[1].key = from[p][m.login]
    BY <1>6, <1>7, <1>9, <1>10 DEF Untaken, InStep, p
  <2> QED BY <1>1, <1>8, <1>10, <2>1 DEF AnswerKeys, p, A
<1>19. AnswerKeys(p)'
  BY <1>1, <1>4, <1>10 DEF AnswerKeys
<1> QED BY <1>1, <1>10, <1>11, <1>12, <1>14, <1>15, <1>16, <1>17, <1>18, <1>19 DEF ReturnPath, p
(* A step that takes from the queues nothing but messages of no challenge. *)
LEMMA TrimReturn ==
  ASSUME ChallengeInv, QueuesTrimmed, UNCHANGED <<to, from, live, link>>,
         NEW t \in Site, ReturnPath(t),
         \A k \in 1 .. 6 : /\ At(t, k)' <=> At(t, k)
                           /\ At(Peer(t), k)' <=> At(Peer(t), k),
         challenge_ctxt'[t].running = challenge_ctxt[t].running,
         challenge_ctxt'[t].mId = challenge_ctxt[t].mId,
         internal_pc[t] = "done" => internal_pc'[t] = "done"
  PROVE  ReturnPath(t)'
<1> DEFINE p == Peer(t)
           R == RequestType
           A == AnswerType
           P == RequestType \cup {"Ping"}
<1>1. /\ p \in Site /\ Peer(p) = t /\ TypeOK
      /\ send_q[t] \in Seq(SendEntry) /\ net[t] \in Seq(Encrypted) /\ internal_q[t] \in Seq(Internal)
  BY SiteFacts DEF ChallengeInv, StoreInv
<1>2. send_q[p] \in Seq(SendEntry) /\ net[p] \in Seq(Encrypted) /\ internal_q[p] \in Seq(Internal)
  BY <1>1, SiteFacts
<1>3. /\ Elems(send_q'[t]) \subseteq Elems(send_q[t])
      /\ Elems(send_q'[p]) \subseteq Elems(send_q[p])
      /\ Elems(net'[t]) \subseteq Elems(net[t])
      /\ Elems(net'[p]) \subseteq Elems(net[p])
      /\ Elems(internal_q'[t]) \subseteq Elems(internal_q[t])
      /\ Elems(internal_q'[p]) \subseteq Elems(internal_q[p])
      /\ Before(send_q[p], EntryOf(A), EntryOf(R)) => Before(send_q'[p], EntryOf(A), EntryOf(R))
      /\ Before(net[p], SentOf(A), SentOf(R)) => Before(net'[p], SentOf(A), SentOf(R))
      /\ Before(internal_q[t], ReadOf(A), ReadOf(P)) => Before(internal_q'[t], ReadOf(A), ReadOf(P))
  BY <1>1, <1>2, TrimQueue DEF QueuesTrimmed
<1>4. /\ Connected(t) /\ Taken(t) /\ SameId(t) /\ AnswerKeys(t)
      /\ challenge_ctxt[t].running => Underway(t)
  BY DEF ReturnPath
<1> HIDE DEF p, R, A, P
<1>5. Connected(t)'
  BY <1>4 DEF Connected, Untaken, InStep
<1>6. Underway(t) => Underway(t)'
  BY DEF Underway
<1>7. Taken(t)'
  <2>1. Untaken(t)' <=> Untaken(t)
    BY DEF Untaken, InStep
  <2>2. AnswerAhead(t) => AnswerAhead(t)'
    BY <1>3 DEF AnswerAhead, p, R, A, P
  <2> QED BY <1>4, <2>1, <2>2 DEF Taken
<1>8. SameId(t)'
  <2> SUFFICES ASSUME challenge_ctxt[t].running PROVE SameId(t)'
    BY DEF SameId
  <2> QED BY <1>3, <1>4 DEF SameId, p
<1>9. AnswerKeys(t)'
  BY <1>3, <1>4 DEF AnswerKeys
<1> QED BY <1>4, <1>5, <1>6, <1>7, <1>8, <1>9 DEF ReturnPath

(* Encrypted_decode keeps a challenge, whatever the password of the        *)
(* reader, and an answer under the password of the reader.                 *)
LEMMA DecodedSome ==
  ASSUME ChallengeInv, NEW s \in Site, NEW e \in Encrypted, SentShape(Peer(s), e),
         \/ e \in SentOf(RequestType)
         \/ e \in SentOf(AnswerType) /\ e.data[1].key = from[s][e.login]
  PROVE  Encrypted_decode(s, e) # <<>>
<1> DEFINE k == FromKey(s, e.login)
           p == Peer(s)
           l == e.login
<1>1. /\ TypeOK /\ SecretsCurrent /\ CredentialAgreement
      /\ p \in Site /\ Peer(p) = s /\ l \in Login
  BY PeerType DEF ChallengeInv, StoreInv, TokenInv, Encrypted
<1>2. k = from[s][l] /\ e.data \in Seq(Element) /\ e.data # <<>>
  BY <1>1, KeyCurrent DEF Encrypted, Elements
<1>3. 1 \in DOMAIN e.data
  BY <1>2, LenProperties, EmptySeq
<1>4. \A j : Opened(k, e, j) = <<>> \/ Opened(k, e, j) = <<[login |-> l, ptxt |-> e.data[j].ptxt]>>
  BY DEF Opened
<1>5. Opened(k, e, 1) # <<>> \/ Opened(k, e, 2) # <<>>
  <2>1. CASE e \in SentOf(AnswerType) /\ e.data[1].key = k
    BY <1>3, <2>1 DEF Opened, SentOf, AnswerType
  <2>2. CASE e \in SentOf(RequestType)
    <3>1. IsChallenge(p, l, e.data)
      BY <2>2 DEF SentShape, SentOf, SingleType, AnswerType, RequestType
    <3>2. PICK id \in MId :
            e.data = <<[key |-> to[p][l].pwd, ptxt |-> ChangePwdRequest(id, to[p][l].new_pwd)],
                       [key |-> to[p][l].new_pwd, ptxt |-> Ping(id)]>>
      BY <3>1 DEF IsChallenge
    <3>3. /\ DOMAIN e.data = 1 .. 2
          /\ e.data[1].key = to[p][l].pwd /\ e.data[1].ptxt = ChangePwdRequest(id, to[p][l].new_pwd)
          /\ e.data[2].key = to[p][l].new_pwd /\ e.data[2].ptxt = Ping(id)
      BY <3>2
    <3>4. k = to[p][l].pwd \/ k = to[p][l].new_pwd
      BY <1>1, <1>2 DEF CredentialAgreement
    <3>5. k = to[p][l].pwd => Opened(k, e, 1) # <<>>
      BY <3>3 DEF Opened, ChangePwdRequest
    <3>6. k = to[p][l].new_pwd => Opened(k, e, 2) # <<>>
      BY <3>3 DEF Opened, Ping
    <3> QED BY <3>4, <3>5, <3>6
  <2> QED BY <1>2, <2>1, <2>2
<1> DEFINE x(j) == [login |-> l, ptxt |-> e.data[j].ptxt]
<1> HIDE DEF k, x
<1>6. \A a, b : <<a>> \o <<>> # <<>> /\ <<>> \o <<b>> # <<>> /\ <<a>> \o <<b>> # <<>>
  <2> TAKE a, b
  <2>1. <<a>> \o <<>> # <<>> /\ <<>> \o <<b>> # <<>>
    BY SingleConcat
  <2>2. <<a>> \in Seq({a, b}) /\ <<b>> \in Seq({a, b})
    OBVIOUS
  <2>3. Len(<<a>> \o <<b>>) = 2
    BY <2>2, ConcatProperties
  <2> QED BY <2>1, <2>3, LenProperties, EmptySeq
<1> QED BY <1>4, <1>5, <1>6 DEF Encrypted_decode, k
(* cyber_receive on the return path: nothing that belongs to a challenge   *)
(* is dropped.                                                             *)
LEMMA ReceiveReturn ==
  ASSUME ChallengeInv, NEW s \in Site, cyber_receive(s), ReturnPath(s), ReturnPath(Peer(s))
  PROVE  ReturnPath(s)' /\ ReturnPath(Peer(s))'
<1> DEFINE p == Peer(s)
           e == Head(net[p])
           d == Encrypted_decode(s, e)
           R == RequestType
           A == AnswerType
           P == RequestType \cup {"Ping"}
<1>1. /\ net[p] # <<>> /\ UNCHANGED <<to, from, send_q, challenge_ctxt>>
      /\ UNCHANGED <<live, link, internal_pc>>
  BY DEF cyber_receive, stores
<1>2. /\ p \in Site /\ p # s /\ Peer(p) = s
      /\ net[p] \in Seq(Encrypted) /\ internal_q[s] \in Seq(Internal)
      /\ Shapes(p) /\ OneToken(s) /\ OneToken(p)
  BY SiteFacts
<1>3. net \in [Site -> Seq(Encrypted)] /\ internal_q \in [Site -> Seq(Internal)] /\ NewPwdDiffers
  BY DEF ChallengeInv, StoreInv, TokenInv, TypeOK
<1>4. /\ net'[p] = Tail(net[p]) /\ net'[s] = net[s]
      /\ internal_q'[s] = internal_q[s] \o d /\ internal_q'[p] = internal_q[p]
  BY <1>2, <1>3 DEF cyber_receive
<1>5. e \in Encrypted /\ e \in Elems(net[p]) /\ SentShape(p, e) /\ e.login \in Login
  <2>1. e \in Encrypted /\ e \in Elems(net[p])
    BY <1>1, <1>2, <1>3, QueueTail, TailQueue
  <2> QED BY <1>2, <2>1 DEF Shapes, Encrypted
<1>6. /\ Connected(s) /\ Taken(s) /\ SameId(s) /\ AnswerKeys(s)
      /\ Connected(p) /\ Taken(p) /\ SameId(p) /\ AnswerKeys(p)
      /\ challenge_ctxt[s].running => Underway(s)
      /\ challenge_ctxt[p].running => Underway(p)
      /\ At(p, 2) => Untaken(p)
  BY <1>2, ReturnFacts DEF ReturnPath
<1>7. d # <<>> \/ (e \notin SentOf(R) /\ e \notin SentOf(A))
  <2>1. e \in SentOf(A) => e.data[1].key = from[s][e.login]
    BY <1>2, <1>5, <1>6 DEF AnswerKeys
  <2> QED BY <1>5, <2>1, DecodedSome
<1>8. /\ Elems(net[p]) = Elems(net'[p]) \cup {e}
      /\ \A S : Has(net[p], S) <=> Has(net'[p], S) \/ e \in S
      /\ \A S : Once(net[p], S) /\ e \in S => ~Has(net'[p], S)
  BY <1>1, <1>2, <1>4, TailHas, TailQueue
<1>9. CASE d = <<>>
  <2>1. internal_q'[s] = internal_q[s]
    BY <1>2, <1>4, <1>9, ConcatEmptySeq
  <2>2. QueuesTrimmed
    BY <1>1, <1>4, <2>1, OtherSite DEF QueuesTrimmed, Trimmed
  <2> HIDE DEF p, e, d, R, A, P
  <2>3. \A k \in 1 .. 6 : (At(s, k)' <=> At(s, k)) /\ (At(p, k)' <=> At(p, k))
    BY <1>1, <1>2, <1>4, <1>7, <1>8, <1>9, <2>1 DEF At, R, A, p
  <2> QED BY <1>1, <1>2, <2>2, <2>3, TrimReturn DEF p
<1>10. ASSUME NEW i \in Internal,
              /\ d = <<i>>
              /\ i.login = e.login
              /\ ReadShape(s, i)
              /\ i \in ReadOf(P) => e \in SentOf(R)
              /\ i \in ReadOf(A) => e \in SentOf(A)
              /\ i.ptxt = e.data[1].ptxt \/ i.ptxt.type = "Ping"
       PROVE  ReturnPath(s)' /\ ReturnPath(p)'
  <2>1. internal_q'[s] = Append(internal_q[s], i)
    BY <1>2, <1>4, <1>10, AppendIsConcat
  <2> HIDE DEF p, e, d, R, A, P
  <2>2. i \in ReadOf(P) <=> e \in SentOf(R)
    BY <1>10 DEF ReadOf, SentOf, P, R, RequestType
  <2>3. (i \in ReadOf(A) <=> e \in SentOf(A)) /\ (i \in ReadOf(A) => i \notin ReadOf(P))
    BY <1>10, <2>2 DEF ReadOf, SentOf, A, P, R, AnswerType, RequestType
  <2>4. i \in ReadOf(P) \/ i \in ReadOf(A) => i.ptxt = e.data[1].ptxt
    <3>1. i \in ReadOf(A) => i.ptxt = e.data[1].ptxt
      BY <1>10 DEF ReadOf, A, AnswerType
    <3>2. i \in ReadOf(P) => i.ptxt.type # "Ping"
      <4> SUFFICES ASSUME i \in ReadOf(P), i.ptxt.type = "Ping" PROVE FALSE
        OBVIOUS
      <4>1. Has(net[p], SentOf(R))
        BY <1>8, <2>2
      <4>2. Untaken(p)
        BY <1>6, <4>1 DEF At, R
      <4>3. from[s][i.login] = to[p][i.login].new_pwd
        BY <1>10 DEF ReadShape, p
      <4> QED BY <1>2, <1>3, <1>5, <1>10, <4>2, <4>3 DEF Untaken, InStep, NewPwdDiffers
    <3> QED BY <1>10, <3>1, <3>2
  <2>5. /\ Elems(internal_q'[s]) = Elems(internal_q[s]) \cup {i}
        /\ \A S : Has(internal_q'[s], S) <=> Has(internal_q[s], S) \/ i \in S
    BY <1>2, <2>1, AppendQueue
  <2>6. /\ \A k \in 1 .. 6 : At(p, k)' <=> IF k = 2 THEN Has(net'[p], SentOf(R))
                                          ELSE At(p, k) \/ (k = 3 /\ e \in SentOf(R))
        /\ At(p, 2) <=> At(p, 2)' \/ e \in SentOf(R)
        /\ \A k \in 1 .. 6 : At(s, k)' <=> IF k = 5 THEN Has(net'[p], SentOf(A))
                                          ELSE At(s, k) \/ (k = 6 /\ e \in SentOf(A))
        /\ At(s, 5) <=> At(s, 5)' \/ e \in SentOf(A)
    BY <1>1, <1>2, <1>4, <1>8, <2>2, <2>3, <2>5 DEF At, P, R, A, p
  <2>7. Connected(s)' /\ Connected(p)'
    BY <1>1, <1>6 DEF Connected, Untaken, InStep
  <2>8. (Underway(s) => Underway(s)') /\ (Underway(p) => Underway(p)')
    BY <2>6 DEF Underway
  <2>9. (Untaken(s)' <=> Untaken(s)) /\ (Untaken(p)' <=> Untaken(p))
    BY <1>1 DEF Untaken, InStep
  <2>10. Taken(p)'
    <3> SUFFICES ASSUME ~Untaken(p) PROVE (\E k \in 4 .. 6 : At(p, k)') /\ AnswerAhead(p)'
      BY <2>9 DEF Taken
    <3>1. (\E k \in 4 .. 6 : At(p, k)) /\ AnswerAhead(p)
      BY <1>6 DEF Taken
    <3>2. \A k \in 4 .. 6 : At(p, k)' <=> At(p, k)
      BY <2>6
    <3>3. e \notin SentOf(R)
      BY <1>6, <2>6
    <3>4. /\ At(p, 4) => \A k \in 2 .. 6 : ~At(s, k)'
          /\ At(p, 5) => \A k \in 3 .. 6 : ~At(s, k)'
          /\ At(p, 6) => \A k \in 4 .. 6 : ~At(s, k)'
      BY <1>2, <2>6, <3>1 DEF AnswerAhead
    <3> QED BY <1>1, <1>2, <1>4, <3>1, <3>2, <3>4 DEF AnswerAhead
  <2>11. Taken(s)'
    <3> SUFFICES ASSUME ~Untaken(s) PROVE (\E k \in 4 .. 6 : At(s, k)') /\ AnswerAhead(s)'
      BY <2>9 DEF Taken
    <3>1. (\E k \in 4 .. 6 : At(s, k)) /\ AnswerAhead(s)
      BY <1>6 DEF Taken
    <3>2. \E k \in 4 .. 6 : At(s, k)'
      BY <2>6, <3>1
    <3>3. At(s, 4)' => /\ Before(send_q'[p], EntryOf(A), EntryOf(R))
                       /\ \A k \in 2 .. 6 : ~At(p, k)'
      <4>1. At(s, 4)' => At(s, 4)
        BY <2>6
      <4> QED BY <1>1, <2>6, <3>1, <4>1 DEF AnswerAhead, p, R, A
    <3>4. At(s, 5) => /\ Before(net'[p], SentOf(A), SentOf(R)) /\ e \notin SentOf(R)
                      /\ \A k \in 3 .. 6 : ~At(p, k)'
      <4> SUFFICES ASSUME At(s, 5)
                   PROVE  /\ Before(net'[p], SentOf(A), SentOf(R)) /\ e \notin SentOf(R)
                          /\ \A k \in 3 .. 6 : ~At(p, k)'
        OBVIOUS
      <4>1. Before(net[p], SentOf(A), SentOf(R)) /\ \A k \in 3 .. 6 : ~At(p, k)
        BY <3>1 DEF AnswerAhead, R, A, p
      <4>2. Has(net[p], SentOf(A))
        BY DEF At, A, p
      <4>3. Before(net'[p], SentOf(A), SentOf(R)) /\ e \notin SentOf(R)
        BY <1>1, <1>2, <1>4, <4>1, <4>2, TailBefore DEF e
      <4> QED BY <2>6, <4>1, <4>3
    <3>5. At(s, 6)' => /\ Before(internal_q'[s], ReadOf(A), ReadOf(P))
                       /\ \A k \in 4 .. 6 : ~At(p, k)'
      <4> SUFFICES ASSUME At(s, 6)'
                   PROVE  Before(internal_q'[s], ReadOf(A), ReadOf(P)) /\ \A k \in 4 .. 6 : ~At(p, k)'
        OBVIOUS
      <4>1. CASE At(s, 6)
        <5>1. e \notin SentOf(A)
          BY <1>2, <2>6, <4>1 DEF OneToken
        <5>2. Before(internal_q[s], ReadOf(A), ReadOf(P)) /\ \A k \in 4 .. 6 : ~At(p, k)
          BY <3>1, <4>1 DEF AnswerAhead, P, A, p
        <5> QED BY <1>2, <2>1, <2>3, <2>6, <5>1, <5>2, AppendBefore
      <4>2. CASE ~At(s, 6)
        <5>1. e \in SentOf(A) /\ At(s, 5)
          BY <2>6, <4>2
        <5>2. ~Has(internal_q[s], ReadOf(P)) /\ ~Has(internal_q[s], ReadOf(A))
          BY <1>2, <2>6, <3>4, <4>2, <5>1 DEF At, P, A, p
        <5>3. Before(internal_q[s], ReadOf(A), ReadOf(P))
          BY <5>2 DEF Before, Has
        <5>4. Before(internal_q'[s], ReadOf(A), ReadOf(P))
          BY <1>2, <2>1, <2>3, <5>1, <5>2, <5>3, AppendBefore
        <5> QED BY <3>4, <5>1, <5>4
      <4> QED BY <4>1, <4>2
    <3>6. At(s, 5)' => At(s, 5)
      BY <2>6
    <3> QED BY <3>2, <3>3, <3>4, <3>5, <3>6 DEF AnswerAhead, R, A, P, p
  <2>12. SameId(p)'
    <3> SUFFICES ASSUME challenge_ctxt[p].running PROVE SameId(p)'
      BY <1>1 DEF SameId
    <3>1. i \in ReadOf(P) => i.ptxt.mId = challenge_ctxt[p].mId
      BY <1>5, <1>6, <2>2, <2>4 DEF SameId, R
    <3>2. /\ \A x \in Elems(net'[p]) : x \in Elems(net[p])
          /\ \A x \in Elems(internal_q'[s]) : x \in Elems(internal_q[s]) \/ x = i
      BY <1>8, <2>5
    <3> QED BY <1>1, <1>2, <1>4, <1>6, <3>1, <3>2 DEF SameId, P
  <2>13. SameId(s)'
    <3> SUFFICES ASSUME challenge_ctxt[s].running PROVE SameId(s)'
      BY <1>1 DEF SameId
    <3>1. i \in ReadOf(A) => i.ptxt.mId = challenge_ctxt[s].mId
      BY <1>5, <1>6, <2>3, <2>4 DEF SameId, A, p
    <3>2. /\ \A x \in Elems(net'[p]) : x \in Elems(net[p])
          /\ \A x \in Elems(internal_q'[s]) : x \in Elems(internal_q[s]) \/ x = i
      BY <1>8, <2>5
    <3> QED BY <1>1, <1>2, <1>4, <1>6, <3>1, <3>2 DEF SameId, A, p
  <2>14. AnswerKeys(s)' /\ AnswerKeys(p)'
    BY <1>1, <1>4, <1>6, <1>8 DEF AnswerKeys
  <2> QED BY <1>1, <1>6, <2>7, <2>8, <2>10, <2>11, <2>12, <2>13, <2>14 DEF ReturnPath
<1> QED BY <1>2, <1>5, <1>9, <1>10, DecodedOne
(* The handler of a request: with one login, a site whose own challenge is *)
(* running is busy, so the new password is adopted when none of its own is *)
(* on the way.                                                             *)
LEMMA RequestReturn ==
  ASSUME ChallengeInv, NEW s \in Site, HandleChangePwdRequest(s), ReturnPath(s),
         ReturnPath(Peer(s)), Len(LoginSeq) = 1
  PROVE  ReturnPath(s)' /\ ReturnPath(Peer(s))'
<1> DEFINE p == Peer(s)
           i == Head(internal_q[s])
           l == i.login
           m == ChangePwdResponse(i.ptxt.mId, CanAccept(s))
           x == Clear(NoLogin, m)
           R == RequestType
           A == AnswerType
           P == RequestType \cup {"Ping"}
<1>1. /\ Dequeue(s) /\ UNCHANGED <<to, live, link, challenge_ctxt, net>>
      /\ PushOut(s, x) /\ i.ptxt.type = "ChangePwdRequest"
  BY DEF HandleChangePwdRequest
<1>2. /\ p \in Site /\ p # s /\ Peer(p) = s /\ TypeOK /\ RunningPending
      /\ send_q[s] \in Seq(SendEntry) /\ internal_q[s] \in Seq(Internal)
      /\ net[p] \in Seq(Encrypted) /\ OneToken(s) /\ OneToken(p) /\ Settled(s)
  BY SiteFacts DEF ChallengeInv, StoreInv
<1>3. /\ internal_q[s] # <<>> /\ internal_q'[s] = Tail(internal_q[s]) /\ internal_q'[p] = internal_q[p]
      /\ internal_pc[s] = "wait" /\ internal_pc'[p] = internal_pc[p]
      /\ send_q'[s] = Append(send_q[s], x) /\ send_q'[p] = send_q[p]
  BY <1>1, <1>2 DEF Dequeue, PushOut, TypeOK
<1>4. i \in Internal /\ i \in Elems(internal_q[s]) /\ l \in Login /\ i.ptxt \in Plaintext
  <2>1. i \in Internal /\ i \in Elems(internal_q[s])
    BY <1>2, <1>3, TailQueue, ElemsType
  <2> QED BY <2>1 DEF Internal
<1>5. m \in Plaintext /\ m.type = "ChangePwdResponse" /\ m.mId = i.ptxt.mId
  <2>1. CanAccept(s) \in BOOLEAN
    BY DEF CanAccept
  <2> QED BY <1>1, <1>4, <2>1 DEF ChangePwdResponse, Plaintext
<1>6. /\ x \in SendEntry /\ x.data[1].ptxt = m
      /\ x \notin EntryOf(R) /\ x \in EntryOf(A)
  <2>1. x \in SendEntry /\ x.data[1].ptxt = m
    BY <1>5, ClearType DEF Clear
  <2> QED BY <1>5, <2>1 DEF EntryOf, RequestType, AnswerType
<1>7. i \in ReadOf(P) /\ i \notin ReadOf(A)
  BY <1>1, <1>4 DEF ReadOf, RequestType, AnswerType
<1>8. /\ Connected(s) /\ Taken(s) /\ SameId(s) /\ AnswerKeys(s)
      /\ Connected(p) /\ Taken(p) /\ SameId(p) /\ AnswerKeys(p)
      /\ challenge_ctxt[s].running => Underway(s)
      /\ challenge_ctxt[p].running => Underway(p)
  BY <1>2 DEF ReturnPath
<1>9. CanAccept(s) => NoToken(s)
  <2> SUFFICES ASSUME CanAccept(s) PROVE NoToken(s)
    OBVIOUS
  <2>1. ~challenge_ctxt[s].running
    BY <1>2, SingleLogin DEF CanAccept, RunningPending, InProgress
  <2> QED BY <1>2, <1>3, <2>1 DEF Settled
<1>10. \/ CanAccept(s) /\ from' = [from EXCEPT ![s][l] = i.ptxt.arg]
       \/ ~CanAccept(s) /\ from' = from
  BY DEF HandleChangePwdRequest, auth_set_pwd
<1>11. from'[p] = from[p] /\ (~CanAccept(s) => from' = from)
  BY <1>2, <1>10 DEF TypeOK
<1> HIDE DEF p, i, l, m, x, R, A, P
<1>12. /\ Elems(internal_q[s]) = Elems(internal_q'[s]) \cup {i}
       /\ \A S : Has(internal_q[s], S) <=> Has(internal_q'[s], S) \/ i \in S
       /\ Elems(send_q'[s]) = Elems(send_q[s]) \cup {x}
       /\ \A S : Has(send_q'[s], S) <=> Has(send_q[s], S) \/ x \in S
  BY <1>2, <1>3, <1>6, TailHas, AppendQueue DEF i
<1>13. At(p, 3) /\ (\A k \in 1 .. 6 : k # 3 => ~At(p, k)) /\ ~Has(internal_q'[s], ReadOf(P))
  <2>1. At(p, 3)
    BY <1>2, <1>7, <1>12 DEF At, P
  <2>2. Once(internal_q[s], ReadOf(P))
    BY <1>2, <2>1 DEF OneToken, OnceAt, P
  <2>3. ~Has(internal_q'[s], ReadOf(P))
    BY <1>2, <1>3, <1>7, <2>2, TailQueue DEF i
  <2> QED BY <1>2, <2>1, <2>3 DEF OneToken
<1>14. /\ \A k \in 1 .. 6 : At(s, k)' <=> At(s, k)
       /\ \A k \in 1 .. 6 : At(p, k)' <=> k = 4
  <2>1. \A k \in 1 .. 6 : At(s, k)' <=> At(s, k)
    BY <1>1, <1>2, <1>3, <1>6, <1>7, <1>12 DEF At, R, A, p
  <2>2. At(p, 4)' /\ ~At(p, 3)'
    BY <1>2, <1>6, <1>12, <1>13 DEF At, A, P
  <2>3. \A k \in {1, 2, 5, 6} : At(p, k)' <=> At(p, k)
    BY <1>1, <1>2, <1>3 DEF At
  <2> QED BY <1>13, <2>1, <2>2, <2>3
<1>15. Untaken(s) /\ Untaken(s)'
  <2>1. Untaken(s)
    <3> SUFFICES ASSUME ~Untaken(s) PROVE FALSE
      OBVIOUS
    <3>1. (\E k \in 4 .. 6 : At(s, k)) /\ AnswerAhead(s)
      BY <1>8 DEF Taken
    <3>2. At(s, 6) /\ Before(internal_q[s], ReadOf(A), ReadOf(P))
      <4>1. ~At(s, 4) /\ ~At(s, 5)
        BY <1>13, <3>1 DEF AnswerAhead, p
      <4>2. \A k \in 4 .. 6 : k = 4 \/ k = 5 \/ k = 6
        OBVIOUS
      <4> QED BY <3>1, <4>1, <4>2 DEF AnswerAhead, A, P
    <3>3. Has(internal_q[s], ReadOf(A))
      BY <3>2 DEF At, A
    <3> QED BY <1>2, <1>3, <1>7, <3>2, <3>3, TailBefore DEF i
  <2> QED BY <1>1, <1>11, <2>1 DEF Untaken, InStep, p
<1>16. link
  BY <1>3, <1>8 DEF Connected
<1>17. Connected(s)' /\ Connected(p)'
  BY <1>1, <1>8, <1>16 DEF Connected
<1>18. (Underway(s) => Underway(s)') /\ Underway(p)'
  BY <1>14 DEF Underway
<1>19. Taken(s)'
  BY <1>15 DEF Taken
<1>20. Taken(p)'
  <2>1. CASE CanAccept(s)
    <3>1. ~Has(send_q'[s], EntryOf(R)) /\ \A k \in 1 .. 6 : ~At(s, k)'
      BY <1>6, <1>9, <1>12, <1>14, <2>1 DEF NoToken, At, R
    <3>2. Before(send_q'[s], EntryOf(A), EntryOf(R))
      BY <3>1 DEF Before, Has
    <3> QED BY <1>2, <1>14, <3>1, <3>2 DEF Taken, AnswerAhead, R, A
  <2>2. CASE ~CanAccept(s)
    <3>1. Untaken(p)
      BY <1>8, <1>13 DEF Taken
    <3> QED BY <1>1, <1>11, <2>2, <3>1 DEF Taken, Untaken, InStep
  <2> QED BY <2>1, <2>2
<1>21. SameId(s)'
  <2> SUFFICES ASSUME challenge_ctxt[s].running PROVE SameId(s)'
    BY <1>1 DEF SameId
  <2>1. /\ \A y \in Elems(send_q'[s]) : y \in Elems(send_q[s]) \/ y = x
        /\ \A y \in Elems(internal_q'[s]) : y \in Elems(internal_q[s])
    BY <1>12
  <2> QED BY <1>1, <1>2, <1>3, <1>6, <1>8, <2>1 DEF SameId, p, R
<1>22. SameId(p)'
  <2> SUFFICES ASSUME challenge_ctxt[p].running PROVE SameId(p)'
    BY <1>1 DEF SameId
  <2>1. x.data[1].ptxt.mId = challenge_ctxt[p].mId
    BY <1>2, <1>4, <1>5, <1>6, <1>7, <1>8 DEF SameId, P, i
  <2>2. /\ \A y \in Elems(send_q'[s]) : y \in Elems(send_q[s]) \/ y = x
        /\ \A y \in Elems(internal_q'[s]) : y \in Elems(internal_q[s])
    BY <1>12
  <2> QED BY <1>1, <1>2, <1>3, <1>8, <2>1, <2>2 DEF SameId
<1>23. AnswerKeys(s)'
  BY <1>1, <1>8, <1>11 DEF AnswerKeys, p
<1>24. AnswerKeys(p)'
  <2>1. CASE CanAccept(s)
    <3>1. ~Has(net[p], SentOf(A))
      BY <1>9, <2>1 DEF NoToken, At, A, p
    <3> QED BY <1>1, <3>1, HasElems DEF AnswerKeys, A
  <2>2. CASE ~CanAccept(s)
    BY <1>1, <1>8, <1>11, <2>2 DEF AnswerKeys
  <2> QED BY <2>1, <2>2
<1> QED BY <1>1, <1>8, <1>17, <1>18, <1>19, <1>20, <1>21, <1>22, <1>23, <1>24 DEF ReturnPath, p

(* No Ping is opened: the current password of a challenge on its way is    *)
(* the one the peer has.                                                   *)
LEMMA NoPingRead ==
  ASSUME ChallengeInv, NEW s \in Site, HandlePing(s), ReturnPath(s), ReturnPath(Peer(s))
  PROVE  FALSE
<1> DEFINE p == Peer(s)
           i == Head(internal_q[s])
<1>1. internal_q[s] # <<>> /\ i.ptxt.type = "Ping"
  BY DEF HandlePing, Dequeue
<1>2. p \in Site /\ Peer(p) = s /\ internal_q[s] \in Seq(Internal) /\ Shapes(s) /\ NewPwdDiffers
  BY SiteFacts DEF ChallengeInv, TokenInv
<1>3. i \in Internal /\ i \in Elems(internal_q[s]) /\ ReadShape(s, i) /\ i.login \in Login
  <2>1. i \in Internal /\ i \in Elems(internal_q[s])
    BY <1>1, <1>2, TailQueue, ElemsType
  <2> QED BY <1>2, <2>1 DEF Shapes, Internal
<1>4. i \in ReadOf(RequestType \cup {"Ping"})
  BY <1>1, <1>3 DEF ReadOf
<1>5. At(p, 3)
  BY <1>2, <1>3, <1>4, HasElems DEF At
<1>6. Untaken(p)
  BY <1>2, <1>5, ReturnFacts
<1>7. from[s][i.login] = to[p][i.login].new_pwd
  BY <1>1, <1>3 DEF ReadShape
<1> HIDE DEF i, p
<1> QED BY <1>2, <1>3, <1>6, <1>7 DEF Untaken, InStep, NewPwdDiffers
(* The answer ends the challenge of its id.                                *)
LEMMA EndReturn ==
  ASSUME ChallengeInv, NEW s \in Site, Dequeue(s), UNCHANGED <<from, send_q, net, live, link>>,
         Head(internal_q[s]) \in ReadOf(AnswerType), Finish(s), to'[Peer(s)] = to[Peer(s)],
         from[Peer(s)][challenge_ctxt[s].login] = to'[s][challenge_ctxt[s].login].pwd,
         challenge_ctxt[s].login \in Login, Len(LoginSeq) = 1,
         ReturnPath(s), ReturnPath(Peer(s))
  PROVE  ReturnPath(s)' /\ ReturnPath(Peer(s))'
<1> DEFINE p == Peer(s)
           i == Head(internal_q[s])
           A == AnswerType
           P == RequestType \cup {"Ping"}
<1>1. /\ p \in Site /\ p # s /\ Peer(p) = s /\ TypeOK
      /\ internal_q[s] \in Seq(Internal) /\ OneToken(s)
  BY SiteFacts DEF ChallengeInv, StoreInv
<1>2. /\ internal_q[s] # <<>> /\ internal_q'[s] = Tail(internal_q[s]) /\ internal_q'[p] = internal_q[p]
      /\ internal_pc[s] = "wait" /\ internal_pc'[p] = internal_pc[p]
  BY <1>1 DEF Dequeue, TypeOK
<1>3. ~challenge_ctxt'[s].running /\ challenge_ctxt'[p] = challenge_ctxt[p]
  BY <1>1, FinishType
<1>4. /\ Connected(s) /\ AnswerKeys(s)
      /\ Connected(p) /\ SameId(p) /\ AnswerKeys(p)
      /\ challenge_ctxt[p].running => Underway(p)
  BY <1>1 DEF ReturnPath
<1> HIDE DEF p, i, A, P
<1>5. /\ Elems(internal_q[s]) = Elems(internal_q'[s]) \cup {i}
      /\ \A S : Has(internal_q[s], S) <=> Has(internal_q'[s], S) \/ i \in S
  BY <1>1, <1>2, TailHas DEF i
<1>6. i \in ReadOf(A) /\ i \notin ReadOf(P)
  BY DEF i, ReadOf, A, P, AnswerType, RequestType
<1>7. At(s, 6) /\ \A k \in 1 .. 6 : At(p, k)' <=> At(p, k)
  <2>1. At(s, 6)
    BY <1>5, <1>6 DEF At, A
  <2>2. \A k \in 1 .. 6 : At(p, k)' <=> At(p, k)
    BY <1>1, <1>2, <1>5, <1>6 DEF At, P
  <2> QED BY <2>1, <2>2
<1>8. Untaken(p) /\ Untaken(p)'
  <2>1. Untaken(p)
    BY <1>7, ReturnFacts DEF p
  <2> QED BY <1>1, <2>1 DEF Untaken, InStep, p
<1>9. Untaken(s)'
  BY SingleLogin DEF Untaken, InStep
<1>10. link /\ Connected(s)' /\ Connected(p)'
  BY <1>2, <1>4 DEF Connected
<1>11. Underway(p) => Underway(p)'
  BY <1>7 DEF Underway
<1>12. Taken(s)' /\ Taken(p)'
  BY <1>8, <1>9 DEF Taken
<1>13. SameId(s)'
  BY <1>3 DEF SameId
<1>14. SameId(p)'
  <2> SUFFICES ASSUME challenge_ctxt[p].running PROVE SameId(p)'
    BY <1>3 DEF SameId
  <2>1. \A y \in Elems(internal_q'[s]) : y \in Elems(internal_q[s])
    BY <1>5
  <2> QED BY <1>1, <1>2, <1>3, <1>4, <2>1 DEF SameId
<1>15. AnswerKeys(s)' /\ AnswerKeys(p)'
  BY <1>4 DEF AnswerKeys
<1> QED BY <1>3, <1>4, <1>10, <1>11, <1>12, <1>13, <1>14, <1>15 DEF ReturnPath, p

LEMMA ResponseReturn ==
  ASSUME ChallengeInv, NEW s \in Site, HandleChangePwdResponse(s) \/ HandlePong(s),
         ReturnPath(s), ReturnPath(Peer(s)), Len(LoginSeq) = 1
  PROVE  ReturnPath(s)' /\ ReturnPath(Peer(s))'
<1> DEFINE i == Head(internal_q[s])
           m == i.ptxt
           l == challenge_ctxt[s].login
<1>1. /\ TypeOK /\ RunningPending /\ Dequeue(s)
      /\ UNCHANGED <<from, send_q, net, live, link>>
      /\ m.type \in AnswerType
  BY DEF ChallengeInv, StoreInv, HandleChangePwdResponse, HandlePong, AnswerType
<1>2. /\ Peer(s) \in Site /\ Peer(s) # s /\ Matching(s) /\ Settled(s)
      /\ internal_q[s] \in Seq(Internal)
  BY SiteFacts
<1>3. i \in ReadOf(AnswerType) /\ i \in Elems(internal_q[s])
  <2>1. i \in Internal /\ i \in Elems(internal_q[s])
    BY <1>1, <1>2, TailQueue, ElemsType DEF Dequeue
  <2> QED BY <1>1, <2>1 DEF ReadOf
<1>4. At(s, 6)
  BY <1>3, HasElems DEF At
<1>5. Answers(s, m)
  <2>1. challenge_ctxt[s].running
    BY <1>1, <1>2, <1>4 DEF Settled, NoToken, Dequeue
  <2>2. m.mId = challenge_ctxt[s].mId
    BY <1>3, <2>1 DEF ReturnPath, SameId
  <2> QED BY <2>1, <2>2 DEF Answers
<1>6. AnswerTrue(s, m) /\ l \in Login /\ Pending(s, l)
  BY <1>1, <1>2, <1>3, <1>5 DEF Matching, RunningPending, InProgress, Answers
<1>7. CASE auth_switch_to_new_pwd(s, l) /\ Finish(s) /\ (m.type = "ChangePwdResponse" => m.arg = TRUE)
  <2>1. from[Peer(s)][l] = to[s][l].new_pwd
    BY <1>1, <1>6, <1>7 DEF AnswerTrue, AnswerType
  <2>2. to'[s][l].pwd = to[s][l].new_pwd /\ to'[Peer(s)] = to[Peer(s)]
    BY <1>1, <1>2, <1>6, <1>7 DEF auth_switch_to_new_pwd, TypeOK
  <2> QED BY <1>1, <1>3, <1>6, <1>7, <2>1, <2>2, EndReturn
<1>8. CASE Finish(s) /\ to' = to /\ m.type = "ChangePwdResponse" /\ m.arg = FALSE
  <2>1. from[Peer(s)][l] = to'[s][l].pwd
    BY <1>6, <1>8 DEF AnswerTrue
  <2> QED BY <1>1, <1>3, <1>6, <1>8, <2>1, EndReturn
<1> QED
  <2>1. CASE HandleChangePwdResponse(s)
    BY <1>5, <1>7, <1>8, <2>1 DEF HandleChangePwdResponse
  <2>2. CASE HandlePong(s)
    BY <1>5, <1>7, <2>2 DEF HandlePong
  <2> QED BY <2>1, <2>2

(* Queueing a message that is neither a challenge nor an answer.           *)
LEMMA PushReturn ==
  ASSUME ChallengeInv, NEW s \in Site, UNCHANGED <<to, from, live, link, net, internal_q>>,
         NEW x \in SendEntry, PushOut(s, x),
         x \notin EntryOf(RequestType), x \notin EntryOf(AnswerType),
         NEW t \in Site, ReturnPath(t),
         challenge_ctxt'[t].running = challenge_ctxt[t].running,
         challenge_ctxt'[t].mId = challenge_ctxt[t].mId,
         internal_pc[t] = "done" => internal_pc'[t] = "done"
  PROVE  ReturnPath(t)'
<1> DEFINE p == Peer(t)
           R == RequestType
           A == AnswerType
<1>1. /\ p \in Site /\ Peer(p) = t /\ TypeOK /\ send_q[s] \in Seq(SendEntry)
  BY SiteFacts DEF ChallengeInv, StoreInv
<1>2. /\ send_q'[s] = Append(send_q[s], x)
      /\ \A u \in Site : u # s => send_q'[u] = send_q[u]
  BY <1>1 DEF PushOut, TypeOK
<1> HIDE DEF p, R, A
<1>3. ASSUME NEW u \in Site
      PROVE  /\ \A y \in Elems(send_q'[u]) : y \in Elems(send_q[u]) \/ y = x
             /\ Has(send_q'[u], EntryOf(R)) <=> Has(send_q[u], EntryOf(R))
             /\ Has(send_q'[u], EntryOf(A)) <=> Has(send_q[u], EntryOf(A))
             /\ Before(send_q[u], EntryOf(A), EntryOf(R)) => Before(send_q'[u], EntryOf(A), EntryOf(R))
  <2>1. CASE u # s
    BY <1>2, <2>1
  <2>2. CASE u = s
    <3>1. /\ \A y \in Elems(send_q'[s]) : y \in Elems(send_q[s]) \/ y = x
          /\ Has(send_q'[s], EntryOf(R)) <=> Has(send_q[s], EntryOf(R))
          /\ Has(send_q'[s], EntryOf(A)) <=> Has(send_q[s], EntryOf(A))
      BY <1>1, <1>2, AppendQueue DEF R, A
    <3>2. Before(send_q[s], EntryOf(A), EntryOf(R)) => Before(send_q'[s], EntryOf(A), EntryOf(R))
      BY <1>1, <1>2, AppendBefore DEF R, A
    <3> QED BY <2>2, <3>1, <3>2
  <2> QED BY <2>1, <2>2
<1>4. \A k \in 1 .. 6 : (At(t, k)' <=> At(t, k)) /\ (At(p, k)' <=> At(p, k))
  BY <1>1, <1>3 DEF At, R, A, p
<1>5. /\ Connected(t) /\ Taken(t) /\ SameId(t) /\ AnswerKeys(t)
      /\ challenge_ctxt[t].running => Underway(t)
  BY DEF ReturnPath
<1>6. Connected(t)'
  BY <1>5 DEF Connected, Untaken, InStep
<1>7. Underway(t) => Underway(t)'
  BY <1>4 DEF Underway
<1>8. Taken(t)'
  <2>1. Untaken(t)' <=> Untaken(t)
    BY DEF Untaken, InStep
  <2>2. AnswerAhead(t) => AnswerAhead(t)'
    BY <1>1, <1>3, <1>4 DEF AnswerAhead, p, R, A
  <2> QED BY <1>4, <1>5, <2>1, <2>2 DEF Taken
<1>9. SameId(t)'
  <2> SUFFICES ASSUME challenge_ctxt[t].running PROVE SameId(t)'
    BY DEF SameId
  <2>1. /\ \A y \in Elems(send_q'[t]) : y \in EntryOf(RequestType) => y \in Elems(send_q[t])
        /\ \A y \in Elems(send_q'[p]) : y \in EntryOf(AnswerType) => y \in Elems(send_q[p])
    BY <1>1, <1>3
  <2> QED BY <1>5, <2>1 DEF SameId, p
<1>10. AnswerKeys(t)'
  BY <1>5 DEF AnswerKeys
<1> QED BY <1>5, <1>6, <1>7, <1>8, <1>9, <1>10 DEF ReturnPath
(* A challenge is started when the previous one is over: the peer has the  *)
(* current password then.                                                  *)
LEMMA StartReturn ==
  ASSUME ChallengeInv, NEW s \in Site, ~challenge_ctxt[s].running, internal_pc[s] # "done",
         StartChallenge(s), UNCHANGED <<from, live, link, net, internal_q>>,
         ReturnPath(s), ReturnPath(Peer(s))
  PROVE  ReturnPath(s)' /\ ReturnPath(Peer(s))'
<1>1. PICK l \in Login, w \in Pwd :
        /\ auth_get_new_pwd(s, l, w)
        /\ PushOut(s, Challenge(s, l, w, NextMId(s)))
        /\ challenge_ctxt' = [challenge_ctxt EXCEPT ![s] = Encoded(l, NextMId(s))]
        /\ internal_pc' = [internal_pc EXCEPT ![s] = "launch"]
  BY DEF StartChallenge, Due, Login
<1>0. PICK id, x : id = NextMId(s) /\ x = Challenge(s, l, w, id)
  OBVIOUS
<1> DEFINE p == Peer(s)
           R == RequestType
           A == AnswerType
           P == RequestType \cup {"Ping"}
<1>2. /\ p \in Site /\ p # s /\ Peer(p) = s /\ TypeOK
      /\ send_q[s] \in Seq(SendEntry) /\ Settled(s)
  BY SiteFacts DEF ChallengeInv, StoreInv
<1>3. send_q'[s] = Append(send_q[s], x) /\ send_q'[p] = send_q[p]
  BY <1>0, <1>1, <1>2 DEF PushOut, TypeOK
<1>4. /\ challenge_ctxt'[s].running /\ challenge_ctxt'[s].mId = id
      /\ challenge_ctxt'[p] = challenge_ctxt[p] /\ internal_pc'[p] = internal_pc[p]
  BY <1>0, <1>1, <1>2 DEF Encoded, TypeOK
<1>5. to'[p] = to[p] /\ \A k \in Login : to'[s][k].pwd = to[s][k].pwd
  BY <1>1, <1>2 DEF TypeOK, auth_get_new_pwd, ToEntry
<1>6. /\ x \in SendEntry /\ x \in EntryOf(R) /\ x \notin EntryOf(A)
      /\ x.data[1].ptxt.mId = id
  <2>1. x \in SendEntry
    BY <1>0, <1>2, ChallengeType
  <2>2. x.data[1].ptxt = ChangePwdRequest(id, w)
    BY <1>0 DEF Challenge
  <2> QED BY <2>1, <2>2 DEF EntryOf, RequestType, AnswerType, ChangePwdRequest
<1>7. NoToken(s)
  BY <1>2 DEF Settled
<1>8. /\ Connected(s) /\ Taken(s) /\ AnswerKeys(s)
      /\ Connected(p) /\ Taken(p) /\ SameId(p) /\ AnswerKeys(p)
      /\ challenge_ctxt[p].running => Underway(p)
  BY <1>2 DEF ReturnPath
<1> HIDE DEF p, R, A, P
<1>9. /\ ~Has(send_q[s], EntryOf(R)) /\ ~Has(net[s], SentOf(R))
      /\ ~Has(internal_q[p], ReadOf(P)) /\ ~Has(send_q[p], EntryOf(A))
      /\ ~Has(net[p], SentOf(A)) /\ ~Has(internal_q[s], ReadOf(A))
  BY <1>7 DEF NoToken, At, R, A, P, p
<1>10. /\ Elems(send_q'[s]) = Elems(send_q[s]) \cup {x}
       /\ \A S : Has(send_q'[s], S) <=> Has(send_q[s], S) \/ x \in S
       /\ Before(send_q[s], EntryOf(A), EntryOf(R)) => Before(send_q'[s], EntryOf(A), EntryOf(R))
  <2>1. Before(send_q[s], EntryOf(A), EntryOf(R)) => Before(send_q'[s], EntryOf(A), EntryOf(R))
    BY <1>2, <1>3, <1>6, AppendBefore
  <2> QED BY <1>2, <1>3, <1>6, <2>1, AppendQueue
<1>11. /\ \A k \in 1 .. 6 : At(s, k)' <=> k = 1
       /\ \A k \in 1 .. 6 : At(p, k)' <=> At(p, k)
  <2>1. \A k \in 1 .. 6 : At(s, k)' <=> k = 1
    BY <1>2, <1>3, <1>6, <1>9, <1>10 DEF At, R, A, P, p
  <2>2. \A k \in 1 .. 6 : At(p, k)' <=> At(p, k)
    BY <1>2, <1>3, <1>6, <1>10 DEF At, A
  <2> QED BY <2>1, <2>2
<1>12. Untaken(s)' /\ (Untaken(p)' <=> Untaken(p))
  <2>1. Untaken(s)
    BY <1>7, <1>8 DEF Taken, NoToken
  <2> QED BY <1>2, <1>5, <2>1 DEF Untaken, InStep
<1>13. link /\ Connected(s)' /\ Connected(p)'
  BY <1>8 DEF Connected
<1>14. Underway(s)' /\ (Underway(p) => Underway(p)')
  BY <1>11 DEF Underway
<1>15. Taken(s)'
  BY <1>12 DEF Taken
<1>16. Taken(p)'
  <2> SUFFICES ASSUME ~Untaken(p) PROVE (\E k \in 4 .. 6 : At(p, k)') /\ AnswerAhead(p)'
    BY <1>12 DEF Taken
  <2>1. (\E k \in 4 .. 6 : At(p, k)) /\ AnswerAhead(p)
    BY <1>8 DEF Taken
  <2>2. \A k \in 2 .. 6 : ~At(s, k)'
    BY <1>11
  <2> QED BY <1>2, <1>10, <1>11, <2>1, <2>2 DEF AnswerAhead, R, A
<1>17. SameId(s)'
  <2>1. /\ \A y \in Elems(send_q'[s]) : y \in EntryOf(R) => y = x
        /\ \A y \in Elems(net[s]) : y \notin SentOf(R)
        /\ \A y \in Elems(internal_q[p]) : y \notin ReadOf(P)
        /\ \A y \in Elems(send_q[p]) : y \notin EntryOf(A)
        /\ \A y \in Elems(net[p]) : y \notin SentOf(A)
        /\ \A y \in Elems(internal_q[s]) : y \notin ReadOf(A)
    BY <1>9, <1>10, HasElems
  <2> QED BY <1>3, <1>4, <1>6, <2>1 DEF SameId, R, A, P, p
<1>18. SameId(p)'
  <2> SUFFICES ASSUME challenge_ctxt[p].running PROVE SameId(p)'
    BY <1>4 DEF SameId
  <2>1. \A y \in Elems(send_q'[s]) : y \in EntryOf(A) => y \in Elems(send_q[s])
    BY <1>6, <1>10
  <2> QED BY <1>2, <1>3, <1>4, <1>8, <2>1 DEF SameId, A
<1>19. AnswerKeys(s)' /\ AnswerKeys(p)'
  BY <1>8 DEF AnswerKeys
<1> QED BY <1>4, <1>8, <1>13, <1>14, <1>15, <1>16, <1>17, <1>18, <1>19 DEF ReturnPath, p

LEMMA InitiateReturn ==
  ASSUME ChallengeInv, NEW s \in Site, InternalInitiate(s) \/ InternalIdle(s),
         \A t \in Site : ReturnPath(t)
  PROVE  \A t \in Site : ReturnPath(t)'
<1>1. /\ initiateChallenge(s) /\ internal_pc[s] # "done"
      /\ UNCHANGED <<from, live, link, net, internal_q>>
  BY DEF InternalInitiate, InternalIdle
<1>2. TypeOK /\ Peer(s) \in Site
  BY PeerType DEF ChallengeInv, StoreInv
<1>3. CASE Loop(s) /\ UNCHANGED <<to, send_q>>
           /\ \A t \in Site : /\ challenge_ctxt'[t].running = challenge_ctxt[t].running
                              /\ challenge_ctxt'[t].mId = challenge_ctxt[t].mId
  <2> SUFFICES ASSUME NEW t \in Site PROVE ReturnPath(t)'
    OBVIOUS
  <2>1. QueuesTrimmed
    BY <1>1, <1>3 DEF QueuesTrimmed, Trimmed
  <2>2. \A k \in 1 .. 6 : (At(t, k)' <=> At(t, k)) /\ (At(Peer(t), k)' <=> At(Peer(t), k))
    BY <1>1, <1>3 DEF At
  <2>3. internal_pc[t] = "done" => internal_pc'[t] = "done"
    BY <1>1, <1>2, <1>3 DEF Loop, TypeOK
  <2> QED BY <1>1, <1>3, <2>1, <2>2, <2>3, TrimReturn
<1>4. CASE Due(s) = {} /\ SendAllClear(s) /\ Loop(s)
  <2>1. challenge_ctxt' = [challenge_ctxt EXCEPT ![s].login = NoLogin] /\ to' = to
    BY <1>4 DEF SendAllClear
  <2>2. \A t \in Site : /\ challenge_ctxt'[t].running = challenge_ctxt[t].running
                        /\ challenge_ctxt'[t].mId = challenge_ctxt[t].mId
    BY <1>2, <2>1 DEF TypeOK, Context
  <2>3. CASE allClearSent[s]
    BY <1>3, <1>4, <2>1, <2>2, <2>3 DEF SendAllClear
  <2>4. CASE ~allClearSent[s]
    <3> SUFFICES ASSUME NEW t \in Site PROVE ReturnPath(t)'
      OBVIOUS
    <3>1. PushOut(s, Clear(NoLogin, AllClear))
      BY <1>4, <2>4 DEF SendAllClear
    <3>2. Clear(NoLogin, AllClear) \in SendEntry
      BY <1>2, MIdType, ClearType DEF AllClear, Plaintext
    <3>3. /\ Clear(NoLogin, AllClear) \notin EntryOf(RequestType)
          /\ Clear(NoLogin, AllClear) \notin EntryOf(AnswerType)
      BY DEF Clear, AllClear, EntryOf, RequestType, AnswerType
    <3>4. internal_pc[t] = "done" => internal_pc'[t] = "done"
      BY <1>1, <1>2, <1>4 DEF Loop, TypeOK
    <3> QED BY <1>1, <2>1, <2>2, <3>1, <3>2, <3>3, <3>4, PushReturn
  <2> QED BY <2>3, <2>4
<1>5. CASE ~challenge_ctxt[s].running /\ StartChallenge(s)
  <2>1. ReturnPath(s)' /\ ReturnPath(Peer(s))'
    BY <1>1, <1>2, <1>5, StartReturn
  <2>2. \A t \in Site : t = s \/ t = Peer(s)
    BY OtherSite
  <2> QED BY <2>1, <2>2
<1> QED BY <1>1, <1>3, <1>4, <1>5 DEF initiateChallenge
(* The steps that move no message of a challenge.                          *)
LEMMA OtherReturn ==
  ASSUME ChallengeInv, NEW s \in Site,
         \/ HandleAllClear(s)
         \/ Launch(s)
         \/ \E l \in Login : Expire(s, l)
         \/ SendChoose(s)
         \/ UNCHANGED vars,
         NEW t \in Site, ReturnPath(t)
  PROVE  ReturnPath(t)'
<1>1. TypeOK /\ RunningPending /\ Peer(t) \in Site /\ \A u \in Site : Settled(u)
  BY SiteFacts DEF ChallengeInv, StoreInv
<1>2. UNCHANGED <<to, from, send_q, net, live, link>>
  BY DEF HandleAllClear, Launch, Expire, SendChoose, vars, stores, queues
<1>3. internal_q' = internal_q \/ HandleAllClear(s)
  BY DEF Launch, Expire, SendChoose, vars, queues
<1>4. QueuesTrimmed
  <2>1. \A u \in Site : Trimmed(internal_q'[u], internal_q[u])
    BY <1>1, <1>3 DEF HandleAllClear, Dequeue, Trimmed, TypeOK
  <2> QED BY <1>2, <2>1 DEF QueuesTrimmed, Trimmed
<1>5. ASSUME NEW u \in Site
      PROVE  /\ Has(internal_q'[u], ReadOf(AnswerType)) <=> Has(internal_q[u], ReadOf(AnswerType))
             /\ Has(internal_q'[u], ReadOf(RequestType \cup {"Ping"}))
                   <=> Has(internal_q[u], ReadOf(RequestType \cup {"Ping"}))
  <2>1. CASE internal_q'[u] = internal_q[u]
    BY <2>1
  <2>2. CASE HandleAllClear(s) /\ u = s
    <3>1. /\ internal_q[s] # <<>> /\ internal_q[s] \in Seq(Internal)
          /\ internal_q'[s] = Tail(internal_q[s])
          /\ Head(internal_q[s]).ptxt.type = "AllClear"
      BY <1>1, <2>2 DEF HandleAllClear, Dequeue, TypeOK
    <3>2. /\ Head(internal_q[s]) \notin ReadOf(AnswerType)
          /\ Head(internal_q[s]) \notin ReadOf(RequestType \cup {"Ping"})
      BY <3>1 DEF ReadOf, AnswerType, RequestType
    <3> QED BY <2>2, <3>1, <3>2, TailHas
  <2>3. CASE HandleAllClear(s) /\ u # s
    BY <1>1, <2>1, <2>3 DEF HandleAllClear, Dequeue, TypeOK
  <2> QED BY <1>3, <2>1, <2>2, <2>3
<1>6. \A k \in 1 .. 6 : (At(t, k)' <=> At(t, k)) /\ (At(Peer(t), k)' <=> At(Peer(t), k))
  BY <1>1, <1>2, <1>5, PeerType DEF At
<1>7. /\ challenge_ctxt'[t].running = challenge_ctxt[t].running
      /\ challenge_ctxt'[t].mId = challenge_ctxt[t].mId
  <2>1. CASE challenge_ctxt' = challenge_ctxt
    BY <2>1
  <2>2. CASE Launch(s)
    <3>1. challenge_ctxt[s].running
      BY <1>1, <2>2 DEF Launch, RunningPending, Settled
    <3>2. challenge_ctxt' = [challenge_ctxt EXCEPT ![s].toSend = FALSE, ![s].running = TRUE]
      BY <2>2 DEF Launch
    <3> QED BY <1>1, <3>1, <3>2 DEF TypeOK, Context
  <2> QED BY <2>1, <2>2 DEF HandleAllClear, Expire, SendChoose, vars
<1>8. internal_pc[t] = "done" => internal_pc'[t] = "done"
  BY <1>1 DEF HandleAllClear, Dequeue, Launch, Loop, Expire, SendChoose, vars, TypeOK
<1> QED BY <1>2, <1>4, <1>6, <1>7, <1>8, TrimReturn

LEMMA SendPushReturn ==
  ASSUME ChallengeInv, NEW s \in Site, SendPush(s), NEW t \in Site, ReturnPath(t)
  PROVE  ReturnPath(t)'
<1>1. app[s] \in Login \cup {NoLogin} /\ External \in Plaintext
  BY MIdAssumption DEF ChallengeInv, StoreInv, TypeOK, External, Plaintext, MId
<1>2. Clear(app[s], External) \in SendEntry
  BY <1>1, ClearType
<1>3. /\ Clear(app[s], External) \notin EntryOf(RequestType)
      /\ Clear(app[s], External) \notin EntryOf(AnswerType)
  BY DEF Clear, External, EntryOf, RequestType, AnswerType
<1>4. /\ PushOut(s, Clear(app[s], External))
      /\ UNCHANGED <<to, from, live, link, net, internal_q, challenge_ctxt, internal_pc>>
  BY DEF SendPush, stores
<1> QED BY <1>2, <1>3, <1>4, PushReturn

(* A challenge that is running is not forgotten: its timer never fires in  *)
(* a session that lost nothing.                                            *)
LEMMA NoTimeout ==
  ASSUME NEW s \in Site, challenge_ctxt[s].running, ReturnPath(s)
  PROVE  ~Quiet(s)
<1> SUFFICES ASSUME Quiet(s) PROVE FALSE
  OBVIOUS
<1>1. PICK k \in 1 .. 6 : At(s, k)
  BY DEF ReturnPath, Underway
<1>2. Peer(s) \in Site
  BY PeerType
<1> QED BY <1>1, <1>2, EmptyQueue DEF Quiet, At

LEMMA ConnectReturn ==
  ASSUME ChallengeInv, Connect, NEW t \in Site, ReturnPath(t)
  PROVE  ReturnPath(t)'
<1>1. StoreInv /\ Follower \in Site /\ Peer(t) \in Site
  BY PeerType DEF ChallengeInv, Site
<1>2. UNCHANGED <<to, from>>
  BY <1>1, ReloadSame DEF Connect
<1>3. Untaken(t)'
  <2>1. Untaken(t)
    BY DEF Connect, ReturnPath, Connected
  <2> QED BY <1>2, <2>1 DEF Untaken, InStep
<1>4. live'[t] /\ link' /\ ~challenge_ctxt'[t].running /\ net'[t] = <<>>
  BY DEF Connect, NoChallenge
<1> QED BY <1>3, <1>4, EmptyQueue DEF ReturnPath, Connected, Taken, SameId, AnswerKeys

LEMMA ReturnInit == Init => ReturnInv
<1> SUFFICES ASSUME Init, NEW s \in Site PROVE ReturnPath(s)
  BY DEF ReturnInv
<1>1. PICK p \in [Site -> [Login -> Pwd]] :
        /\ to = [t \in Site |-> [l \in Login |-> [pwd |-> p[t][l], new_pwd |-> NoPwd]]]
        /\ from = [t \in Site |-> p[Peer(t)]]
  BY DEF Init
<1>2. Untaken(s)
  BY <1>1, PeerType DEF Untaken, InStep
<1>3. ~live[s] /\ ~link /\ internal_pc[s] = "done" /\ ~challenge_ctxt[s].running /\ net[s] = <<>>
  BY DEF Init, NoChallenge
<1> QED BY <1>2, <1>3, EmptyQueue DEF ReturnPath, Connected, Taken, SameId, AnswerKeys

LEMMA ReturnStep ==
  ASSUME Len(LoginSeq) = 1, ChallengeInv, ReturnInv, [Next]_vars
  PROVE  ReturnInv'
<1> SUFFICES ASSUME faults' = 0, NEW t \in Site PROVE ReturnPath(t)'
  BY DEF ReturnInv
<1>1. faults \in Nat /\ Follower \in Site
  BY BoundAssumption DEF ChallengeInv, StoreInv, TypeOK, Site
<1>2. ASSUME faults = 0 PROVE \A u \in Site : ReturnPath(u)
  BY <1>2 DEF ReturnInv
<1>3. \A s \in Site : t = s \/ t = Peer(s)
  BY OtherSite
<1>4. \A s \in Site : Peer(s) \in Site
  BY PeerType
<1>5. CASE Connect
  BY <1>2, <1>5, ConnectReturn DEF Connect
<1>6. CASE UNCHANGED vars
  BY <1>1, <1>2, <1>6, OtherReturn DEF vars
<1>7. CASE ConnectionBreaks
  BY <1>1, <1>7 DEF ConnectionBreaks
<1>8. ASSUME NEW s \in Site, PayloadCut(s) \/ Crash(s) PROVE FALSE
  BY <1>1, <1>8 DEF PayloadCut, Crash
<1>9. ASSUME NEW s \in Site, ConnectionLost(s) PROVE FALSE
  BY <1>2, <1>9 DEF ConnectionLost, ReturnPath, Connected
<1>10. ASSUME NEW s \in Site, ChallengeTimeout(s) PROVE FALSE
  <2>1. Quiet(s) /\ faults = 0
    BY <1>1, <1>10 DEF ChallengeTimeout
  <2> QED BY <1>2, <1>10, <2>1, NoTimeout DEF ChallengeTimeout
<1>11. ASSUME NEW s \in Site, cyber_send(s) PROVE ReturnPath(t)'
  <2>1. faults = 0
    BY <1>11 DEF cyber_send
  <2>2. ReturnPath(s)' /\ ReturnPath(Peer(s))'
    BY <1>2, <1>4, <1>11, <2>1, SendReturn
  <2> QED BY <1>3, <2>2
<1>12. ASSUME NEW s \in Site, cyber_receive(s) PROVE ReturnPath(t)'
  <2>1. faults = 0
    BY <1>12 DEF cyber_receive
  <2>2. ReturnPath(s)' /\ ReturnPath(Peer(s))'
    BY <1>2, <1>4, <1>12, <2>1, ReceiveReturn
  <2> QED BY <1>3, <2>2
<1>13. ASSUME NEW s \in Site, HandleChangePwdRequest(s) PROVE ReturnPath(t)'
  <2>1. faults = 0
    BY <1>13 DEF HandleChangePwdRequest
  <2>2. ReturnPath(s)' /\ ReturnPath(Peer(s))'
    BY <1>2, <1>4, <1>13, <2>1, RequestReturn
  <2> QED BY <1>3, <2>2
<1>14. ASSUME NEW s \in Site, HandlePing(s) PROVE FALSE
  <2>1. faults = 0
    BY <1>14 DEF HandlePing
  <2> QED BY <1>2, <1>4, <1>14, <2>1, NoPingRead
<1>15. ASSUME NEW s \in Site, HandleChangePwdResponse(s) \/ HandlePong(s) PROVE ReturnPath(t)'
  <2>1. faults = 0
    BY <1>15 DEF HandleChangePwdResponse, HandlePong
  <2>2. ReturnPath(s)' /\ ReturnPath(Peer(s))'
    BY <1>2, <1>4, <1>15, <2>1, ResponseReturn
  <2> QED BY <1>3, <2>2
<1>16. ASSUME NEW s \in Site, InternalInitiate(s) \/ InternalIdle(s) PROVE ReturnPath(t)'
  <2>1. faults = 0
    BY <1>16 DEF InternalInitiate, InternalIdle
  <2> QED BY <1>2, <1>16, <2>1, InitiateReturn
<1>17. ASSUME NEW s \in Site,
              \/ HandleAllClear(s)
              \/ Launch(s)
              \/ \E l \in Login : Expire(s, l)
              \/ SendChoose(s)
       PROVE  ReturnPath(t)'
  <2>1. faults = 0
    BY <1>17 DEF HandleAllClear, Launch, Expire, SendChoose
  <2> QED BY <1>2, <1>17, <2>1, OtherReturn
<1>18. ASSUME NEW s \in Site, SendPush(s) PROVE ReturnPath(t)'
  <2>1. faults = 0
    BY <1>18 DEF SendPush
  <2> QED BY <1>2, <1>18, <2>1, SendPushReturn
<1> QED BY <1>5, <1>6, <1>7, <1>8, <1>9, <1>10, <1>11, <1>12, <1>13, <1>14, <1>15, <1>16, <1>17, <1>18
        DEF Next, HandleMessage
(* A site whose passwords are not renewed.                                 *)
LEMMA UnchangingKept ==
  ASSUME NEW s \in Site, Unchanging(s), TypeOK, Trimmed(net'[s], net[s]), to'[s] = to[s],
         \A l \in Login : expired'[s][l] => expired[s][l]
  PROVE  Unchanging(s)'
<1>1. Elems(net'[s]) \subseteq Elems(net[s])
  BY TrimQueue DEF TypeOK
<1> QED BY <1>1 DEF Unchanging, Pending

LEMMA OneSidedStep ==
  ASSUME ChallengeInv, OneSided, [Next]_vars
  PROVE  OneSided'
<1> SUFFICES ASSUME NEW s \in Site \ ExpiringSites PROVE Unchanging(s)'
  BY DEF OneSided
<1>1. /\ Unchanging(s) /\ s \in Site /\ Peer(s) \in Site /\ Peer(s) # s
      /\ TypeOK /\ StoreInv /\ RunningPending /\ SecretsCurrent
  BY PeerType DEF OneSided, ChallengeInv, StoreInv
<1>2. ~InProgress(s) /\ Due(s) = {}
  <2>1. ~InProgress(s)
    BY <1>1 DEF RunningPending, Unchanging
  <2>2. Due(s) = {}
    BY <1>1 DEF Due, Unchanging, Login
  <2> QED BY <2>1, <2>2
<1>3. ASSUME to'[s] = to[s], expired'[s] = expired[s], Trimmed(net'[s], net[s])
      PROVE  Unchanging(s)'
  BY <1>1, <1>3, UnchangingKept
<1>4. CASE ConnectionBreaks \/ UNCHANGED vars
  BY <1>3, <1>4 DEF ConnectionBreaks, vars, stores, queues, Trimmed
<1>5. CASE Connect
  <2>1. to' = to
    BY <1>1, <1>5, ReloadSame DEF Connect, Site
  <2> QED BY <1>1, <1>3, <1>5, <2>1 DEF Connect, Trimmed
<1>6. ASSUME NEW t \in Site, NEW l \in Login, Expire(t, l) PROVE Unchanging(s)'
  <2>1. t # s
    BY <1>6 DEF Expire
  <2>2. UNCHANGED <<to, net>>
    BY <1>6 DEF Expire, queues
  <2>3. expired'[s] = expired[s]
    BY <1>1, <1>6, <2>1 DEF Expire, TypeOK
  <2> QED BY <1>3, <2>2, <2>3 DEF Trimmed
<1>7. ASSUME NEW t \in Site, cyber_send(t) PROVE Unchanging(s)'
  <2> DEFINE e == Head(send_q[s])
             m == Encrypted_write(s, e)
  <2>1. to' = to /\ expired' = expired
    BY <1>7 DEF cyber_send, stores
  <2>2. CASE t # s \/ ~link
    BY <1>1, <1>3, <1>7, <2>1, <2>2 DEF cyber_send, Trimmed, TypeOK
  <2>3. CASE t = s /\ link
    <3>1. /\ send_q[s] # <<>> /\ net'[s] = Append(net[s], m)
          /\ send_q[s] \in Seq(SendEntry) /\ net[s] \in Seq(Encrypted) /\ Shapes(s)
      BY <1>1, <1>7, <2>3, SiteFacts DEF cyber_send, TypeOK
    <3>2. e \in SendEntry /\ e \in Elems(send_q[s]) /\ EntryShape(s, e)
      BY <3>1, TailQueue, ElemsType DEF Shapes
    <3>3. m \in Encrypted /\ m.login \in Login /\ m.data[1].ptxt = e.data[1].ptxt
      BY <3>2, WrittenShape DEF Encrypted
    <3>4. m \in SentOf(AnswerType) => m.data[1].key = to[s][m.login].pwd
      <4> SUFFICES ASSUME m \in SentOf(AnswerType) PROVE m.data[1].key = to[s][m.login].pwd
        OBVIOUS
      <4>1. e.flag_do_encrypt
        BY <3>2, <3>3, ChallengeFirst DEF EntryShape, SentOf, AnswerType, RequestType
      <4>2. m.login = SendLogin(e) /\ m.data[1].key = ToKey(s, SendLogin(e))
        BY <4>1 DEF Encrypted_write
      <4> QED BY <1>1, <3>3, <4>2, KeyCurrent
    <3> HIDE DEF e, m
    <3>5. Elems(net'[s]) = Elems(net[s]) \cup {m}
      BY <3>1, <3>3, AppendQueue
    <3> QED BY <1>1, <2>1, <3>4, <3>5 DEF Unchanging, Pending
  <2> QED BY <2>2, <2>3
<1>8. ASSUME NEW t \in Site, cyber_receive(t) PROVE Unchanging(s)'
  BY <1>1, <1>3, <1>8, OtherSite DEF cyber_receive, stores, Trimmed, TypeOK
<1>9. ASSUME NEW t \in Site, HandleChangePwdResponse(t) \/ HandlePong(t) PROVE Unchanging(s)'
  <2>1. net' = net
    BY <1>9 DEF HandleChangePwdResponse, HandlePong
  <2>2. CASE UNCHANGED <<to, expired>>
    BY <1>3, <2>1, <2>2 DEF Trimmed
  <2>3. CASE challenge_ctxt[t].running /\ auth_switch_to_new_pwd(t, challenge_ctxt[t].login)
    <3>1. t # s
      BY <1>2, <2>3 DEF InProgress
    <3> QED BY <1>1, <1>3, <2>1, <2>3, <3>1 DEF auth_switch_to_new_pwd, Trimmed, TypeOK
  <2> QED BY <1>9, <2>2, <2>3 DEF HandleChangePwdResponse, HandlePong, Answers
<1>10. ASSUME NEW t \in Site, InternalInitiate(t) \/ InternalIdle(t) PROVE Unchanging(s)'
  <2>1. expired' = expired /\ net' = net /\ initiateChallenge(t)
    BY <1>10 DEF InternalInitiate, InternalIdle
  <2>2. to'[s] = to[s]
    <3>1. CASE to' = to
      BY <3>1
    <3>2. CASE StartChallenge(t)
      <4>1. t # s
        BY <1>2, <3>2 DEF StartChallenge
      <4> QED BY <1>1, <3>2, <4>1 DEF StartChallenge, auth_get_new_pwd, TypeOK
    <3> QED BY <2>1, <3>1, <3>2 DEF initiateChallenge, SendAllClear
  <2> QED BY <1>3, <2>1, <2>2 DEF Trimmed
<1>11. ASSUME NEW t \in Site, Crash(t) PROVE Unchanging(s)'
  <2>1. to' = to
    BY <1>1, <1>11, ReloadSame DEF Crash
  <2> QED BY <1>3, <1>11, <2>1 DEF Crash, Trimmed
<1>12. ASSUME NEW t \in Site, ConnectionLost(t) \/ PayloadCut(t) PROVE Unchanging(s)'
  <2>1. to' = to /\ expired' = expired
    BY <1>12 DEF ConnectionLost, PayloadCut, stores
  <2>2. Trimmed(net'[s], net[s])
    BY <1>1, <1>12 DEF ConnectionLost, PayloadCut, Trimmed, TypeOK
  <2> QED BY <1>3, <2>1, <2>2
<1>13. ASSUME NEW t \in Site,
              \/ HandleAllClear(t)
              \/ HandleChangePwdRequest(t)
              \/ HandlePing(t)
              \/ Launch(t)
              \/ SendChoose(t)
              \/ SendPush(t)
              \/ ChallengeTimeout(t)
       PROVE  Unchanging(s)'
  <2>1. UNCHANGED <<to, expired, net>>
    BY <1>13 DEF HandleAllClear, HandleChangePwdRequest, HandlePing, Launch, SendChoose, SendPush,
                 ChallengeTimeout, stores, queues
  <2> QED BY <1>3, <2>1 DEF Trimmed
<1> QED BY <1>4, <1>5, <1>6, <1>7, <1>8, <1>9, <1>10, <1>11, <1>12, <1>13 DEF Next, HandleMessage

(* With one login per site, or one site whose passwords are renewed, the   *)
(* site that waits for the response to its challenge can decrypt it: the   *)
(* busy test of cyber_process_internal_msg and the order of the messages   *)
(* suffice as long as nothing was lost.                                    *)
THEOREM ResponseIsRead ==
  Len(LoginSeq) = 1 \/ ExpiringSites # Site => (Spec => []ResponseReadable)
<1> SUFFICES ASSUME Len(LoginSeq) = 1 \/ ExpiringSites # Site PROVE Spec => []ResponseReadable
  OBVIOUS
<1> DEFINE ReadInv == IF Len(LoginSeq) = 1 THEN ReturnInv ELSE OneSided
<1>1. Init => ReadInv
  <2>1. ASSUME Init, NEW s \in Site PROVE Unchanging(s)
    <3>1. \A l \in Login : ~expired[s][l] /\ to[s][l].new_pwd = NoPwd
      BY <2>1 DEF Init
    <3>2. net[s] = <<>>
      BY <2>1 DEF Init
    <3> QED BY <3>1, <3>2, EmptyQueue DEF Unchanging, Pending
  <2> QED BY <2>1, ReturnInit DEF OneSided
<1>2. ChallengeInv /\ ReadInv /\ [Next]_vars => ReadInv'
  BY ReturnStep, OneSidedStep
<1>3. ChallengeInv /\ ReadInv => ResponseReadable
  <2> SUFFICES ASSUME ChallengeInv, ReadInv, faults = 0, NEW s \in Site,
                      Arriving(s, "ChangePwdResponse")
               PROVE  Readable(s)
    BY DEF ResponseReadable
  <2> DEFINE p == Peer(s)
             e == Head(net[p])
  <2>1. /\ p \in Site /\ Peer(p) = s /\ net[p] \in Seq(Encrypted)
        /\ net[p] # <<>> /\ e.data[1].ptxt.type = "ChangePwdResponse"
        /\ SecretsCurrent /\ CredentialAgreement /\ RunningPending /\ Settled(s) /\ live[s]
    BY SiteFacts DEF Arriving, ChallengeInv, StoreInv, TokenInv
  <2>2. e \in Encrypted /\ e \in Elems(net[p]) /\ e.login \in Login
    <3>1. e \in Elems(net[p])
      BY <2>1, TailQueue
    <3>2. e \in Encrypted
      BY <2>1, <3>1, ElemsType
    <3> QED BY <3>1, <3>2 DEF Encrypted
  <2>3. e \in SentOf(AnswerType) /\ At(s, 5)
    <3>1. e \in SentOf(AnswerType)
      BY <2>1, <2>2 DEF SentOf, AnswerType
    <3> QED BY <2>2, <3>1, HasElems DEF At
  <2>4. e.data[1].key = from[s][e.login]
    <3>1. CASE Len(LoginSeq) = 1
      BY <2>1, <2>2, <2>3, <3>1 DEF ReturnInv, ReturnPath, AnswerKeys
    <3>2. CASE Len(LoginSeq) # 1
      <4>1. OneSided
        BY <3>2
      <4>2. s \in ExpiringSites
        <5>1. challenge_ctxt[s].running
          BY <2>1, <2>3 DEF Settled, NoToken
        <5> QED BY <2>1, <4>1, <5>1 DEF RunningPending, InProgress, OneSided, Unchanging
      <4>3. p \notin ExpiringSites
        BY <3>2, <4>2, RoleAssumption, OtherSite
      <4>4. e.data[1].key = to[p][e.login].pwd /\ ~Pending(p, e.login)
        BY <2>1, <2>2, <2>3, <4>1, <4>3 DEF OneSided, Unchanging
      <4> QED BY <2>1, <2>2, <4>4 DEF CredentialAgreement
    <3> QED BY <3>1, <3>2
  <2> QED BY <2>1, <2>2, <2>4, KeyCurrent DEF Readable
<1> QED BY <1>1, <1>2, <1>3, ChallengeInvariant, PTL DEF Spec

-----------------------------------------------------------------------------
(* The rotation of passwords.  An account is a login of a site.            *)
Account == Site \X Login

LEMMA AccountParts ==
  ASSUME NEW a \in Site \X Login
  PROVE  a[1] \in Site /\ a[2] \in Login /\ a = <<a[1], a[2]>>
OBVIOUS

(* The three things a step may do to the passwords of login k of site t.   *)
ProposeStep(t, k) ==
    /\ ~Pending(t, k)
    /\ \E w \in Pwd \ {to[t][k].pwd} : to' = [to EXCEPT ![t][k].new_pwd = w]
    /\ from' = from
AdoptStep(t, k) ==
    /\ Pending(t, k)
    /\ InStep(t, k)
    /\ from' = [from EXCEPT ![Peer(t)][k] = to[t][k].new_pwd]
    /\ to' = to
SwitchStep(t, k) ==
    /\ Pending(t, k)
    /\ from[Peer(t)][k] = to[t][k].new_pwd
    /\ to' = [to EXCEPT ![t][k] = [pwd |-> to[t][k].new_pwd, new_pwd |-> NoPwd]]
    /\ from' = from

(* auth_get_new_pwd_b64 proposes, auth_set_pwd_b64 adopts,                 *)
(* auth_switch_to_new_pwd switches, and nothing else changes a password.   *)
LEMMA PasswordSteps ==
  ASSUME ChallengeInv, [Next]_vars
  PROVE  \/ UNCHANGED <<to, from>>
         \/ \E t \in Site, k \in Login : ProposeStep(t, k) \/ AdoptStep(t, k) \/ SwitchStep(t, k)
<1>1. StoreInv /\ TypeOK /\ RunningPending /\ NewPwdDiffers
  BY DEF ChallengeInv, StoreInv, TokenInv
<1>2. ASSUME NEW s \in Site, HandleChangePwdRequest(s)
      PROVE  UNCHANGED <<to, from>> \/ \E k \in Login : AdoptStep(Peer(s), k)
  <2> DEFINE i == Head(internal_q[s])
  <2>1. /\ to' = to /\ Dequeue(s) /\ i.ptxt.type = "ChangePwdRequest"
        /\ from' = from \/ auth_set_pwd(s, i.login, i.ptxt.arg)
    BY <1>2 DEF HandleChangePwdRequest
  <2>2. i \in Internal /\ i.login \in Login /\ i \in Elems(internal_q[s])
    <3>1. i \in Internal /\ internal_q[s] \in Seq(Internal) /\ internal_q[s] # <<>>
      BY <1>1, <2>1, DequeueType DEF TypeOK, Dequeue
    <3> QED BY <3>1, TailQueue DEF Internal
  <2>3. ReadShape(s, i) /\ Peer(Peer(s)) = s
    BY <2>2, SiteFacts DEF Shapes
  <2>4. CASE auth_set_pwd(s, i.login, i.ptxt.arg)
    <3>1. from' = [from EXCEPT ![s][i.login] = to[Peer(s)][i.login].new_pwd]
      BY <2>1, <2>3, <2>4 DEF auth_set_pwd, ReadShape
    <3>2. Pending(Peer(s), i.login) /\ InStep(Peer(s), i.login)
      BY <2>1, <2>3 DEF ReadShape, Pending, InStep
    <3> QED BY <2>1, <2>2, <2>3, <3>1, <3>2 DEF AdoptStep
  <2> QED BY <2>1, <2>4
<1>3. ASSUME NEW s \in Site, HandleChangePwdResponse(s) \/ HandlePong(s)
      PROVE  UNCHANGED <<to, from>> \/ \E k \in Login : SwitchStep(s, k)
  <2> DEFINE i == Head(internal_q[s])
             m == i.ptxt
             l == challenge_ctxt[s].login
  <2>1. /\ from' = from /\ internal_q[s] # <<>>
        /\ m.type \in AnswerType
        /\ \/ to' = to
           \/ /\ challenge_ctxt[s].running /\ auth_switch_to_new_pwd(s, l)
              /\ m.type = "ChangePwdResponse" => m.arg = TRUE
    BY <1>3 DEF HandleChangePwdResponse, HandlePong, Answers, AnswerType, Dequeue
  <2>2. CASE /\ challenge_ctxt[s].running /\ auth_switch_to_new_pwd(s, l)
             /\ m.type = "ChangePwdResponse" => m.arg = TRUE
    <3>1. l \in Login /\ Pending(s, l)
      BY <1>1, <2>2 DEF RunningPending, InProgress
    <3>2. AnswerTrue(s, m)
      <4>1. Matching(s) /\ i \in Elems(internal_q[s])
        BY <2>1, SiteFacts, TailQueue
      <4> QED BY <2>2, <4>1 DEF Matching
    <3>3. from[Peer(s)][l] = to[s][l].new_pwd
      BY <2>1, <2>2, <3>2 DEF AnswerTrue, AnswerType
    <3> QED BY <2>1, <2>2, <3>1, <3>3 DEF SwitchStep, auth_switch_to_new_pwd
  <2> QED BY <2>1, <2>2
<1>4. ASSUME NEW s \in Site, InternalInitiate(s) \/ InternalIdle(s)
      PROVE  UNCHANGED <<to, from>> \/ \E k \in Login : ProposeStep(s, k)
  <2>1. initiateChallenge(s) /\ from' = from
    BY <1>4 DEF InternalInitiate, InternalIdle
  <2>2. CASE StartChallenge(s)
    <3>1. PICK l \in Login, w \in Pwd : auth_get_new_pwd(s, l, w)
      BY <2>2 DEF StartChallenge, Due, Login
    <3>2. to' = [to EXCEPT ![s][l].new_pwd = w]
      BY <3>1 DEF auth_get_new_pwd
    <3>3. CASE Pending(s, l)
      <4>1. to \in [Site -> [Login -> ToEntry]] /\ w = to[s][l].new_pwd
        BY <1>1, <3>1, <3>3 DEF TypeOK, auth_get_new_pwd
      <4>2. [to[s][l] EXCEPT !.new_pwd = w] = to[s][l]
        BY <4>1 DEF ToEntry
      <4>3. to' = to
        BY <3>2, <4>1, <4>2
      <4> QED BY <2>1, <4>3
    <3>4. CASE ~Pending(s, l)
      BY <2>1, <3>1, <3>2, <3>4 DEF ProposeStep, auth_get_new_pwd
    <3> QED BY <3>3, <3>4
  <2> QED BY <2>1, <2>2 DEF initiateChallenge, SendAllClear
<1>5. ASSUME NEW s \in Site, Crash(s) PROVE UNCHANGED <<to, from>>
  BY <1>1, <1>5, ReloadSame DEF Crash
<1>6. CASE Connect
  BY <1>1, <1>6, ReloadSame DEF Connect, Site
<1>7. ASSUME NEW s \in Site,
             \/ \E l \in Login : Expire(s, l)
             \/ cyber_send(s)
             \/ cyber_receive(s)
             \/ HandleAllClear(s)
             \/ HandlePing(s)
             \/ Launch(s)
             \/ SendChoose(s)
             \/ SendPush(s)
             \/ ChallengeTimeout(s)
             \/ ConnectionLost(s)
             \/ PayloadCut(s)
      PROVE  UNCHANGED <<to, from>>
  BY <1>7 DEF Expire, cyber_send, cyber_receive, HandleAllClear, HandlePing, Launch, SendChoose, SendPush,
              ChallengeTimeout, ConnectionLost, PayloadCut, stores
<1>8. CASE ConnectionBreaks \/ UNCHANGED vars
  BY <1>8 DEF ConnectionBreaks, vars, stores
<1> QED BY <1>2, <1>3, <1>4, <1>5, <1>6, <1>7, <1>8, PeerType DEF Next, HandleMessage

(* The refinement mapping: what each of the three is in PwdRotation.       *)
pwdOf == [a \in Site \X Login |-> to[a[1]][a[2]].pwd]
newOf == [a \in Site \X Login |-> to[a[1]][a[2]].new_pwd]
knownOf == [a \in Site \X Login |-> from[Peer(a[1])][a[2]]]

LEMMA ProposeMaps ==
  ASSUME TypeOK, NEW t \in Site, NEW k \in Login, ProposeStep(t, k)
  PROVE  Rotation!Propose(<<t, k>>)
<1> DEFINE a == <<t, k>>
<1>1. a \in Account /\ to \in [Site -> [Login -> ToEntry]] /\ a[1] = t /\ a[2] = k
  BY DEF Account, TypeOK
<1>2. PICK w \in Pwd \ {to[t][k].pwd} : to' = [to EXCEPT ![t][k].new_pwd = w] /\ from' = from
  BY DEF ProposeStep
<1>3. ASSUME NEW b \in Account
      PROVE  /\ to'[b[1]][b[2]].pwd = to[b[1]][b[2]].pwd
             /\ to'[b[1]][b[2]].new_pwd = IF b = a THEN w ELSE to[b[1]][b[2]].new_pwd
  <2>1. b[1] \in Site /\ b[2] \in Login /\ b = <<b[1], b[2]>>
    BY AccountParts DEF Account
  <2>2. CASE b[1] = t /\ b[2] = k
    BY <1>1, <1>2, <2>1, <2>2 DEF ToEntry
  <2>3. CASE ~(b[1] = t /\ b[2] = k)
    <3>1. to'[b[1]][b[2]] = to[b[1]][b[2]]
      BY <1>1, <1>2, <2>1, <2>3
    <3>2. b # a
      BY <2>3
    <3> QED BY <3>1, <3>2
  <2> QED BY <2>2, <2>3
<1> HIDE DEF a
<1>4. pwdOf' = pwdOf /\ knownOf' = knownOf
  BY <1>2, <1>3 DEF pwdOf, knownOf, Account
<1>5. newOf' = [newOf EXCEPT ![a] = w]
  BY <1>1, <1>3 DEF newOf, Account
<1>6. newOf[a] = NoPwd /\ pwdOf[a] = to[t][k].pwd
  BY <1>1 DEF newOf, pwdOf, Account, ProposeStep, Pending
<1> QED BY <1>2, <1>4, <1>5, <1>6 DEF Rotation!Propose, pwdOf, newOf, knownOf, a

LEMMA AdoptMaps ==
  ASSUME TypeOK, NEW t \in Site, NEW k \in Login, AdoptStep(t, k)
  PROVE  Rotation!Adopt(<<t, k>>)
<1> DEFINE a == <<t, k>>
<1>1. a \in Account /\ from \in [Site -> [Login -> Pwd]] /\ a[1] = t /\ a[2] = k
  BY DEF Account, TypeOK
<1>2. from' = [from EXCEPT ![Peer(t)][k] = to[t][k].new_pwd] /\ to' = to /\ Peer(t) \in Site
  BY PeerType DEF AdoptStep
<1>3. ASSUME NEW b \in Account
      PROVE  from'[Peer(b[1])][b[2]] = IF b = a THEN to[t][k].new_pwd ELSE from[Peer(b[1])][b[2]]
  <2>1. b[1] \in Site /\ b[2] \in Login /\ b = <<b[1], b[2]>> /\ Peer(b[1]) \in Site
    BY AccountParts, PeerType DEF Account
  <2>2. CASE b[1] = t /\ b[2] = k
    BY <1>1, <1>2, <2>1, <2>2
  <2>3. CASE ~(b[1] = t /\ b[2] = k)
    <3>1. b[1] # t => Peer(b[1]) # Peer(t)
      BY <2>1, PeerType
    <3>2. from'[Peer(b[1])][b[2]] = from[Peer(b[1])][b[2]]
      BY <1>1, <1>2, <2>1, <2>3, <3>1
    <3>3. b # a
      BY <2>3
    <3> QED BY <3>2, <3>3
  <2> QED BY <2>2, <2>3
<1> HIDE DEF a
<1>4. pwdOf' = pwdOf /\ newOf' = newOf
  BY <1>2 DEF pwdOf, newOf
<1>5. knownOf' = [knownOf EXCEPT ![a] = to[t][k].new_pwd]
  BY <1>1, <1>3 DEF knownOf, Account
<1>6. newOf[a] = to[t][k].new_pwd /\ newOf[a] # NoPwd /\ knownOf[a] = pwdOf[a]
  BY <1>1 DEF newOf, pwdOf, knownOf, Account, AdoptStep, Pending, InStep
<1> QED BY <1>4, <1>5, <1>6 DEF Rotation!Adopt, pwdOf, newOf, knownOf, a

LEMMA SwitchMaps ==
  ASSUME TypeOK, NEW t \in Site, NEW k \in Login, SwitchStep(t, k)
  PROVE  Rotation!Switch(<<t, k>>)
<1> DEFINE a == <<t, k>>
           w == to[t][k].new_pwd
<1>1. a \in Account /\ to \in [Site -> [Login -> ToEntry]] /\ a[1] = t /\ a[2] = k
  BY DEF Account, TypeOK
<1>2. to' = [to EXCEPT ![t][k] = [pwd |-> w, new_pwd |-> NoPwd]] /\ from' = from
  BY DEF SwitchStep
<1> HIDE DEF w
<1>3. ASSUME NEW b \in Account
      PROVE  /\ to'[b[1]][b[2]].pwd = IF b = a THEN w ELSE to[b[1]][b[2]].pwd
             /\ to'[b[1]][b[2]].new_pwd = IF b = a THEN NoPwd ELSE to[b[1]][b[2]].new_pwd
  <2>1. b[1] \in Site /\ b[2] \in Login /\ b = <<b[1], b[2]>>
    BY AccountParts DEF Account
  <2>2. CASE b[1] = t /\ b[2] = k
    BY <1>1, <1>2, <2>1, <2>2
  <2>3. CASE ~(b[1] = t /\ b[2] = k)
    <3>1. to'[b[1]][b[2]] = to[b[1]][b[2]]
      BY <1>1, <1>2, <2>1, <2>3
    <3>2. b # a
      BY <2>3
    <3> QED BY <3>1, <3>2
  <2> QED BY <2>2, <2>3
<1> HIDE DEF a
<1>4. knownOf' = knownOf
  BY <1>2 DEF knownOf
<1>5. pwdOf' = [pwdOf EXCEPT ![a] = w] /\ newOf' = [newOf EXCEPT ![a] = NoPwd]
  BY <1>1, <1>3 DEF newOf, pwdOf, Account
<1>6. newOf[a] = w /\ newOf[a] # NoPwd /\ knownOf[a] = w
  BY <1>1 DEF newOf, knownOf, Account, SwitchStep, Pending, w
<1> QED BY <1>4, <1>5, <1>6 DEF Rotation!Switch, pwdOf, newOf, knownOf, a

(* The challenge sequence implements PwdRotation: whatever the threads, the *)
(* network and the restarts do, an owner drops a password only once its    *)
(* peer has adopted the next one.                                          *)
THEOREM ImplementsTheRotation == Spec => ImplementsRotation
<1>1. Init => Rotation!RotationInit
  <2> SUFFICES ASSUME Init PROVE Rotation!RotationInit
    OBVIOUS
  <2>1. PICK p \in [Site -> [Login -> Pwd]] :
          /\ to = [s \in Site |-> [l \in Login |-> [pwd |-> p[s][l], new_pwd |-> NoPwd]]]
          /\ from = [s \in Site |-> p[Peer(s)]]
    BY DEF Init
  <2>2. ASSUME NEW a \in Site \X Login
        PROVE  /\ to[a[1]][a[2]].pwd = p[a[1]][a[2]] /\ p[a[1]][a[2]] \in Pwd
               /\ to[a[1]][a[2]].new_pwd = NoPwd
               /\ from[Peer(a[1])][a[2]] = p[a[1]][a[2]]
    <3>1. a[1] \in Site /\ a[2] \in Login /\ Peer(a[1]) \in Site /\ Peer(Peer(a[1])) = a[1]
      BY AccountParts, PeerType
    <3> QED BY <2>1, <3>1
  <2>3. pwdOf \in [Site \X Login -> Pwd] /\ newOf = [a \in Site \X Login |-> NoPwd] /\ knownOf = pwdOf
    BY <2>2 DEF pwdOf, newOf, knownOf
  <2> QED BY <2>3 DEF Rotation!RotationInit, pwdOf, newOf, knownOf
<1>2. ChallengeInv /\ [Next]_vars => [Rotation!RotationNext]_(Rotation!rvars)
  <2> SUFFICES ASSUME ChallengeInv, [Next]_vars PROVE [Rotation!RotationNext]_(Rotation!rvars)
    OBVIOUS
  <2>1. CASE UNCHANGED <<to, from>>
    BY <2>1 DEF Rotation!rvars
  <2>2. ASSUME NEW t \in Site, NEW k \in Login, ProposeStep(t, k) \/ AdoptStep(t, k) \/ SwitchStep(t, k)
        PROVE  Rotation!RotationNext
    <3>1. TypeOK /\ <<t, k>> \in Site \X Login
      BY DEF ChallengeInv, StoreInv
    <3>2. Rotation!Propose(<<t, k>>) \/ Rotation!Adopt(<<t, k>>) \/ Rotation!Switch(<<t, k>>)
      BY <2>2, <3>1, ProposeMaps, AdoptMaps, SwitchMaps
    <3> QED BY <3>1, <3>2 DEF Rotation!RotationNext
  <2> QED BY <2>1, <2>2, PasswordSteps
<1>3. Spec => Rotation!RotationSpec
  BY <1>1, <1>2, ChallengeInvariant, PTL DEF Spec, Rotation!RotationSpec
<1> QED BY <1>3 DEF ImplementsRotation

-----------------------------------------------------------------------------
(* What the rotation alone gives.                                          *)

(* The actions and the invariant of the rotation, in terms of the three    *)
(* copies.                                                                 *)
LEMMA RotationSteps ==
  ASSUME NEW a \in Site \X Login
  PROVE  /\ Rotation!Propose(a) =>
              /\ \E p \in Pwd : newOf' = [newOf EXCEPT ![a] = p]
              /\ newOf[a] = NoPwd /\ pwdOf' = pwdOf /\ knownOf' = knownOf
         /\ Rotation!Adopt(a) =>
              /\ newOf[a] # NoPwd /\ knownOf' = [knownOf EXCEPT ![a] = newOf[a]]
              /\ pwdOf' = pwdOf /\ newOf' = newOf
         /\ Rotation!Switch(a) =>
              /\ newOf[a] # NoPwd /\ knownOf[a] = newOf[a] /\ knownOf' = knownOf
              /\ pwdOf' = [pwdOf EXCEPT ![a] = newOf[a]]
              /\ newOf' = [newOf EXCEPT ![a] = NoPwd]
  BY DEF Rotation!Propose, Rotation!Adopt, Rotation!Switch, pwdOf, newOf, knownOf

\* The copies are passwords, and the remote one is one of the owner's two.
Copies ==
    /\ pwdOf \in [Site \X Login -> Pwd] /\ knownOf \in [Site \X Login -> Pwd]
    /\ newOf \in [Site \X Login -> Pwd \cup {NoPwd}]
    /\ \A a \in Site \X Login :
          knownOf[a] = pwdOf[a] \/ (newOf[a] # NoPwd /\ knownOf[a] = newOf[a])

(* However the renewals of the accounts interleave, the remote site knows  *)
(* the owner's current password or the one the owner is proposing: the     *)
(* order auth_set_pwd_b64, auth_switch_to_new_pwd locks nobody out,        *)
(* whatever carries it out.                                                *)
THEOREM AgreementHolds == Rotation!RotationSpec => []Rotation!Agreement
<1>1. Rotation!RotationInit => Copies
  <2> SUFFICES ASSUME Rotation!RotationInit PROVE Copies
    OBVIOUS
  <2>1. /\ pwdOf \in [Site \X Login -> Pwd] /\ knownOf = pwdOf
        /\ newOf = [a \in Site \X Login |-> NoPwd]
    BY DEF Rotation!RotationInit, pwdOf, newOf, knownOf
  <2> QED BY <2>1 DEF Copies
<1>2. Copies /\ [Rotation!RotationNext]_(Rotation!rvars) => Copies'
  <2> SUFFICES ASSUME Copies, [Rotation!RotationNext]_(Rotation!rvars) PROVE Copies'
    OBVIOUS
  <2>1. CASE UNCHANGED Rotation!rvars
    <3>1. pwdOf' = pwdOf /\ newOf' = newOf /\ knownOf' = knownOf
      BY <2>1 DEF Rotation!rvars, pwdOf, newOf, knownOf
    <3> QED BY <3>1 DEF Copies
  <2>2. ASSUME NEW a \in Site \X Login, Rotation!Propose(a) PROVE Copies'
    BY <2>2, RotationSteps DEF Copies
  <2>3. ASSUME NEW a \in Site \X Login, Rotation!Adopt(a) PROVE Copies'
    BY <2>3, RotationSteps DEF Copies
  <2>4. ASSUME NEW a \in Site \X Login, Rotation!Switch(a) PROVE Copies'
    BY <2>4, RotationSteps DEF Copies
  <2> QED BY <2>1, <2>2, <2>3, <2>4 DEF Rotation!RotationNext
<1>3. Copies => Rotation!Agreement
  BY DEF Copies, Rotation!Agreement, pwdOf, newOf, knownOf
<1> QED BY <1>1, <1>2, <1>3, PTL DEF Rotation!RotationSpec
=============================================================================
