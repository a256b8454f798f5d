-------------------------- MODULE Application_proofs --------------------------
(***************************************************************************)
(* The supervision of a session, for every period, tolerance and delay:    *)
(* the argument bounds the age of the last watchdog received by the age of *)
(* the last one sent and by the transit of those on their way.  Then the   *)
(* application as a whole, which the exchange of versions opens: what is   *)
(* proved of VersionExchange holds of it too.                              *)
(***************************************************************************)
EXTENDS MCApplication, SequenceTheorems, TLAPS

Limit == Period + Tolerance

(* The instant in the cycle of each loop.                                  *)
Cycle ==
    \A s \in Site :
        /\ run[s] = "wait" => last_sent[s] + to_sec[s] = Period
        /\ run[s] = "new" => last_sent[s] = Period /\ last_rxed[s] = 0

(* At most one site hangs, silence counts from there, and only its peer is *)
(* stopped; nothing on its way to the other one is younger than the hang.  *)
Silence ==
    /\ hung = {} => silence = 0
    /\ hung # {} => \E s \in Site : hung = {s}
    /\ \A s \in Site : run[s] = "stopped" => hung = {Peer(s)}
    /\ \A s \in Site \ hung : \A i \in DOMAIN net[s] : silence <= net[s][i].age

(* Until the leader has started, the acknowledgement it waits for is as    *)
(* old as the follower's loop.                                             *)
Opening ==
    \A s \in Site : run[s] = "new" /\ s \notin hung =>
        net[s] # <<>> /\ last_rxed[Peer(s)] <= net[s][1].age

(* The last watchdog received is no older than the last one sent, unless a *)
(* later one is on its way.                                                *)
OnItsWay(s) ==
    \E i \in DOMAIN net[s] :
        net[s][i].kind = "Watchdog" /\ last_rxed[s] <= Period + net[s][i].age

Fresh ==
    \A s \in Site \ hung : run[s] # "stopped" =>
        OnItsWay(s) \/ last_rxed[s] <= last_sent[Peer(s)] + silence

(* A wait begins before the limit and lasts a period at most; the silence  *)
(* is the age of the last watchdog, up to the transit.                     *)
Looked ==
    \A s \in Site \ hung :
        /\ run[s] = "top" => last_rxed[s] < Limit
        /\ run[s] = "wait" => last_rxed[s] + to_sec[s] < Limit + Period
        /\ run[s] \in {"top", "wait"} => silence <= last_rxed[s] + MaxDelay

WatchInv == TypeOK /\ Cycle /\ Silence /\ Opening /\ Fresh /\ Looked

-----------------------------------------------------------------------------
LEMMA PeerFacts ==
  ASSUME NEW s \in Site
  PROVE  /\ Peer(s) \in Site /\ Peer(s) # s /\ Peer(Peer(s)) = s
         /\ \A t \in Site : t = s \/ t = Peer(s)
BY SitesDiffer DEF Site, Peer

LEMMA AppendFacts ==
  ASSUME NEW q \in Seq(Message), NEW m \in Message
  PROVE  /\ Append(q, m) \in Seq(Message) /\ Append(q, m) # <<>>
         /\ \A i \in DOMAIN q : i \in DOMAIN Append(q, m) /\ Append(q, m)[i] = q[i]
         /\ \A i \in DOMAIN Append(q, m) : i \in DOMAIN q \/ Append(q, m)[i] = m
         /\ \E i \in DOMAIN Append(q, m) : Append(q, m)[i] = m
<1>1. /\ Append(q, m) \in Seq(Message) /\ Append(q, m) # <<>>
      /\ Len(Append(q, m)) = Len(q) + 1
      /\ \A i \in 1 .. Len(q) : Append(q, m)[i] = q[i]
      /\ Append(q, m)[Len(q) + 1] = m
  BY AppendProperties
<1>2. Len(q) \in Nat /\ DOMAIN q = 1 .. Len(q) /\ DOMAIN Append(q, m) = 1 .. Len(q) + 1
  BY <1>1, LenProperties
<1> QED BY <1>1, <1>2

LEMMA TailFacts ==
  ASSUME NEW q \in Seq(Message), q # <<>>
  PROVE  /\ Tail(q) \in Seq(Message) /\ 1 \in DOMAIN q /\ Head(q) = q[1]
         /\ \A i \in DOMAIN q : i = 1 \/ (i - 1 \in DOMAIN Tail(q) /\ Tail(q)[i - 1] = q[i])
         /\ \A i \in DOMAIN Tail(q) : i + 1 \in DOMAIN q /\ Tail(q)[i] = q[i + 1]
<1>1. /\ Tail(q) \in Seq(Message) /\ Len(Tail(q)) = Len(q) - 1
      /\ \A i \in 1 .. Len(Tail(q)) : Tail(q)[i] = q[i + 1]
  BY HeadTailProperties
<1>2. Len(q) \in Nat \ {0} /\ DOMAIN q = 1 .. Len(q) /\ DOMAIN Tail(q) = 1 .. Len(q) - 1
  BY <1>1, LenProperties, EmptySeq
<1> QED BY <1>1, <1>2

LEMMA AgedFacts ==
  ASSUME NEW q \in Seq(Message), \A i \in DOMAIN q : q[i].age < MaxDelay
  PROVE  /\ Aged(q) \in Seq(Message) /\ DOMAIN Aged(q) = DOMAIN q
         /\ \A i \in DOMAIN q : Aged(q)[i].kind = q[i].kind /\ Aged(q)[i].age = q[i].age + 1
<1>1. Len(q) \in Nat /\ DOMAIN q = 1 .. Len(q) /\ \A i \in DOMAIN q : q[i] \in Message
  BY LenProperties, ElementOfSeq
<1>2. ASSUME NEW i \in DOMAIN q
      PROVE  [kind |-> q[i].kind, age |-> q[i].age + 1] \in Message
  BY <1>1, TimeAssumption DEF Message
<1>3. Aged(q) \in [1 .. Len(q) -> Message]
  BY <1>1, <1>2 DEF Aged
<1>4. Aged(q) \in Seq(Message)
  BY <1>1, <1>3
<1> QED BY <1>1, <1>2, <1>4 DEF Aged

LEMMA MessageFacts ==
  ASSUME TypeOK, NEW s \in Site, NEW i \in DOMAIN net[s]
  PROVE  net[s][i] \in Message /\ net[s][i].age \in 0 .. MaxDelay
<1>1. net[s] \in Seq(Message)
  BY DEF TypeOK
<1>2. net[s][i] \in Message
  BY <1>1, ElementOfSeq, LenProperties
<1> QED BY <1>2 DEF Message

LEMMA NewMessage ==
  ASSUME NEW k \in {"Watchdog", "MessageAck"}
  PROVE  /\ [kind |-> k, age |-> 0] \in Message
         /\ [kind |-> k, age |-> 0].kind = k /\ [kind |-> k, age |-> 0].age = 0
BY TimeAssumption DEF Message

-----------------------------------------------------------------------------
LEMMA WatchStart == Init => WatchInv
<1> SUFFICES ASSUME Init PROVE WatchInv
  OBVIOUS
<1> DEFINE ack == <<[kind |-> "MessageAck", age |-> 0]>>
<1>1. ack \in Seq(Message) /\ ack # <<>> /\ ack[1].age = 0 /\ DOMAIN ack = {1}
  BY NewMessage
<1>2. <<>> \in Seq(Message) /\ DOMAIN <<>> = {}
  OBVIOUS
<1> HIDE DEF ack
<1>3. net = [s \in Site |-> IF s = Leader THEN ack ELSE <<>>]
  BY DEF Init, ack
<1>4. TypeOK
  BY <1>1, <1>2, <1>3, TimeAssumption DEF Init, TypeOK, Site
<1>5. Cycle /\ Fresh /\ Looked
  BY TimeAssumption, PeerFacts DEF Init, Cycle, Fresh, Looked, Limit
<1>6. Silence
  BY <1>1, <1>2, <1>3 DEF Init, Silence, Site
<1>7. Opening
  BY <1>1, <1>3, PeerFacts, SitesDiffer DEF Init, Opening, Site, Peer
<1> QED BY <1>4, <1>5, <1>6, <1>7 DEF WatchInv

(* A loop that acts while its peer does not hang: nobody hangs.            *)
LEMMA NobodyHangs ==
  ASSUME WatchInv, NEW s \in Site, s \notin hung, Peer(s) \notin hung
  PROVE  hung = {} /\ silence = 0 /\ \A t \in Site : run[t] # "stopped"
BY PeerFacts DEF WatchInv, Silence

LEMMA HangStep ==
  ASSUME WatchInv, NEW h \in Site, Hang(h)
  PROVE  WatchInv'
<1> USE DEF Hang
<1>1. TypeOK' /\ Cycle'
  BY DEF WatchInv, TypeOK, Cycle
<1>2. Silence'
  BY DEF WatchInv, Silence
<1>3. Opening' /\ Looked'
  BY DEF WatchInv, Opening, Looked
<1>4. Fresh'
  BY DEF WatchInv, Fresh, OnItsWay
<1> QED BY <1>1, <1>2, <1>3, <1>4 DEF WatchInv

LEMMA BeatStep ==
  ASSUME WatchInv, NEW s \in Site, Beat(s)
  PROVE  WatchInv'
<1> DEFINE p == Peer(s)
           m == [kind |-> "Watchdog", age |-> 0]
<1>1. /\ p \in Site /\ p # s /\ Peer(p) = s /\ \A t \in Site : t = s \/ t = p
      /\ m \in Message /\ m.kind = "Watchdog" /\ m.age = 0
  BY PeerFacts, NewMessage
<1> HIDE DEF m, p
<1>2. /\ run[s] = "top" /\ s \notin hung
      /\ run' = [run EXCEPT ![s] = "wait"]
      /\ to_sec' = [to_sec EXCEPT ![s] = Period - last_sent'[s]]
      /\ UNCHANGED <<last_rxed, hung, silence>>
      /\ \/ /\ last_sent[s] >= Period /\ net' = [net EXCEPT ![p] = Append(@, m)]
            /\ last_sent' = [last_sent EXCEPT ![s] = 0]
         \/ ~(last_sent[s] >= Period) /\ net' = net /\ last_sent' = last_sent
  BY DEF Beat, Sent, m, p, WatchInv, TypeOK
<1>3. /\ net[p] \in Seq(Message)
      /\ Append(net[p], m) \in Seq(Message) /\ Append(net[p], m) # <<>>
      /\ \A i \in DOMAIN net[p] :
            i \in DOMAIN Append(net[p], m) /\ Append(net[p], m)[i] = net[p][i]
      /\ \A i \in DOMAIN Append(net[p], m) : i \in DOMAIN net[p] \/ Append(net[p], m)[i] = m
      /\ \E i \in DOMAIN Append(net[p], m) : Append(net[p], m)[i] = m
  BY <1>1, AppendFacts DEF WatchInv, TypeOK
<1>4. TypeOK'
  <2>1. net' \in [Site -> Seq(Message)]
    BY <1>1, <1>2, <1>3 DEF WatchInv, TypeOK
  <2>2. last_sent' \in [Site -> 0 .. Period]
    <3>1. 0 \in 0 .. Period /\ last_sent \in [Site -> 0 .. Period]
      BY TimeAssumption DEF WatchInv, TypeOK
    <3>2. last_sent' = [last_sent EXCEPT ![s] = 0] \/ last_sent' = last_sent
      BY <1>2
    <3> QED BY <3>1, <3>2
  <2>0. last_sent'[s] \in 0 .. Period
    BY <2>2
  <2>3. Period - last_sent'[s] \in 0 .. Period
    BY <2>0, TimeAssumption
  <2>4. to_sec' \in [Site -> 0 .. Period] /\ run' \in [Site -> {"new", "top", "wait", "stopped"}]
    BY <1>2, <2>3 DEF WatchInv, TypeOK
  <2> QED BY <1>2, <2>1, <2>2, <2>4 DEF WatchInv, TypeOK
<1>5. Cycle'
  BY <1>1, <1>2, TimeAssumption DEF WatchInv, TypeOK, Cycle
<1>6. Silence'
  <2>1. p \notin hung => hung = {} /\ silence = 0
    BY <1>1, <1>2, NobodyHangs DEF p
  <2>2. ASSUME NEW t \in Site, t \notin hung, NEW i \in DOMAIN net'[t]
        PROVE  silence <= net'[t][i].age
    <3>1. silence \in Nat /\ net \in [Site -> Seq(Message)]
      BY DEF WatchInv, TypeOK
    <3>2. CASE t = s \/ net' = net
      BY <1>1, <1>2, <2>2, <3>1, <3>2 DEF WatchInv, Silence
    <3>3. CASE t = p /\ net' = [net EXCEPT ![p] = Append(@, m)]
      BY <1>1, <1>3, <2>1, <2>2, <3>1, <3>3 DEF WatchInv, Silence
    <3> QED BY <1>1, <1>2, <3>2, <3>3
  <2> QED BY <1>1, <1>2, <2>2 DEF WatchInv, TypeOK, Silence
<1>7. Opening'
  <2>1. run'[s] = "wait" /\ run'[p] = run[p]
    BY <1>1, <1>2 DEF WatchInv, TypeOK
  <2>2. ASSUME run[p] = "new", p \notin hung PROVE net'[p] # <<>> /\ net'[p][1] = net[p][1]
    <3>1. net[p] # <<>>
      BY <1>1, <2>2 DEF WatchInv, Opening
    <3>2. 1 \in DOMAIN net[p]
      BY <1>3, <3>1, TailFacts
    <3> QED BY <1>1, <1>2, <1>3, <3>1, <3>2 DEF WatchInv, TypeOK
  <2> QED BY <1>1, <1>2, <2>1, <2>2 DEF WatchInv, Opening
<1>8. Fresh'
  <2>1. p \notin hung => silence = 0
    BY <1>1, <1>2, NobodyHangs DEF p
  <2>2. OnItsWay(s) => OnItsWay(s)'
    BY <1>1, <1>2 DEF OnItsWay, WatchInv, TypeOK
  <2>3. OnItsWay(p) => OnItsWay(p)'
    BY <1>1, <1>2, <1>3 DEF OnItsWay, WatchInv, TypeOK
  <2>4. last_rxed[p] <= last_sent[s] /\ last_sent'[s] # last_sent[s] => OnItsWay(p)'
    BY <1>1, <1>2, <1>3, TimeAssumption DEF OnItsWay, WatchInv, TypeOK
  <2>5. last_sent'[p] = last_sent[p]
    BY <1>1, <1>2 DEF WatchInv, TypeOK
  <2> QED BY <1>1, <1>2, <2>1, <2>2, <2>3, <2>4, <2>5 DEF WatchInv, TypeOK, Fresh, p
<1>9. Looked'
  <2>1. /\ run'[s] = "wait" /\ to_sec'[s] <= Period /\ to_sec'[s] \in Nat /\ last_rxed[s] \in Nat
        /\ run'[p] = run[p] /\ to_sec'[p] = to_sec[p]
    BY <1>1, <1>2, <1>4, TimeAssumption DEF WatchInv, TypeOK
  <2>2. last_rxed[s] < Limit /\ silence <= last_rxed[s] + MaxDelay /\ Limit \in Nat
    BY <1>2, TimeAssumption DEF WatchInv, Looked, Limit
  <2>3. last_rxed[s] + to_sec'[s] < Limit + Period
    BY <2>1, <2>2, TimeAssumption
  <2> QED BY <1>1, <1>2, <2>1, <2>2, <2>3 DEF WatchInv, Looked
<1> QED BY <1>4, <1>5, <1>6, <1>7, <1>8, <1>9 DEF WatchInv

LEMMA WaitTimeoutStep ==
  ASSUME WatchInv, NEW s \in Site, WaitTimeout(s)
  PROVE  WatchInv'
<1> DEFINE p == Peer(s)
<1>1. p \in Site /\ p # s /\ Peer(p) = s /\ \A t \in Site : t = s \/ t = p
  BY PeerFacts
<1>2. /\ run[s] = "wait" /\ s \notin hung
      /\ run' = [run EXCEPT ![s] = IF Expired(s) THEN "stopped" ELSE "top"]
      /\ UNCHANGED <<last_sent, last_rxed, to_sec, net, hung, silence>>
  BY DEF WaitTimeout
<1>3. /\ run'[s] = (IF Expired(s) THEN "stopped" ELSE "top") /\ run'[p] = run[p]
      /\ last_rxed[s] \in Nat
  BY <1>1, <1>2 DEF WatchInv, TypeOK
<1>4. Expired(s) => hung = {p}
  <2> SUFFICES ASSUME Expired(s), p \notin hung PROVE FALSE
    BY <1>1, <1>2 DEF WatchInv, Silence
  <2>1. silence = 0 /\ last_rxed[s] >= Period + Tolerance
    BY <1>1, <1>2, NobodyHangs DEF Expired
  <2>2. last_sent[p] \in 0 .. Period
    BY <1>1 DEF WatchInv, TypeOK
  <2>3. ~(last_rxed[s] <= last_sent[p] + silence)
    BY <1>3, <2>1, <2>2, TimeAssumption
  <2>4. PICK i \in DOMAIN net[s] : last_rxed[s] <= Period + net[s][i].age
    BY <1>2, <2>3 DEF WatchInv, Fresh, OnItsWay
  <2>5. net[s][i].age \in 0 .. MaxDelay
    BY MessageFacts DEF WatchInv
  <2> QED BY <1>3, <2>1, <2>4, <2>5, TimeAssumption
<1>5. TypeOK' /\ Cycle'
  BY <1>1, <1>2, <1>3 DEF WatchInv, TypeOK, Cycle
<1>6. Silence'
  BY <1>1, <1>2, <1>3, <1>4 DEF WatchInv, Silence
<1>7. Opening'
  BY <1>1, <1>2, <1>3 DEF WatchInv, Opening
<1>8. Fresh'
  BY <1>1, <1>2, <1>3 DEF WatchInv, Fresh, OnItsWay
<1>9. Looked'
  <2>1. ~Expired(s) => last_rxed[s] < Limit
    BY <1>3, TimeAssumption DEF Expired, Limit
  <2> QED BY <1>1, <1>2, <1>3, <2>1 DEF WatchInv, Looked
<1> QED BY <1>5, <1>6, <1>7, <1>8, <1>9 DEF WatchInv

(* The silence is no longer than the transit of what still arrives, and    *)
(* what still arrives finds the last watchdog younger than the limit.      *)
LEMMA ArrivalInTime ==
  ASSUME WatchInv, NEW s \in Site, s \notin hung, run[s] # "stopped", net[s] # <<>>
  PROVE  silence <= MaxDelay /\ last_rxed[s] < Limit
<1>1. 1 \in DOMAIN net[s]
  BY TailFacts DEF WatchInv, TypeOK
<1>2. silence <= net[s][1].age /\ net[s][1].age \in 0 .. MaxDelay /\ silence \in Nat
  BY <1>1, MessageFacts DEF WatchInv, TypeOK, Silence
<1>3. last_sent[Peer(s)] \in 0 .. Period /\ last_rxed[s] \in Nat
  BY PeerFacts DEF WatchInv, TypeOK
<1>4. CASE last_rxed[s] <= last_sent[Peer(s)] + silence
  BY <1>2, <1>3, <1>4, TimeAssumption DEF Limit
<1>5. CASE OnItsWay(s)
  <2>1. PICK i \in DOMAIN net[s] : last_rxed[s] <= Period + net[s][i].age
    BY <1>5 DEF OnItsWay
  <2>2. net[s][i].age \in 0 .. MaxDelay
    BY MessageFacts DEF WatchInv
  <2> QED BY <1>2, <1>3, <2>1, <2>2, TimeAssumption DEF Limit
<1> QED BY <1>4, <1>5 DEF WatchInv, Fresh

LEMMA StartStep ==
  ASSUME WatchInv, NEW s \in Site, Start(s)
  PROVE  WatchInv'
<1> DEFINE p == Peer(s)
<1>1. p \in Site /\ p # s /\ Peer(p) = s /\ \A t \in Site : t = s \/ t = p
  BY PeerFacts
<1> HIDE DEF p
<1>2. /\ run[s] = "new" /\ s \notin hung /\ net[s] # <<>>
      /\ net' = [net EXCEPT ![s] = Tail(@)] /\ run' = [run EXCEPT ![s] = "top"]
      /\ UNCHANGED <<last_sent, last_rxed, to_sec, hung, silence>>
  BY DEF Start
<1>3. /\ net[s] \in Seq(Message) /\ net'[s] = Tail(net[s]) /\ net'[p] = net[p]
      /\ run'[s] = "top" /\ run'[p] = run[p] /\ last_rxed[s] = 0
  BY <1>1, <1>2 DEF WatchInv, TypeOK, Cycle
<1>4. /\ Tail(net[s]) \in Seq(Message)
      /\ \A i \in DOMAIN Tail(net[s]) : i + 1 \in DOMAIN net[s] /\ Tail(net[s])[i] = net[s][i + 1]
  BY <1>2, <1>3, TailFacts
<1>5. TypeOK' /\ Cycle'
  BY <1>1, <1>2, <1>3, <1>4 DEF WatchInv, TypeOK, Cycle
<1>6. Silence'
  BY <1>1, <1>2, <1>3, <1>4 DEF WatchInv, Silence
<1>7. Opening'
  BY <1>1, <1>2, <1>3 DEF WatchInv, Opening
<1>8. Fresh'
  <2>1. 0 <= last_sent[p] + silence
    BY <1>1 DEF WatchInv, TypeOK
  <2>2. OnItsWay(p)' = OnItsWay(p)
    BY <1>2, <1>3 DEF OnItsWay
  <2> QED BY <1>1, <1>2, <1>3, <2>1, <2>2 DEF WatchInv, Fresh, p
<1>9. Looked'
  <2>1. silence <= MaxDelay /\ last_rxed[s] < Limit
    BY <1>2, ArrivalInTime
  <2>2. silence <= last_rxed[s] + MaxDelay
    BY <1>3, <2>1, TimeAssumption
  <2> QED BY <1>1, <1>2, <1>3, <2>1, <2>2 DEF WatchInv, Looked
<1> QED BY <1>5, <1>6, <1>7, <1>8, <1>9 DEF WatchInv

LEMMA ReceiveStep ==
  ASSUME WatchInv, NEW s \in Site, Receive(s)
  PROVE  WatchInv'
<1> DEFINE p == Peer(s)
           m == [kind |-> "MessageAck", age |-> 0]
<1>1. /\ p \in Site /\ p # s /\ Peer(p) = s /\ \A t \in Site : t = s \/ t = p
      /\ m \in Message /\ m.age = 0
  BY PeerFacts, NewMessage
<1> HIDE DEF m, p
<1>2. /\ run[s] = "wait" /\ s \notin hung /\ net[s] # <<>>
      /\ run' = [run EXCEPT ![s] = "top"]
      /\ UNCHANGED <<last_sent, to_sec, hung, silence>>
      /\ net \in [Site -> Seq(Message)] /\ last_rxed \in [Site -> Nat]
  BY DEF Receive, WatchInv, TypeOK
<1>3. \/ /\ last_rxed' = [last_rxed EXCEPT ![s] = 0]
         /\ net' = [[net EXCEPT ![s] = Tail(@)] EXCEPT ![p] = Append(@, m)]
      \/ /\ Head(net[s]).kind # "Watchdog" /\ last_rxed' = last_rxed
         /\ net' = [net EXCEPT ![s] = Tail(@)]
  BY DEF Receive, m, p
<1>4. /\ net[s] \in Seq(Message) /\ net'[s] = Tail(net[s])
      /\ net[p] \in Seq(Message) /\ (net'[p] = Append(net[p], m) \/ net'[p] = net[p])
      /\ run'[s] = "top" /\ run'[p] = run[p]
      /\ last_rxed[s] \in Nat /\ last_rxed'[p] = last_rxed[p]
      /\ \/ last_rxed'[s] = 0
         \/ Head(net[s]).kind # "Watchdog" /\ last_rxed'[s] = last_rxed[s]
  BY <1>1, <1>2, <1>3 DEF WatchInv, TypeOK
<1>5. /\ Tail(net[s]) \in Seq(Message) /\ Head(net[s]) = net[s][1]
      /\ \A i \in DOMAIN net[s] :
            i = 1 \/ (i - 1 \in DOMAIN Tail(net[s]) /\ Tail(net[s])[i - 1] = net[s][i])
      /\ \A i \in DOMAIN Tail(net[s]) : i + 1 \in DOMAIN net[s] /\ Tail(net[s])[i] = net[s][i + 1]
  BY <1>2, <1>4, TailFacts
<1>6. /\ Append(net[p], m) \in Seq(Message) /\ Append(net[p], m) # <<>>
      /\ \A i \in DOMAIN net[p] :
            i \in DOMAIN Append(net[p], m) /\ Append(net[p], m)[i] = net[p][i]
      /\ \A i \in DOMAIN Append(net[p], m) : i \in DOMAIN net[p] \/ Append(net[p], m)[i] = m
  BY <1>1, <1>4, AppendFacts
<1>7. p \notin hung => hung = {} /\ silence = 0
  BY <1>1, <1>2, NobodyHangs DEF p
<1>8. last_rxed'[s] \in Nat /\ last_rxed'[s] <= last_rxed[s]
  BY <1>4
<1>9. TypeOK'
  <2>1. net' \in [Site -> Seq(Message)]
    BY <1>1, <1>2, <1>3, <1>4, <1>5, <1>6
  <2>2. last_rxed' \in [Site -> Nat]
    <3>1. last_rxed' = [last_rxed EXCEPT ![s] = 0] \/ last_rxed' = last_rxed
      BY <1>3
    <3> QED BY <1>2, <3>1
  <2> QED BY <1>2, <2>1, <2>2 DEF WatchInv, TypeOK
<1>10. Cycle'
  BY <1>1, <1>2, <1>4 DEF WatchInv, Cycle
<1>11. Silence'
  <2>1. ASSUME s \notin hung, NEW i \in DOMAIN net'[s] PROVE silence <= net'[s][i].age
    BY <1>2, <1>4, <1>5 DEF WatchInv, Silence
  <2>2. ASSUME p \notin hung, NEW i \in DOMAIN net'[p] PROVE silence <= net'[p][i].age
    <3>1. silence = 0 /\ \A j \in DOMAIN net[p] : silence <= net[p][j].age
      BY <1>1, <1>7, <2>2 DEF WatchInv, Silence
    <3>2. (i \in DOMAIN net[p] /\ net'[p][i] = net[p][i]) \/ net'[p][i] = m
      BY <1>4, <1>6, <2>2
    <3> QED BY <1>1, <3>1, <3>2
  <2> QED BY <1>1, <1>2, <1>4, <2>1, <2>2 DEF WatchInv, Silence
<1>12. Opening'
  <2>1. ASSUME run[p] = "new", p \notin hung
        PROVE  /\ net'[p] # <<>> /\ net'[p][1] = net[p][1] /\ last_rxed[s] <= net[p][1].age
               /\ net[p][1].age \in Nat
    <3>1. net[p] # <<>> /\ last_rxed[s] <= net[p][1].age
      BY <1>1, <2>1 DEF WatchInv, Opening
    <3>2. 1 \in DOMAIN net[p]
      BY <1>4, <3>1, TailFacts
    <3>3. net[p][1].age \in Nat
      BY <1>1, <3>2, MessageFacts DEF WatchInv
    <3> QED BY <1>4, <1>6, <3>1, <3>2, <3>3
  <2>2. ASSUME run[p] = "new", p \notin hung PROVE last_rxed'[s] <= net'[p][1].age
    BY <1>4, <1>8, <2>1, <2>2
  <2> QED BY <1>1, <1>2, <1>4, <2>1, <2>2 DEF Opening
<1>13. Fresh'
  <2>1. last_sent[p] + silence \in Nat /\ last_sent[s] + silence \in Nat
    BY <1>1 DEF WatchInv, TypeOK
  <2>2. OnItsWay(p) => OnItsWay(p)'
    BY <1>4, <1>6 DEF OnItsWay
  <2>3. OnItsWay(s)' \/ last_rxed'[s] <= last_sent[p] + silence
    <3>1. CASE last_rxed'[s] = 0
      BY <2>1, <3>1
    <3>2. CASE Head(net[s]).kind # "Watchdog" /\ last_rxed'[s] = last_rxed[s]
      <4>1. OnItsWay(s) => OnItsWay(s)'
        <5> SUFFICES ASSUME NEW i \in DOMAIN net[s], net[s][i].kind = "Watchdog",
                            last_rxed[s] <= Period + net[s][i].age
                     PROVE  OnItsWay(s)'
          BY DEF OnItsWay
        <5>1. i - 1 \in DOMAIN net'[s] /\ net'[s][i - 1] = net[s][i]
          BY <1>4, <1>5, <3>2
        <5> QED BY <3>2, <5>1 DEF OnItsWay
      <4>2. OnItsWay(s) \/ last_rxed[s] <= last_sent[p] + silence
        BY <1>2 DEF WatchInv, Fresh, p
      <4> QED BY <3>2, <4>1, <4>2
    <3> QED BY <1>4, <3>1, <3>2
  <2>4. p \notin hung /\ run[p] # "stopped" =>
            OnItsWay(p)' \/ last_rxed'[p] <= last_sent[s] + silence
    BY <1>1, <1>4, <2>2 DEF WatchInv, Fresh
  <2> QED BY <1>1, <1>2, <1>4, <2>3, <2>4 DEF Fresh, p
<1>14. Looked'
  <2>1. silence <= MaxDelay /\ last_rxed[s] < Limit /\ silence \in Nat /\ Limit \in Nat
    BY <1>2, ArrivalInTime, TimeAssumption DEF Limit, WatchInv, TypeOK
  <2>2. silence <= last_rxed'[s] + MaxDelay /\ last_rxed'[s] < Limit
    BY <1>4, <1>8, <2>1, TimeAssumption
  <2> QED BY <1>1, <1>2, <1>4, <2>2 DEF WatchInv, Looked
<1> QED BY <1>9, <1>10, <1>11, <1>12, <1>13, <1>14 DEF WatchInv

LEMMA TickStep ==
  ASSUME WatchInv, Tick
  PROVE  WatchInv'
<1>1. /\ run' = run /\ hung' = hung
      /\ last_sent' = [s \in Site |-> IF run[s] = "wait" /\ Live(s) THEN last_sent[s] + 1
                                      ELSE last_sent[s]]
      /\ last_rxed' = [s \in Site |-> IF run[s] = "wait" /\ Live(s) THEN last_rxed[s] + 1
                                      ELSE last_rxed[s]]
      /\ to_sec' = [s \in Site |-> IF run[s] = "wait" /\ Live(s) THEN to_sec[s] - 1
                                   ELSE to_sec[s]]
      /\ net' = [s \in Site |-> IF Live(s) THEN Aged(net[s]) ELSE <<>>]
      /\ silence' = IF hung = {} THEN 0 ELSE silence + 1
  BY DEF Tick
<1>2. /\ \A s \in Site : run[s] \in {"new", "top", "wait", "stopped"}
      /\ \A s \in Site : last_sent[s] \in 0 .. Period /\ to_sec[s] \in 0 .. Period
      /\ \A s \in Site : last_rxed[s] \in Nat /\ net[s] \in Seq(Message)
      /\ silence \in Nat /\ silence' \in Nat /\ silence' <= silence + 1
  BY <1>1 DEF WatchInv, TypeOK
<1>3. ASSUME NEW s \in Site, Live(s)
      PROVE  /\ run[s] \in {"new", "wait"} /\ (run[s] = "wait" => to_sec[s] > 0)
             /\ \A i \in DOMAIN net[s] : net[s][i].age < MaxDelay
  BY <1>2, <1>3 DEF Tick, Live
<1>4. ASSUME NEW s \in Site, Live(s)
      PROVE  /\ net'[s] = Aged(net[s]) /\ net'[s] \in Seq(Message)
             /\ DOMAIN net'[s] = DOMAIN net[s]
             /\ \A i \in DOMAIN net[s] :
                   /\ net'[s][i].kind = net[s][i].kind
                   /\ net'[s][i].age = net[s][i].age + 1
                   /\ net[s][i].age \in 0 .. MaxDelay
  <2>1. net'[s] = Aged(net[s])
    BY <1>1, <1>4
  <2>2. \A i \in DOMAIN net[s] : net[s][i].age \in 0 .. MaxDelay
    BY MessageFacts DEF WatchInv
  <2> QED BY <1>2, <1>3, <1>4, <2>1, <2>2, AgedFacts
<1>5. /\ \A s \in Site : last_rxed'[s] \in Nat /\ last_rxed'[s] <= last_rxed[s] + 1
      /\ \A s \in Site : ~(run[s] = "wait" /\ Live(s)) => last_rxed'[s] = last_rxed[s]
      /\ \A s \in Site : run[s] = "wait" /\ Live(s) =>
            /\ last_rxed'[s] = last_rxed[s] + 1
            /\ to_sec'[s] = to_sec[s] - 1
            /\ last_sent'[s] = last_sent[s] + 1
      /\ \A s \in Site : ~(run[s] = "wait" /\ Live(s)) =>
            to_sec'[s] = to_sec[s] /\ last_sent'[s] = last_sent[s]
  BY <1>1, <1>2
<1>6. TypeOK'
  <2>1. ASSUME NEW s \in Site
        PROVE  last_sent'[s] \in 0 .. Period /\ to_sec'[s] \in 0 .. Period
    <3>1. CASE run[s] = "wait" /\ Live(s)
      <4>1. last_sent[s] + to_sec[s] = Period /\ to_sec[s] > 0
        BY <1>3, <3>1 DEF WatchInv, Cycle
      <4>2. last_sent'[s] = last_sent[s] + 1 /\ to_sec'[s] = to_sec[s] - 1
        BY <1>5, <3>1
      <4> QED BY <1>2, <4>1, <4>2, TimeAssumption
    <3>2. CASE ~(run[s] = "wait" /\ Live(s))
      BY <1>2, <1>5, <3>2
    <3> QED BY <3>1, <3>2
  <2>2. ASSUME NEW s \in Site PROVE net'[s] \in Seq(Message)
    <3>1. CASE ~Live(s)
      BY <1>1, <3>1
    <3> QED BY <1>4, <3>1
  <2>3. /\ last_sent' \in [Site -> 0 .. Period] /\ to_sec' \in [Site -> 0 .. Period]
    BY <1>1, <2>1
  <2>4. last_rxed' \in [Site -> Nat] /\ net' \in [Site -> Seq(Message)]
    BY <1>1, <1>5, <2>2
  <2> QED BY <1>1, <1>2, <2>3, <2>4 DEF WatchInv, TypeOK
<1>7. Cycle'
  <2> SUFFICES ASSUME NEW s \in Site
               PROVE  /\ run[s] = "wait" => last_sent'[s] + to_sec'[s] = Period
                      /\ run[s] = "new" => last_sent'[s] = Period /\ last_rxed'[s] = 0
    BY <1>1 DEF Cycle
  <2>1. /\ run[s] = "wait" => last_sent[s] + to_sec[s] = Period
        /\ run[s] = "new" => last_sent[s] = Period /\ last_rxed[s] = 0
    BY DEF WatchInv, Cycle
  <2>2. CASE run[s] = "wait" /\ Live(s)
    <3>1. last_sent'[s] = last_sent[s] + 1 /\ to_sec'[s] = to_sec[s] - 1
      BY <1>5, <2>2
    <3>2. last_sent[s] \in Int /\ to_sec[s] \in Int
      BY <1>2, TimeAssumption
    <3>3. last_sent'[s] + to_sec'[s] = last_sent[s] + to_sec[s]
      BY <3>1, <3>2
    <3> QED BY <2>1, <2>2, <3>3
  <2>3. CASE ~(run[s] = "wait" /\ Live(s))
    BY <1>5, <2>1, <2>3
  <2> QED BY <2>2, <2>3
<1>8. Silence'
  <2>1. ASSUME NEW s \in Site \ hung, NEW i \in DOMAIN net'[s]
        PROVE  silence' <= net'[s][i].age
    <3>1. CASE Live(s)
      <4>1. i \in DOMAIN net[s] /\ net'[s][i].age = net[s][i].age + 1
            /\ net[s][i].age \in 0 .. MaxDelay
        BY <1>4, <2>1, <3>1
      <4>2. silence <= net[s][i].age
        BY <4>1 DEF WatchInv, Silence
      <4> QED BY <1>2, <4>1, <4>2, TimeAssumption
    <3>2. CASE ~Live(s)
      <4>1. net'[s] = <<>>
        BY <1>1, <3>2
      <4>2. DOMAIN <<>> = {}
        OBVIOUS
      <4> QED BY <2>1, <4>1, <4>2
    <3> QED BY <3>1, <3>2
  <2> QED BY <1>1, <2>1 DEF WatchInv, Silence
<1>9. Opening'
  <2> SUFFICES ASSUME NEW s \in Site, run[s] = "new", s \notin hung
               PROVE  net'[s] # <<>> /\ last_rxed'[Peer(s)] <= net'[s][1].age
    BY <1>1 DEF Opening
  <2>1. Live(s) /\ net[s] # <<>> /\ last_rxed[Peer(s)] <= net[s][1].age
    BY DEF Live, WatchInv, Opening
  <2>2. 1 \in DOMAIN net[s]
    BY <1>2, <2>1, TailFacts
  <2>3. 1 \in DOMAIN net'[s] /\ net'[s][1].age = net[s][1].age + 1
        /\ net[s][1].age \in 0 .. MaxDelay
    BY <1>4, <2>1, <2>2
  <2>4. net'[s] # <<>>
    BY <2>3
  <2>5. /\ last_rxed'[Peer(s)] <= last_rxed[Peer(s)] + 1
        /\ last_rxed[Peer(s)] \in Nat /\ last_rxed'[Peer(s)] \in Nat
    BY <1>2, <1>5, PeerFacts
  <2> QED BY <2>1, <2>3, <2>4, <2>5, TimeAssumption
<1>10. Fresh'
  <2> SUFFICES ASSUME NEW s \in Site, s \notin hung, run[s] # "stopped"
               PROVE  OnItsWay(s)' \/ last_rxed'[s] <= last_sent'[Peer(s)] + silence'
    BY <1>1 DEF Fresh
  <2> DEFINE p == Peer(s)
  <2>1. p \in Site /\ Peer(p) = s
    BY PeerFacts
  <2> HIDE DEF p
  <2>2. Live(s)
    BY DEF Live
  <2>3. CASE OnItsWay(s)
    <3>1. PICK i \in DOMAIN net[s] :
             net[s][i].kind = "Watchdog" /\ last_rxed[s] <= Period + net[s][i].age
      BY <2>3 DEF OnItsWay
    <3>2. /\ i \in DOMAIN net'[s] /\ net'[s][i].kind = "Watchdog"
          /\ net'[s][i].age = net[s][i].age + 1 /\ net[s][i].age \in 0 .. MaxDelay
      BY <1>4, <2>2, <3>1
    <3>3. last_rxed'[s] <= Period + net'[s][i].age
      <4>1. last_rxed'[s] <= last_rxed[s] + 1 /\ last_rxed'[s] \in Nat /\ last_rxed[s] \in Nat
        BY <1>2, <1>5
      <4> QED BY <3>1, <3>2, <4>1, TimeAssumption
    <3> QED BY <3>2, <3>3 DEF OnItsWay
  <2>4. CASE last_rxed[s] <= last_sent[p] + silence
    <3>1. CASE p \in hung
      <4>1. ~Live(p) /\ silence' = silence + 1
        BY <1>1, <3>1 DEF Live
      <4>2. last_sent'[p] = last_sent[p]
        BY <1>5, <2>1, <4>1
      <4>3. last_rxed'[s] <= last_sent'[p] + silence'
        BY <1>2, <1>5, <2>1, <2>4, <4>1, <4>2
      <4> QED BY <4>3 DEF p
    <3>2. CASE p \notin hung
      <4>1. hung = {} /\ silence = 0 /\ silence' = 0 /\ Live(p)
        BY <1>1, <2>1, <3>2, NobodyHangs DEF Live, p
      <4>2. CASE run[p] = "wait"
        <5>1. last_sent'[p] = last_sent[p] + 1
          BY <1>5, <2>1, <4>1, <4>2
        <5>2. last_rxed'[s] <= last_sent'[p] + silence'
          BY <1>2, <1>5, <2>1, <2>4, <4>1, <5>1
        <5> QED BY <5>2 DEF p
      <4>3. CASE run[p] = "new"
        <5>1. /\ net[p] # <<>> /\ last_rxed[s] <= net[p][1].age
              /\ last_sent[p] = Period /\ last_sent'[p] = last_sent[p]
          BY <1>5, <2>1, <3>2, <4>3 DEF WatchInv, Opening, Cycle
        <5>2. 1 \in DOMAIN net[p]
          BY <1>2, <2>1, <5>1, TailFacts
        <5>3. net[p][1].age < MaxDelay /\ net[p][1].age \in 0 .. MaxDelay
          BY <1>3, <1>4, <2>1, <4>1, <5>2
        <5>4. last_rxed'[s] <= last_sent'[p] + silence'
          BY <1>2, <1>5, <4>1, <5>1, <5>3, TimeAssumption
        <5> QED BY <5>4 DEF p
      <4> QED BY <1>3, <2>1, <4>1, <4>2, <4>3
    <3> QED BY <3>1, <3>2
  <2> QED BY <2>3, <2>4 DEF WatchInv, Fresh, p
<1>11. Looked'
  <2> SUFFICES ASSUME NEW s \in Site, s \notin hung, run[s] \in {"top", "wait"}
               PROVE  /\ run[s] = "top" => last_rxed'[s] < Limit
                      /\ run[s] = "wait" => last_rxed'[s] + to_sec'[s] < Limit + Period
                      /\ silence' <= last_rxed'[s] + MaxDelay
    BY <1>1 DEF Looked
  <2>1. Live(s)
    BY DEF Live
  <2>2. run[s] = "wait"
    BY <1>3, <2>1
  <2>3. /\ last_rxed[s] + to_sec[s] < Limit + Period
        /\ silence <= last_rxed[s] + MaxDelay
    BY <2>2 DEF WatchInv, Looked
  <2>4. last_rxed'[s] = last_rxed[s] + 1 /\ to_sec'[s] = to_sec[s] - 1
    BY <1>5, <2>1, <2>2
  <2> QED BY <1>2, <2>2, <2>3, <2>4, TimeAssumption DEF Limit
<1> QED BY <1>6, <1>7, <1>8, <1>9, <1>10, <1>11 DEF WatchInv

LEMMA WatchStutter ==
  ASSUME WatchInv, UNCHANGED vars
  PROVE  WatchInv'
BY DEF vars, WatchInv, TypeOK, Cycle, Silence, Opening, Fresh, OnItsWay, Looked

(* The bounds hold in every state of the supervision.                      *)
THEOREM WatchInvariant == Spec => []WatchInv
<1>1. ASSUME WatchInv, [Next]_vars PROVE WatchInv'
  BY <1>1, StartStep, BeatStep, ReceiveStep, WaitTimeoutStep, HangStep, TickStep, WatchStutter
  DEF Next
<1> QED BY <1>1, WatchStart, PTL DEF Spec

(* No session is stopped for a missing watchdog while both loops of        *)
(* external_receive run, whatever the period and the tolerance, as long as *)
(* no message takes as long as the tolerance.                              *)
THEOREM NoFalseAlarms == Spec => []NoFalseAlarm
<1>1. WatchInv => NoFalseAlarm
  BY PeerFacts DEF WatchInv, Silence, NoFalseAlarm
<1> QED BY <1>1, WatchInvariant, PTL

(* A peer that hangs is noticed by external_receive within two periods,    *)
(* the tolerance and a transit, for every value of the four.               *)
THEOREM HangsDetected == Spec => []DetectionBound
<1>1. ASSUME WatchInv PROVE DetectionBound
  <2> SUFFICES ASSUME silence > 2 * Period + Tolerance + MaxDelay,
                      NEW s \in Site, s \notin hung, run[s] \in {"top", "wait"}
               PROVE  FALSE
    BY <1>1 DEF DetectionBound, WatchInv, TypeOK
  <2>1. silence \in Nat /\ last_rxed[s] \in Nat /\ to_sec[s] \in 0 .. Period
    BY <1>1 DEF WatchInv, TypeOK
  <2>2. /\ last_rxed[s] < Limit \/ last_rxed[s] + to_sec[s] < Limit + Period
        /\ silence <= last_rxed[s] + MaxDelay
    BY <1>1 DEF WatchInv, Looked
  <2> QED BY <2>1, <2>2, TimeAssumption DEF Limit
<1> QED BY <1>1, WatchInvariant, PTL
-----------------------------------------------------------------------------
(* The application: the exchange of versions, then the supervision.        *)

Exchanged == INSTANCE VersionExchange_proofs WITH net <- channel

LEMMA SameSets ==
  /\ Versions!Site = Exchanged!Site /\ Versions!Kind = Exchanged!Kind
  /\ Versions!Msg = Exchanged!Msg /\ Versions!Phases = Exchanged!Phases
  /\ Versions!AckWanted = Exchanged!AckWanted
  BY DEF Versions!Site, Exchanged!Site, Versions!Kind, Exchanged!Kind, Versions!Msg,
     Exchanged!Msg, Versions!Phases, Exchanged!Phases, Versions!AckWanted,
     Exchanged!AckWanted

LEMMA SameNext == ASSUME Versions!Next PROVE Exchanged!Next
<1>1. Versions!Break => Exchanged!Break
  BY DEF Versions!Break, Exchanged!Break
<1>2. ASSUME NEW s \in Versions!Site, Versions!Receive(s) PROVE Exchanged!Receive(s)
  BY <1>2 DEF Versions!Receive, Exchanged!Receive
<1>3. ASSUME NEW s \in Versions!Site, Versions!callback_cyber_ready(s) PROVE Exchanged!callback_cyber_ready(s)
  BY <1>3 DEF Versions!callback_cyber_ready, Exchanged!callback_cyber_ready,
     Versions!Script, Exchanged!Script
<1>4. ASSUME NEW s \in Versions!Site, Versions!SendVersion(s) PROVE Exchanged!SendVersion(s)
  BY <1>4 DEF Versions!SendVersion, Exchanged!SendVersion, Versions!sendMessage,
     Exchanged!sendMessage, Versions!Peer, Exchanged!Peer, Versions!NextPhase,
     Exchanged!NextPhase, Versions!Script, Exchanged!Script
<1>5. ASSUME NEW s \in Versions!Site, Versions!WaitAck(s) PROVE Exchanged!WaitAck(s)
  BY <1>5 DEF Versions!WaitAck, Exchanged!WaitAck, Versions!NextPhase,
     Exchanged!NextPhase, Versions!Script, Exchanged!Script, Versions!Fail,
     Exchanged!Fail
<1>6. ASSUME NEW s \in Versions!Site, Versions!WaitVersion(s) PROVE Exchanged!WaitVersion(s)
  BY <1>6 DEF Versions!WaitVersion, Exchanged!WaitVersion, Versions!NextPhase,
     Exchanged!NextPhase, Versions!Script, Exchanged!Script, Versions!Fail,
     Exchanged!Fail, Versions!sendMessage, Exchanged!sendMessage, Versions!Peer,
     Exchanged!Peer
<1>7. ASSUME NEW s \in Versions!Site, Versions!StartExternal(s) PROVE Exchanged!StartExternal(s)
  BY <1>7 DEF Versions!StartExternal, Exchanged!StartExternal
<1>8. ASSUME NEW s \in Versions!Site, Versions!WaitTimeout(s) PROVE Exchanged!WaitTimeout(s)
  BY <1>8 DEF Versions!WaitTimeout, Exchanged!WaitTimeout, Versions!Fail,
     Exchanged!Fail
<1>9. ASSUME NEW s \in Versions!Site, Versions!SendPeriodic(s) PROVE Exchanged!SendPeriodic(s)
  BY <1>9 DEF Versions!SendPeriodic, Exchanged!SendPeriodic, Versions!sendMessage,
     Exchanged!sendMessage, Versions!Peer, Exchanged!Peer
<1>10. ASSUME NEW s \in Versions!Site, Versions!Handle(s) PROVE Exchanged!Handle(s)
  BY <1>10 DEF Versions!Handle, Exchanged!Handle, Versions!sendMessage,
     Exchanged!sendMessage, Versions!Peer, Exchanged!Peer, Versions!Answer,
     Exchanged!Answer, Versions!AckWanted, Exchanged!AckWanted
<1>11. ASSUME NEW s \in Versions!Site, Versions!WatchdogTimeout(s) PROVE Exchanged!WatchdogTimeout(s)
  BY <1>11 DEF Versions!WatchdogTimeout, Exchanged!WatchdogTimeout, Versions!Peer,
     Exchanged!Peer
<1>12. ASSUME NEW s \in Versions!Site, Versions!Closed(s) PROVE Exchanged!Closed(s)
  BY <1>12 DEF Versions!Closed, Exchanged!Closed
<1> QED BY SameSets, <1>1, <1>2, <1>3, <1>4, <1>5, <1>6, <1>7, <1>8, <1>9, <1>10,
     <1>11, <1>12 DEF Versions!Next, Exchanged!Next, Versions!Exchange,
     Exchanged!Exchange

LEMMA SameInOrder == ASSUME Exchanged!ExchangeInOrder PROVE ExchangeInOrder
<1>1. Versions!TypeOK
  BY SameSets DEF Exchanged!ExchangeInOrder, Versions!TypeOK, Exchanged!TypeOK
<1>2. Versions!AckIsForVersion /\ Versions!VersionArrivesFirst
  BY SameSets DEF Exchanged!ExchangeInOrder, Versions!AckIsForVersion,
     Exchanged!AckIsForVersion, Versions!VersionArrivesFirst,
     Exchanged!VersionArrivesFirst
<1>3. Versions!AnswersAreFinal
  BY SameSets DEF Exchanged!ExchangeInOrder, Versions!AnswersAreFinal,
     Exchanged!AnswersAreFinal, Versions!InFlight, Exchanged!InFlight
<1> QED BY <1>1, <1>2, <1>3 DEF ExchangeInOrder, Versions!ExchangeInOrder

(* In every state of the application, before and after the supervision     *)
(* begins, the waits of echange_versions meet their messages and           *)
(* external_receive answers no answer.                                     *)
THEOREM ApplicationInOrder == ApplicationSpec => []ExchangeInOrder
<1>1. ApplicationInit => Exchanged!ExchangeInv
  <2>1. Versions!Init => Exchanged!Init
    BY SameSets DEF Versions!Init, Exchanged!Init
  <2> QED BY <2>1, SitesDiffer, Exchanged!ExchangeInit DEF ApplicationInit
<1>2. Exchanged!ExchangeInv /\ [ApplicationNext]_allvars => Exchanged!ExchangeInv'
  <2> SUFFICES ASSUME Exchanged!ExchangeInv, [ApplicationNext]_allvars PROVE Exchanged!ExchangeInv'
    OBVIOUS
  <2>1. [Exchanged!Next]_(Exchanged!vars)
    <3>1. CASE Versions!Next
      BY <3>1, SameNext
    <3>2. CASE UNCHANGED exchange
      BY <3>2 DEF exchange, Exchanged!vars
    <3> QED BY <3>1, <3>2 DEF ApplicationNext, TakeOver, allvars
  <2> QED BY <2>1, SitesDiffer, Exchanged!ExchangeStep
<1>3. Exchanged!ExchangeInv => ExchangeInOrder
  <2>1. Exchanged!ExchangeInv => Exchanged!ExchangeInOrder
    BY SitesDiffer, Exchanged!WaitsMeet, Exchanged!AnswersEnd
       DEF Exchanged!ExchangeInOrder, Exchanged!ExchangeInv
  <2> QED BY <2>1, SameInOrder
<1> QED BY <1>1, <1>2, <1>3, PTL DEF ApplicationSpec

(* The supervision that takes over from the exchange is that of Watchdog:  *)
(* the application raises no false alarm and notices a peer that hangs     *)
(* (external_receive).                                                     *)
THEOREM ApplicationIsSupervised == ApplicationSpec => [](NoFalseAlarm /\ DetectionBound)
<1>1. ApplicationInit => Init
  BY DEF ApplicationInit
<1>2. [ApplicationNext]_allvars => [Next]_vars
  BY DEF ApplicationNext, TakeOver, allvars
<1> QED BY <1>1, <1>2, NoFalseAlarms, HangsDetected, PTL DEF ApplicationSpec, Spec
=============================================================================
