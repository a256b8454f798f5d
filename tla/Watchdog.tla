------------------------------ MODULE Watchdog ------------------------------
(***************************************************************************)
(* The supervision of a session by the loop of external_receive (main.c): a*)
(* watchdog is sent every watchdog_period_sec, each one received is noted  *)
(* and acknowledged, and a wait that ends without a message looks whether  *)
(* the last watchdog is older than the period and the tolerance.  Time     *)
(* advances in ticks (10 seconds in the instances); a message is at most   *)
(* MaxDelay ticks on its way; the loop itself takes no time.               *)
(***************************************************************************)
EXTENDS Integers, Sequences

CONSTANTS Follower, Leader,
          Period,     \* watchdog_period_sec, in ticks
          Tolerance,  \* tolerance_sec, in ticks
          MaxDelay,   \* bound on the transit of a message, in ticks
          Hanging     \* the sites that may hang with their connection open

Site == {Follower, Leader}
Peer(s) == IF s = Follower THEN Leader ELSE Follower

ASSUME SitesDiffer == Follower # Leader
ASSUME TimeAssumption ==
    /\ Period \in Nat \ {0} /\ Tolerance \in Nat /\ MaxDelay \in Nat
    /\ MaxDelay < Tolerance /\ Tolerance <= Period  \* 30 and 60 seconds
ASSUME HangingAssumption == Hanging \subseteq Site

VARIABLES
    run,         \* run[s]: external_receive of s: "new", "top", "wait" or "stopped"
    last_sent,   \* last_sent[s]: ticks since s sent a watchdog
    last_rxed,   \* last_rxed[s]: ticks since s received one, or since its start
    to_sec,      \* to_sec[s]: ticks left in waitForMessage
    net,         \* net[s]: messages on their way to s, with their age
    hung,        \* the sites that hang
    silence      \* ticks since the first hang

vars == <<run, last_sent, last_rxed, to_sec, net, hung, silence>>

Message == [kind : {"Watchdog", "MessageAck"}, age : 0 .. MaxDelay]

TypeOK ==
    /\ run \in [Site -> {"new", "top", "wait", "stopped"}]
    /\ last_sent \in [Site -> 0 .. Period]
    /\ last_rxed \in [Site -> Nat]
    /\ to_sec \in [Site -> 0 .. Period]
    /\ net \in [Site -> Seq(Message)]
    /\ hung \subseteq Hanging
    /\ silence \in Nat

\* The follower, whose acknowledgement ends the exchange of versions, runs
\* first; last_sent is set a period back to force a first watchdog.
Init ==
    /\ run = [s \in Site |-> IF s = Follower THEN "top" ELSE "new"]
    /\ last_sent = [s \in Site |-> Period]
    /\ last_rxed = [s \in Site |-> 0]
    /\ to_sec = [s \in Site |-> 0]
    /\ net = [s \in Site |-> IF s = Leader THEN <<[kind |-> "MessageAck", age |-> 0]>>
                                           ELSE <<>>]
    /\ hung = {} /\ silence = 0

Sent(s, kind) == [net EXCEPT ![Peer(s)] = Append(@, [kind |-> kind, age |-> 0])]

\* The leader takes the acknowledgement of its Version and starts its thread.
Start(s) ==
    /\ run[s] = "new" /\ s \notin hung /\ net[s] # <<>>
    /\ net' = [net EXCEPT ![s] = Tail(@)]
    /\ run' = [run EXCEPT ![s] = "top"]
    /\ UNCHANGED <<last_sent, last_rxed, to_sec, hung, silence>>

\* Mutant: last_sent is not refreshed by the watchdog.
BeatNotNoted(s) ==
    /\ run[s] = "top" /\ s \notin hung
    /\ net' = IF last_sent[s] >= Period THEN Sent(s, "Watchdog") ELSE net
    /\ to_sec' = [to_sec EXCEPT ![s] = Period]
    /\ run' = [run EXCEPT ![s] = "wait"]
    /\ UNCHANGED <<last_sent, last_rxed, hung, silence>>

\* The head of the loop: a watchdog when the period is over, then a wait until
\* the next one is due, of at least a second.
Beat(s) ==
    LET due == last_sent[s] >= Period
    IN  /\ run[s] = "top" /\ s \notin hung
        /\ net' = IF due THEN Sent(s, "Watchdog") ELSE net
        /\ last_sent' = [last_sent EXCEPT ![s] = IF due THEN 0 ELSE @]
        /\ to_sec' = [to_sec EXCEPT ![s] = Period - last_sent'[s]]
        /\ run' = [run EXCEPT ![s] = "wait"]
        /\ UNCHANGED <<last_rxed, hung, silence>>

\* A message ends the wait; the age of the last watchdog is not looked at.
Receive(s) ==
    /\ run[s] = "wait" /\ s \notin hung /\ net[s] # <<>>
    /\ LET rest == [net EXCEPT ![s] = Tail(@)]
       IN  IF Head(net[s]).kind = "Watchdog"
           THEN /\ last_rxed' = [last_rxed EXCEPT ![s] = 0]
                /\ net' = [rest EXCEPT ![Peer(s)] =
                              Append(@, [kind |-> "MessageAck", age |-> 0])]
           ELSE net' = rest /\ UNCHANGED last_rxed
    /\ run' = [run EXCEPT ![s] = "top"]
    /\ UNCHANGED <<last_sent, to_sec, hung, silence>>

\* Mutants: the tolerance is forgotten; the limit is counted on top of itself.
ExpiredAtPeriod(s) == last_rxed[s] >= Period
ExpiredTwice(s) == last_rxed[s] >= 2 * (Period + Tolerance)

Expired(s) == last_rxed[s] >= Period + Tolerance

\* The wait ends without a message, at its term or before (the condition may
\* be woken early and the remaining time is computed with the wrong sign): the
\* age of the last watchdog decides whether the session is stopped.
WaitTimeout(s) ==
    /\ run[s] = "wait" /\ s \notin hung
    /\ \A i \in DOMAIN net[s] : net[s][i].age < MaxDelay
    /\ run' = [run EXCEPT ![s] = IF Expired(s) THEN "stopped" ELSE "top"]
    /\ UNCHANGED <<last_sent, last_rxed, to_sec, net, hung, silence>>

\* A site stops doing anything: a blocked process or a dead link.
Hang(s) ==
    /\ s \in Hanging /\ hung = {}
    /\ hung' = {s}
    /\ UNCHANGED <<run, last_sent, last_rxed, to_sec, net, silence>>

Live(s) == s \notin hung /\ run[s] # "stopped"

Aged(q) == [i \in DOMAIN q |-> [kind |-> q[i].kind, age |-> q[i].age + 1]]

\* A tick passes when every loop is in a wait that is not over and every
\* message can still be on its way.
Tick ==
    /\ \A s \in Site : Live(s) =>
          /\ run[s] = "wait" => to_sec[s] > 0
          /\ run[s] # "top"
          /\ \A i \in DOMAIN net[s] : net[s][i].age < MaxDelay
    /\ \E s \in Site : Live(s)
    /\ last_sent' = [s \in Site |-> IF run[s] = "wait" /\ Live(s) THEN last_sent[s] + 1
                                    ELSE last_sent[s]]
    /\ last_rxed' = [s \in Site |-> IF run[s] = "wait" /\ Live(s) THEN last_rxed[s] + 1
                                    ELSE last_rxed[s]]
    /\ to_sec' = [s \in Site |-> IF run[s] = "wait" /\ Live(s) THEN to_sec[s] - 1
                                 ELSE to_sec[s]]
    /\ net' = [s \in Site |->
                 IF Live(s) THEN Aged(net[s]) ELSE <<>>]
    /\ silence' = IF hung = {} THEN 0 ELSE silence + 1
    /\ UNCHANGED <<run, hung>>

Next ==
    \/ \E s \in Site : Start(s) \/ Beat(s) \/ Receive(s) \/ WaitTimeout(s) \/ Hang(s)
    \/ Tick

Spec == Init /\ [][Next]_vars

-----------------------------------------------------------------------------
(* Properties.                                                             *)

\* No false alarm: while both sites run and no message is late by the
\* tolerance, neither stops the session for a missing watchdog.
NoFalseAlarm == hung = {} => \A s \in Site : run[s] # "stopped"

\* A peer that hangs is noticed: the age of the last watchdog is looked at only
\* when a wait times out, hence a second period on top of the tolerance.
DetectionBound ==
    silence > 2 * Period + Tolerance + MaxDelay =>
        \A s \in Site \ hung : run[s] \in {"stopped", "new"}
=============================================================================
