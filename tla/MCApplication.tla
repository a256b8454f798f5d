---------------------------- MODULE MCApplication ----------------------------
(***************************************************************************)
(* The application of two sites (main.c): the exchange of versions, with   *)
(* the traffic after it, and from the moment the follower has sent the     *)
(* acknowledgement that ends it, the supervision by watchdogs in detail.   *)
(* The supervision takes over in the state the exchange is in.             *)
(***************************************************************************)
EXTENDS Watchdog

CONSTANTS MaxTimeouts, MaxSent

VARIABLES supervised,
          allClearRxed, phase, ext, stop, link, channel, external_q, sent, version,
          timeouts, handledLate

Versions == INSTANCE VersionExchange WITH net <- channel

exchange == <<allClearRxed, phase, ext, stop, link, channel, external_q, sent, version,
              timeouts, handledLate>>
allvars == <<supervised, vars, exchange>>

ApplicationInit == supervised = FALSE /\ Versions!Init /\ Init

Kinds(q) == [i \in DOMAIN q |-> q[i].kind]

\* The initial state of Watchdog: the follower's loop is about to begin, the
\* leader waits for the acknowledgement, which alone is on its way.
TakeOver ==
    /\ ~supervised /\ link
    /\ \A s \in Site :
        /\ ~stop[s] /\ external_q[s] = <<>>
        /\ run[s] = "top" <=> ext[s]
        /\ run[s] = "new" <=> phase[s] = "waitAck"
        /\ Kinds(channel[s]) = Kinds(net[s])
    /\ supervised' = TRUE
    /\ UNCHANGED <<vars, exchange>>

ApplicationNext ==
    \/ ~supervised /\ Versions!Next /\ UNCHANGED <<supervised, vars>>
    \/ TakeOver
    \/ supervised /\ Next /\ UNCHANGED <<supervised, exchange>>

ApplicationSpec == ApplicationInit /\ [][ApplicationNext]_allvars /\ Versions!Fairness

-----------------------------------------------------------------------------
(* The properties of the application; those of Watchdog keep their names.  *)

\* Each wait of the exchange of versions, which compares no identifier, meets the
\* message it is for, and no answer is answered (echange_versions,
\* external_receive).
ExchangeInOrder == Versions!ExchangeInOrder

\* With no timeout and no break both applications end up running
\* (echange_versions).
BothRun == Versions!BothRun

\* A side that runs does not stay with a peer whose exchange failed: the
\* watchdog ends the session on both sides (external_receive).
NoOneSidedSession == Versions!NoOneSidedSession
=============================================================================
