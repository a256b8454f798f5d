------------------------------ MODULE Listener ------------------------------
(***************************************************************************)
(* The server: transport_listen accepts connections and gives each one a   *)
(* thread, which hands it over to the session layer through the event      *)
(* INCOMING_CONNECTION, lives as long as the session and closes the socket *)
(* (transport.c, event.c, cyber.c); at exit cyber_atexit frees every       *)
(* session still in the list.  Sockets are numbers that the system gives   *)
(* out again once they are closed.                                         *)
(***************************************************************************)
EXTENDS Integers, FiniteSets

CONSTANTS Conn,         \* the connections that peers attempt
          Fd,           \* numbers of sockets
          MAX_THREADS,  \* entries of the array threads
          ShadowCloses  \* close of a shadow FLUX closes the socket (library)

ASSUME ListenerAssumption ==
    /\ MAX_THREADS \in Nat
    /\ ShadowCloses \in BOOLEAN
    /\ IsFiniteSet(Conn) /\ IsFiniteSet(Fd) /\ Cardinality(Fd) > Cardinality(Conn)
    /\ {"none", "server"} \intersect (Conn \union Fd) = {}

VARIABLES
    listener,      \* the thread of transport_listen: "off", "on" or "ended"
    subscription,  \* event_callbacks of INCOMING_CONNECTION: nothing, the
                   \* callback without its subscriber yet, or both
    thread_count,
    conn,          \* conn[c]: where connection c is
    fd,            \* fd[c]: the number of its socket
    owner,         \* owner[f]: connection whose socket has number f, or "none"
    cyber_list,    \* _cyber_list: the sessions, and "server" for the listener's
    process        \* main: "run", "exit", "crashed" or "ended"

listener_vars == <<listener, subscription, thread_count, conn, fd, owner, cyber_list, process>>

ConnStates == {"away", "waiting", "refused", "new", "start", "alive", "stopped",
               "unheard", "closed"}

ListenerTypeOK ==
    /\ listener \in {"off", "on", "ended"}
    /\ subscription \in {"none", "callback", "both"}
    /\ thread_count \in 0 .. MAX_THREADS
    /\ conn \in [Conn -> ConnStates]
    /\ fd \in [Conn -> Fd \union {"none"}]
    /\ owner \in [Fd -> Conn \union {"none"}]
    /\ cyber_list \subseteq Conn \union {"server"}
    /\ process \in {"run", "exit", "crashed", "ended"}

\* main has created the transport and the session of the listener.
ListenerInit ==
    /\ listener = "off" /\ subscription = "none" /\ thread_count = 0
    /\ conn = [c \in Conn |-> "away"]
    /\ fd = [c \in Conn |-> "none"]
    /\ owner = [f \in Fd |-> "none"]
    /\ cyber_list = {"server"}
    /\ process = "run"

Live == process \in {"run", "exit"}

Free == {f \in Fd : owner[f] = "none"}

-----------------------------------------------------------------------------
(* Starting: the thread first, the subscription after it.                  *)

transport_start ==
    /\ Live /\ listener = "off"
    /\ listener' = "on"
    /\ UNCHANGED <<subscription, thread_count, conn, fd, owner, cyber_list, process>>

\* subscribe_event writes the callback, then the subscriber, without a lock.
subscribe_event ==
    /\ Live /\ listener # "off" /\ subscription # "both"
    /\ subscription' = IF subscription = "none" THEN "callback" ELSE "both"
    /\ UNCHANGED <<listener, thread_count, conn, fd, owner, cyber_list, process>>

-----------------------------------------------------------------------------
(* transport_listen.                                                       *)

\* A peer connects: the system queues it.
Connect(c) ==
    /\ conn[c] = "away" /\ listener = "on"
    /\ conn' = [conn EXCEPT ![c] = "waiting"]
    /\ UNCHANGED <<listener, subscription, thread_count, fd, owner, cyber_list, process>>

Full == thread_count >= MAX_THREADS

\* Mutant: with all entries used up the loop goes on before accept.
Refuse_NotWhenFull(c) ==
    /\ Live /\ listener = "on" /\ conn[c] = "waiting" /\ ~Full
    /\ conn' = [conn EXCEPT ![c] = "refused"]
    /\ thread_count' = thread_count + 1
    /\ UNCHANGED <<listener, subscription, fd, owner, cyber_list, process>>

\* accept gave a socket, which is closed again: no entry left, no memory, or
\* no thread, for which the entry is used up all the same.
Refuse(c) ==
    /\ Live /\ listener = "on" /\ conn[c] = "waiting"
    /\ conn' = [conn EXCEPT ![c] = "refused"]
    /\ \/ UNCHANGED thread_count
       \/ ~Full /\ thread_count' = thread_count + 1
    /\ UNCHANGED <<listener, subscription, fd, owner, cyber_list, process>>

\* Mutant: the listener closes the socket it has handed to the thread.
Accept_ClosesSocket(c) ==
    /\ Live /\ listener = "on" /\ conn[c] = "waiting" /\ ~Full
    /\ \E f \in Free : fd' = [fd EXCEPT ![c] = f]
    /\ conn' = [conn EXCEPT ![c] = "new"]
    /\ thread_count' = thread_count + 1
    /\ UNCHANGED <<listener, subscription, owner, cyber_list, process>>

\* Mutant: the entry is not counted.
Accept_KeepsCount(c) ==
    /\ Live /\ listener = "on" /\ conn[c] = "waiting" /\ ~Full
    /\ \E f \in Free : /\ fd' = [fd EXCEPT ![c] = f]
                       /\ owner' = [owner EXCEPT ![f] = c]
    /\ conn' = [conn EXCEPT ![c] = "new"]
    /\ UNCHANGED <<listener, subscription, thread_count, cyber_list, process>>

\* The connection gets an entry and a thread.
Accept(c) ==
    /\ Live /\ listener = "on" /\ conn[c] = "waiting" /\ ~Full
    /\ \E f \in Free : /\ fd' = [fd EXCEPT ![c] = f]
                       /\ owner' = [owner EXCEPT ![f] = c]
    /\ conn' = [conn EXCEPT ![c] = "new"]
    /\ thread_count' = thread_count + 1
    /\ UNCHANGED <<listener, subscription, cyber_list, process>>

\* accept fails: the function returns and nobody accepts any more.
AcceptFails(c) ==
    /\ Live /\ listener = "on" /\ conn[c] = "waiting"
    /\ listener' = "ended"
    /\ UNCHANGED <<subscription, thread_count, conn, fd, owner, cyber_list, process>>

-----------------------------------------------------------------------------
(* handle_connection and callback_incoming_connection.                     *)

\* The number of the socket is closed, whoever it belongs to by now.
Closed(f) == [owner EXCEPT ![f] = "none"]

\* No FLUX for the socket.
NoFlux(c) ==
    /\ Live /\ conn[c] = "new"
    /\ conn' = [conn EXCEPT ![c] = "closed"]
    /\ owner' = Closed(fd[c])
    /\ UNCHANGED <<listener, subscription, thread_count, fd, cyber_list, process>>

\* trigger_event: without a callback the connection is closed again; with a
\* callback whose subscriber is still NULL the process faults.
trigger_event(c) ==
    /\ Live /\ conn[c] = "new"
    /\ \/ /\ subscription = "none"
          /\ conn' = [conn EXCEPT ![c] = "unheard"]
          /\ owner' = Closed(fd[c])
          /\ UNCHANGED <<cyber_list, process>>
       \/ /\ subscription = "callback"
          /\ process' = "crashed"
          /\ UNCHANGED <<conn, owner, cyber_list>>
       \/ /\ subscription = "both"
          /\ conn' = [conn EXCEPT ![c] = "start"]
          /\ cyber_list' = cyber_list \union {c}
          /\ UNCHANGED <<owner, process>>
    /\ UNCHANGED <<listener, subscription, thread_count, fd>>

\* The session of the connection is started, and runs until something stops it.
StartSession(c) ==
    /\ Live /\ conn[c] = "start"
    /\ conn' = [conn EXCEPT ![c] = "alive"]
    /\ UNCHANGED <<listener, subscription, thread_count, fd, owner, cyber_list, process>>

\* The exchange of ciphers failed or _stop was called: the FLUX is closed.
StopSession(c) ==
    /\ Live /\ conn[c] \in {"start", "alive"}
    /\ conn' = [conn EXCEPT ![c] = "stopped"]
    /\ owner' = IF ShadowCloses THEN Closed(fd[c]) ELSE owner
    /\ UNCHANGED <<listener, subscription, thread_count, fd, cyber_list, process>>

\* Mutant: the thread leaves the socket open.
EndThread_LeavesSocket(c) ==
    /\ Live /\ conn[c] = "stopped"
    /\ conn' = [conn EXCEPT ![c] = "closed"]
    /\ UNCHANGED <<listener, subscription, thread_count, fd, owner, cyber_list, process>>

\* The thread looks at stop every second, then closes its socket.  The session
\* stays in the list and the entry of the thread is not given back.
EndThread(c) ==
    /\ Live /\ conn[c] = "stopped"
    /\ conn' = [conn EXCEPT ![c] = "closed"]
    /\ owner' = Closed(fd[c])
    /\ UNCHANGED <<listener, subscription, thread_count, fd, cyber_list, process>>

-----------------------------------------------------------------------------
(* The end of the process.                                                 *)

\* Stop was set: main returns and the functions of atexit run.
Exit ==
    /\ process = "run" /\ subscription = "both"
    /\ process' = "exit"
    /\ UNCHANGED <<listener, subscription, thread_count, conn, fd, owner, cyber_list>>

\* cyber_atexit frees the sessions one after the other; _stop of the listener's
\* closes a FLUX it never had.
cyber_atexit ==
    /\ process = "exit"
    /\ \E s \in cyber_list :
          /\ cyber_list' = cyber_list \ {s}
          /\ \/ s = "server" /\ process' = "crashed" /\ UNCHANGED <<conn, owner>>
             \/ /\ s # "server" /\ UNCHANGED process
                /\ conn' = [conn EXCEPT ![s] = IF @ \in {"start", "alive"} THEN "stopped"
                                               ELSE @]
                /\ owner' = IF ShadowCloses /\ conn[s] \in {"start", "alive"}
                            THEN Closed(fd[s]) ELSE owner
    /\ UNCHANGED <<listener, subscription, thread_count, fd>>

Handle(c) == NoFlux(c) \/ trigger_event(c) \/ StartSession(c)

ListenerNext ==
    \/ transport_start \/ subscribe_event
    \/ \E c \in Conn : \/ Connect(c) \/ Refuse(c) \/ Accept(c) \/ AcceptFails(c)
                       \/ Handle(c) \/ StopSession(c) \/ EndThread(c)
    \/ Exit \/ cyber_atexit

ListenerSpec == ListenerInit /\ [][ListenerNext]_listener_vars

\* Threads are scheduled; nothing makes a peer connect, a session stop or the
\* process end.
FairListenerSpec ==
    /\ ListenerSpec
    /\ WF_listener_vars(transport_start) /\ WF_listener_vars(subscribe_event)
    /\ \A c \in Conn : /\ WF_listener_vars(Refuse(c) \/ Accept(c))
                       /\ WF_listener_vars(Handle(c)) /\ WF_listener_vars(EndThread(c))

-----------------------------------------------------------------------------
(* Properties.                                                             *)

\* A session's socket is its own until its thread closes it: no other thread
\* of handle_connection closes the number or is given it meanwhile (if closing
\* a shadow FLUX leaves the socket open).
OwnSocket ==
    \A c \in Conn : conn[c] \in {"new", "start", "alive"} => owner[fd[c]] = c

\* The entries used up are never fewer than the threads that run, so that two
\* sessions never share one, whatever failed on the way.
EntryPerThread ==
    Cardinality({c \in Conn : conn[c] \in {"new", "start", "alive", "stopped"}})
        <= thread_count

\* A peer in the queue of a listener that runs is served or refused, whatever
\* the other sessions do.
PeerIsAnswered ==
    \A c \in Conn : (conn[c] = "waiting") ~> (conn[c] # "waiting" \/ listener = "ended" \/ ~Live)

\* The socket of a session that ended is given back to the system.
SocketIsReleased ==
    \A c \in Conn : (conn[c] = "stopped") ~> (~Live \/ \A f \in Fd : owner[f] # c)

\* transport.c:125 refuses a peer for "Reached maximum number of threads": when
\* the entries are used up, that many threads run.
FullMeansBusy ==
    Full => Cardinality({c \in Conn : conn[c] \in {"new", "start", "alive", "stopped"}})
                = MAX_THREADS

\* handle_connection hands the connection over to the session layer, "afin
\* qu'elle crée un nouvel objet cyber" (transport.c:505): an accepted peer never
\* finds nobody listening to the event, nor half a subscription.
HandedOver ==
    /\ \A c \in Conn : conn[c] # "unheard"
    /\ process = "crashed" => "server" \notin cyber_list

\* cyber_atexit "Ferme tous les flux ouverts" (cyber.c:1966) and the process
\* ends: freeing the sessions never faults.
ExitIsClean == process = "crashed" => subscription = "callback"
=============================================================================
