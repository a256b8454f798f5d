--------------------------- MODULE SessionThreads ---------------------------
(***************************************************************************)
(* The threads of one client session, from _start to cyber->free: the three*)
(* tasks of the session, the thread of the application that callback_cyber *)
(* _ready creates, the challenge timer, and main.  Any of main, receive,   *)
(* the timer and the application may call _stop, which tests and sets a    *)
(* plain flag, closes the transport and joins the tasks one after the other*)
(* (cyber.c, thread.c, main.c).                                            *)
(***************************************************************************)
EXTENDS Integers, FiniteSets

CONSTANTS Stoppers  \* the threads that may call _stop besides main

Task == {"receive", "send", "internal"}
Thread == Task \union {"external"}
Caller == {"main", "receive", "timer", "external"}

ASSUME StoppersAssumption == Stoppers \subseteq Caller \ {"main"}

VARIABLES
    Stop,      \* main.c: the signal handler or a failed start asked to end
    stop,      \* priv->stop
    flux,      \* the flux of the transport: "null", "open" or "closed"
    main,      \* where main is
    thread,    \* thread[t]: where the routine of t is
    started,   \* is_started of t
    joiner,    \* joiner[t]: the thread that called pthread_join on t, or "none"
    timer,     \* timer_timeout_resp: "none", "armed" or "fired" (still not NULL)
    caller,    \* caller[c]: where c is in _stop
    entered,   \* the callers that found stop unset
    lost,      \* EVENT_TYPE_CYBER_LOST has been triggered
    freed      \* cyber->free has released the session

vars == <<Stop, stop, flux, main, thread, started, joiner, timer, caller,
          entered, lost, freed>>

StopSteps == {"out", "test", "set", "transport", "receive", "timer", "internal",
              "send", "lost"}

TypeOK ==
    /\ {Stop, stop, lost, freed} \subseteq BOOLEAN
    /\ flux \in {"null", "open", "closed"}
    /\ main \in {"start", "receive", "send", "internal", "settle", "run",
                 "stop", "join", "free", "end", "crashed"}
    /\ thread \in [Thread -> {"none", "new", "loop", "work", "stop", "ended"}]
    /\ started \in [Thread -> BOOLEAN]
    /\ joiner \in [Thread -> Caller \union {"none"}]
    /\ timer \in {"none", "armed", "fired"}
    /\ caller \in [Caller -> StopSteps]
    /\ entered \subseteq Caller

Init ==
    /\ Stop = FALSE /\ stop = FALSE
    /\ flux = "null"
    /\ main = "start"
    /\ thread = [t \in Thread |-> "none"]
    /\ started = [t \in Thread |-> FALSE]
    /\ joiner = [t \in Thread |-> "none"]
    /\ timer = "none"
    /\ caller = [c \in Caller |-> "out"]
    /\ entered = {} /\ lost = FALSE /\ freed = FALSE

session == <<stop, timer, caller, entered, lost, freed>>

-----------------------------------------------------------------------------
(* Threads (thread.c).                                                     *)

\* pthread_create has returned: the routine has not run yet.
pthread_start(t) == thread' = [thread EXCEPT ![t] = "new"]

\* pthread_starter raises is_started from the new thread, then runs the loop.
pthread_starter(t) ==
    /\ thread[t] = "new"
    /\ thread' = [thread EXCEPT ![t] = "loop"]
    /\ started' = [started EXCEPT ![t] = TRUE]
    /\ UNCHANGED <<Stop, flux, main, joiner, session>>

\* Mutant: a thread that joins itself waits for its own end.
JoinSelf(c, t) == started[t] /\ joiner[t] \in {"none", c}

\* _pthread_stop waits for a started thread.  pthread_join returns at once for
\* the calling thread itself (EDEADLK) and for one already joined (EINVAL).
JoinWaits(c, t) == started[t] /\ c # t /\ joiner[t] \in {"none", c}

\* The caller of _pthread_stop blocks in pthread_join.
Join(c, t) ==
    /\ caller[c] = t /\ JoinWaits(c, t) /\ joiner[t] = "none"
    /\ joiner' = [joiner EXCEPT ![t] = c]
    /\ UNCHANGED <<Stop, flux, main, thread, started, session>>

-----------------------------------------------------------------------------
(* _stop (cyber.c).                                                        *)

Step(c, label) == caller' = [caller EXCEPT ![c] = label]

\* Mutant: CYBER_LOST is triggered before the send task is joined.
NextStepEarly == [receive |-> "timer", internal |-> "lost", send |-> "lost"]

\* Mutant: the end of _stop is not awaited before the session is freed.
MainJoinsEarly ==
    /\ main = "stop"
    /\ main' = IF started["external"] THEN "join" ELSE "free"
    /\ UNCHANGED <<Stop, flux, thread, started, joiner, session>>

\* Mutant: the application waits for the session to run, not for Stop.
LoopEndsNever(t) == t # "external" /\ stop

\* Mutant: the pointer of the deleted timer is kept.
StopTimerTwice(c) ==
    /\ caller[c] = "timer"
    /\ timer' = "deleted"
    /\ Step(c, "internal")
    /\ UNCHANGED <<Stop, stop, flux, main, thread, started, joiner, entered, lost, freed>>

\* The flag is tested, then set: two callers may both find it unset.
StopTest(c) ==
    /\ caller[c] = "test"
    /\ Step(c, IF stop THEN "out" ELSE "set")
    /\ entered' = IF stop THEN entered ELSE entered \union {c}
    /\ UNCHANGED <<Stop, stop, flux, main, thread, started, joiner, timer, lost, freed>>

StopSet(c) ==
    /\ caller[c] = "set"
    /\ stop' = TRUE
    /\ Step(c, "transport")
    /\ UNCHANGED <<Stop, flux, main, thread, started, joiner, timer, entered, lost, freed>>

\* transport_stop closes the flux; there is none if the transport never had one.
StopTransport(c) ==
    /\ caller[c] = "transport"
    /\ \/ flux = "null" /\ main' = "crashed" /\ UNCHANGED <<flux, caller>>
       \/ flux # "null" /\ flux' = "closed" /\ Step(c, "receive") /\ UNCHANGED main
    /\ UNCHANGED <<Stop, stop, thread, started, joiner, timer, entered, lost, freed>>

NextStep == [receive |-> "timer", internal |-> "send", send |-> "lost"]

\* pthread_join returned, or there was nothing to wait for.
StopJoined(c, t) ==
    /\ caller[c] = t /\ ~JoinWaits(c, t)
    /\ Step(c, NextStep[t])
    /\ UNCHANGED <<Stop, stop, flux, main, thread, started, joiner, timer, entered, lost, freed>>

\* stopTimerResponse deletes the timer before the task that arms it is joined.
StopTimer(c) ==
    /\ caller[c] = "timer"
    /\ timer' = "none"
    /\ Step(c, "internal")
    /\ UNCHANGED <<Stop, stop, flux, main, thread, started, joiner, entered, lost, freed>>

\* callback_cyber_lost only logs.
StopLost(c) ==
    /\ caller[c] = "lost"
    /\ lost' = TRUE
    /\ Step(c, "out")
    /\ UNCHANGED <<Stop, stop, flux, main, thread, started, joiner, timer, entered, freed>>

_stop(c) ==
    \/ StopTest(c) \/ StopSet(c) \/ StopTransport(c) \/ StopTimer(c) \/ StopLost(c)
    \/ \E t \in Task : Join(c, t) \/ StopJoined(c, t)

\* A thread calls _stop and waits for it to return.
CallStop(c) == Step(c, "test") /\ thread' = [thread EXCEPT ![c] = "stop"]

-----------------------------------------------------------------------------
(* The loops of the threads.                                               *)

\* The condition of the loop: priv->stop for the tasks; the application tests
\* that the method isRunning exists, which it always does, and Stop.
LoopEnds(t) == IF t = "external" THEN Stop ELSE stop

LoopTest(t) ==
    /\ thread[t] = "loop"
    /\ thread' = [thread EXCEPT ![t] = IF LoopEnds(t) THEN "ended" ELSE "work"]
    /\ started' = [started EXCEPT ![t] = ~LoopEnds(t)]
    /\ UNCHANGED <<Stop, flux, main, joiner, session>>

\* One iteration that leaves the threads as they are.
LoopWork(t) ==
    /\ thread[t] = "work"
    /\ thread' = [thread EXCEPT ![t] = "loop"]
    /\ UNCHANGED <<Stop, flux, main, started, joiner, session>>

\* _start has returned: its sleep of a second is shorter than the 60 seconds
\* of the timer and the 90 seconds without a watchdog.
Settled == main \in {"run", "stop", "join", "free"}

\* cyber_receive on a lost connection, external_receive without a watchdog.
LoopCallsStop(t) ==
    /\ t \in Stoppers \intersect Thread
    /\ t = "external" => Settled
    /\ thread[t] = "work"
    /\ CallStop(t)
    /\ UNCHANGED <<Stop, stop, flux, main, started, joiner, timer, entered, lost, freed>>

LoopStopped(t) ==
    /\ thread[t] = "stop" /\ caller[t] = "out"
    /\ thread' = [thread EXCEPT ![t] = "loop"]
    /\ UNCHANGED <<Stop, flux, main, started, joiner, session>>

\* The internal task arms or disarms the challenge timer.
InternalTimer ==
    /\ thread["internal"] = "work"
    /\ timer' \in {"none", "armed"} \ {timer}
    /\ thread' = [thread EXCEPT !["internal"] = "loop"]
    /\ UNCHANGED <<Stop, stop, flux, main, started, joiner, caller, entered, lost, freed>>

\* The AllClear exchange is complete: callback_cyber_ready exchanges the
\* versions and creates the thread of the application.
InternalReady ==
    /\ thread["internal"] = "work" /\ thread["external"] = "none"
    /\ thread' = [thread EXCEPT !["internal"] = "loop", !["external"] = "new"]
    /\ UNCHANGED <<Stop, flux, main, started, joiner, session>>

\* handler_timeout_challenge runs in the thread of the timers.
TimerFires ==
    /\ timer = "armed" /\ "timer" \in Stoppers /\ caller["timer"] = "out"
    /\ Settled
    /\ timer' = "fired"
    /\ Step("timer", "test")
    /\ UNCHANGED <<Stop, stop, flux, main, thread, started, joiner, entered, lost, freed>>

-----------------------------------------------------------------------------
(* main (main.c), and _start for the creation of the tasks.                *)

\* The transport or the negotiation fails: main records it in Stop.
StartFails ==
    /\ main = "start"
    /\ flux' \in {"null", "closed"}
    /\ Stop' = TRUE
    /\ main' = "run"
    /\ UNCHANGED <<thread, started, joiner, session>>

StartSucceeds ==
    /\ main = "start"
    /\ flux' = "open"
    /\ main' = "receive"
    /\ UNCHANGED <<Stop, thread, started, joiner, session>>

NextTask == [receive |-> "send", send |-> "internal", internal |-> "settle"]

StartTask ==
    /\ main \in Task
    /\ pthread_start(main)
    /\ main' = NextTask[main]
    /\ UNCHANGED <<Stop, flux, started, joiner, session>>

\* sleep(1) "until the threads are initialised": taken to be long enough.
Settle ==
    /\ main = "settle"
    /\ \A t \in Task : thread[t] # "new"
    /\ main' = "run"
    /\ UNCHANGED <<Stop, flux, thread, started, joiner, session>>

fstop ==
    /\ ~Stop /\ main # "start"
    /\ Stop' = TRUE
    /\ UNCHANGED <<flux, main, thread, started, joiner, session>>

MainStops ==
    /\ main = "run" /\ Stop
    /\ main' = "stop"
    /\ Step("main", "test")
    /\ UNCHANGED <<Stop, stop, flux, thread, started, joiner, timer, entered, lost, freed>>

\* _stop returned: join the thread of the application if it has started.
MainJoins ==
    /\ main = "stop" /\ caller["main"] = "out"
    /\ main' = IF started["external"] THEN "join" ELSE "free"
    /\ UNCHANGED <<Stop, flux, thread, started, joiner, session>>

MainJoined ==
    /\ main = "join" /\ ~started["external"]
    /\ main' = "free"
    /\ UNCHANGED <<Stop, flux, thread, started, joiner, session>>

\* _cyber_free: its own call of stop finds the flag set and does nothing.
MainFrees ==
    /\ main = "free"
    /\ freed' = TRUE
    /\ timer' = "none"
    /\ main' = "end"
    /\ UNCHANGED <<Stop, stop, flux, thread, started, joiner, caller, entered, lost>>

MainSteps == StartFails \/ StartSucceeds \/ StartTask \/ Settle \/ MainStops
                \/ MainJoins \/ MainJoined \/ MainFrees

ThreadSteps(t) ==
    pthread_starter(t) \/ LoopTest(t) \/ LoopWork(t) \/ LoopCallsStop(t) \/ LoopStopped(t)

\* The process has not ended or faulted.
Running == main \notin {"end", "crashed"}

Next ==
    \/ Running /\ (MainSteps \/ fstop)
    \/ Running /\ \E c \in Caller : _stop(c)
    \/ Running /\ \E t \in Thread : ThreadSteps(t)
    \/ Running /\ (InternalTimer \/ InternalReady \/ TimerFires)

Spec == Init /\ [][Next]_vars

\* Every thread is eventually scheduled; nothing forces a signal, a lost
\* connection or a timeout.
FairSpec ==
    /\ Spec
    /\ WF_vars(Running /\ MainSteps)
    /\ \A c \in Caller : WF_vars(Running /\ _stop(c))
    /\ \A t \in Thread : WF_vars(Running /\ (pthread_starter(t) \/ LoopTest(t)))
    /\ \A t \in Thread : WF_vars(Running /\ (LoopWork(t) \/ LoopStopped(t)))

-----------------------------------------------------------------------------
(* Properties.                                                             *)

TasksEnded == \A t \in Task : thread[t] \in {"none", "ended"}
NoCaller == \A c \in Caller : caller[c] = "out"

\* When a single thread other than the receive task executed _stop, its event
\* CYBER_LOST comes after the last step of the tasks: no message is handled
\* behind the back of a subscriber that was told the link is closed.
LostMeansQuiet ==
    lost /\ Cardinality(entered) = 1 /\ "receive" \notin entered => TasksEnded

\* When main is the one that executed _stop, it frees the session after the
\* tasks ended and no thread is inside _stop; only the handler of a timer the
\* internal task armed too late may be about to find the flag set.
MainStopIsClean ==
    freed /\ entered = {"main"} =>
        TasksEnded /\ \A c \in Caller : caller[c] = "out" \/ <<c, caller[c]>> = <<"timer", "test">>

\* What _stop and free promise whoever stops the session: nothing goes on
\* behind the event CYBER_LOST or in a session that main stopped and freed.
StopIsOrderly == TypeOK /\ LostMeansQuiet /\ MainStopIsClean

\* Why the stop is orderly, for the proofs.  is_started is raised while the
\* routine of a thread runs, and only then can the thread be inside _stop.
StartedWhileRunning ==
    /\ \A t \in Thread : started[t] <=> thread[t] \in {"loop", "work", "stop"}
    /\ \A t \in Thread \intersect Caller : caller[t] # "out" => thread[t] = "stop"

\* The tasks are created in order and only once there is a flux; main goes on
\* when none of them is about to start, whatever thread calls _stop meanwhile.
Started == main \notin {"start", "settle"} \union Task
Created ==
    /\ main \in {"start", "receive"} => thread["receive"] = "none"
    /\ main \in {"start", "receive", "send"} => thread["send"] = "none"
    /\ main # "settle" /\ ~Started => thread["internal"] = "none"
    /\ main = "start" => flux = "null"
    /\ flux = "null" => \A t \in Thread : thread[t] = "none"
    /\ main \in {"settle"} \union Task => flux # "null"
    /\ Started => \A t \in Task : thread[t] # "new"

\* Where main is tells whether it is in _stop, and whether the application
\* can still call it.
MainInStop ==
    /\ caller["main"] # "out" => main \in {"stop", "crashed"}
    /\ main \in {"free", "end"} => Stop /\ thread["external"] \notin {"work", "stop"}
    /\ main \in {"stop", "join"} => Stop
    /\ freed => main = "end"

\* The threads that execute _stop found the flag unset, they alone join, and
\* but for the receive task they do so when all the tasks have been created.
Entered ==
    /\ \A c \in Caller : caller[c] \notin {"out", "test"} => c \in entered
    /\ \A c \in entered : lost \/ caller[c] \notin {"out", "test"}
    /\ \A c \in Caller \ {"receive"} : c \in entered \/ caller[c] # "out" => Started
    /\ \A t \in Thread : joiner[t] \in entered \union {"none"}
    /\ lost => entered # {}

\* What the one thread that executes _stop has joined: each task behind it.
Quiet(t) == thread[t] \in {"none", "ended"}
JoinedBy(c) ==
    /\ caller[c] \in {"timer", "internal", "send", "lost"} => Quiet("receive")
    /\ caller[c] \in {"send", "lost"} => Quiet("internal")
    /\ caller[c] = "lost" => Quiet("send")
Joined ==
    \A c \in Caller \ {"receive"} : entered = {c} => JoinedBy(c) /\ (lost => TasksEnded)

StopInv ==
    /\ TypeOK /\ StartedWhileRunning /\ Created /\ MainInStop /\ Entered /\ Joined
    /\ MainStopIsClean

\* However many threads enter _stop at once, and even when the receive task
\* stops its own session, every task ends and every call of _stop returns.
StopCompletes == stop ~> (~Running \/ (TasksEnded /\ NoCaller))

\* A process asked to end does end, whoever is stopping its session.
ProcessEnds == Stop ~> ~Running

\* _cyber_free stops the threads ("arrêt du thread", cyber.c:1537) and then
\* releases what they use.
FreedAfterThreads == freed => TasksEnded /\ NoCaller
=============================================================================
