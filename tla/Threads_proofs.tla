--------------------------- MODULE Threads_proofs ---------------------------
(***************************************************************************)
(* Proofs about the threads, of one session and of the server, and about   *)
(* the queues between them.  Whichever threads may call _stop, nothing     *)
(* goes on behind the event CYBER_LOST of the thread that stopped the      *)
(* session, nor in a session that main stopped and freed.  For any number  *)
(* of connections, sockets and entries of the array, the sockets of the    *)
(* sessions are not mixed up, and the entries used up are at least the     *)
(* threads that run.  For any number of queues, producers and entries, no  *)
(* entry is in two places at once, and the queues are FIFOs.               *)
(***************************************************************************)
EXTENDS SessionThreads, Listener, MsgQueue, SequenceTheorems, FiniteSetTheorems, TLAPS

-----------------------------------------------------------------------------
(* The threads of a session.                                               *)

LEMMA Names ==
  /\ Task = {"receive", "send", "internal"}
  /\ Thread = {"receive", "send", "internal", "external"}
  /\ Thread \intersect Caller = {"receive", "external"}
  /\ Caller \ {"receive"} = {"main", "timer", "external"}
  /\ \A c \in Caller : c # "receive" => c \notin Task
BY DEF Task, Thread, Caller

LEMMA StopStart == Init => StopInv
<1> SUFFICES ASSUME Init PROVE StopInv
  OBVIOUS
<1>1. TypeOK
  BY DEF Init, TypeOK, Thread, Task, Caller, StopSteps
<1>2. StartedWhileRunning /\ Created /\ MainInStop
  BY DEF Init, StartedWhileRunning, Created, MainInStop, Started, Thread, Task, Caller
<1>3. Entered /\ Joined /\ MainStopIsClean
  BY DEF Init, Entered, Joined, MainStopIsClean, Thread, Task, Caller
<1> QED BY <1>1, <1>2, <1>3 DEF StopInv

(* The steps that leave the threads inside _stop, and those who entered it, *)
(* as they are.                                                            *)
LEMMA EnteredSame ==
  ASSUME Entered, UNCHANGED <<caller, entered, joiner, lost>>, Started => Started'
  PROVE  Entered'
BY DEF Entered

(* A task that has ended, or was never created by the time main goes on,   *)
(* stays so.                                                               *)
LEMMA JoinedSame ==
  ASSUME Entered, Joined, UNCHANGED <<caller, entered, lost>>,
         Started => \A t \in Task : Quiet(t) => Quiet(t)'
  PROVE  Joined'
<1>1. ASSUME NEW c \in Caller \ {"receive"}, entered = {c} PROVE Started
  BY <1>1 DEF Entered
<1> QED BY <1>1 DEF Joined, JoinedBy, Quiet, TasksEnded, Task

(* Nothing runs in a process that has freed its session.                   *)
LEMMA NotFreed ==
  ASSUME MainInStop, Running, UNCHANGED freed
  PROVE  MainStopIsClean'
BY DEF MainInStop, Running, MainStopIsClean

-----------------------------------------------------------------------------
(* The steps of the threads.                                               *)

(* What such a step has to respect: no task starts again, and no iteration *)
(* of the application begins once main is past its end.                    *)
LEMMA ThreadMoves ==
  ASSUME StopInv, Running, TypeOK', StartedWhileRunning', Created',
         UNCHANGED <<Stop, stop, flux, main, joiner, caller, entered, lost, freed>>,
         thread'["external"] \in {"work", "stop"} => thread["external"] \in {"work", "stop"} \/ ~Stop,
         \A t \in Task : Quiet(t) => Quiet(t)'
  PROVE  StopInv'
<1>1. TypeOK /\ Entered /\ Joined /\ MainInStop
  BY DEF StopInv
<1>2. MainInStop'
  BY <1>1 DEF MainInStop
<1>3. Entered'
  BY <1>1, EnteredSame DEF Started
<1> QED BY <1>1, <1>2, <1>3, JoinedSame, NotFreed DEF StopInv

LEMMA StopStarter ==
  ASSUME StopInv, Running, NEW t \in Thread, pthread_starter(t)
  PROVE  StopInv'
<1> USE Names DEF StopInv
<1>1. UNCHANGED <<Stop, stop, flux, main, joiner, caller, entered, lost, freed>>
  BY DEF pthread_starter, session
<1>2. TypeOK' /\ StartedWhileRunning'
  BY <1>1 DEF TypeOK, StartedWhileRunning, pthread_starter, session
<1>3. Created'
  BY <1>1 DEF Created, Started, TypeOK, pthread_starter, session
<1>4. /\ thread'["external"] \in {"work", "stop"} => thread["external"] \in {"work", "stop"}
      /\ \A u \in Task : Quiet(u) => Quiet(u)'
  BY DEF Quiet, TypeOK, pthread_starter, session
<1> HIDE DEF StopInv
<1> QED BY <1>1, <1>2, <1>3, <1>4, ThreadMoves

LEMMA StopLoopWork ==
  ASSUME StopInv, Running, NEW t \in Thread, LoopWork(t)
  PROVE  StopInv'
<1> USE Names DEF StopInv
<1>1. UNCHANGED <<Stop, stop, flux, main, joiner, caller, entered, lost, freed>>
  BY DEF LoopWork, session
<1>2. TypeOK' /\ StartedWhileRunning'
  BY <1>1 DEF TypeOK, StartedWhileRunning, LoopWork, session
<1>3. Created'
  BY <1>1 DEF Created, Started, TypeOK, LoopWork, session
<1>4. /\ thread'["external"] \in {"work", "stop"} => thread["external"] \in {"work", "stop"}
      /\ \A u \in Task : Quiet(u) => Quiet(u)'
  BY DEF Quiet, TypeOK, LoopWork, session
<1> HIDE DEF StopInv
<1> QED BY <1>1, <1>2, <1>3, <1>4, ThreadMoves

LEMMA StopLoopStopped ==
  ASSUME StopInv, Running, NEW t \in Thread, LoopStopped(t)
  PROVE  StopInv'
<1> USE Names DEF StopInv
<1>1. UNCHANGED <<Stop, stop, flux, main, joiner, caller, entered, lost, freed>>
  BY DEF LoopStopped, session
<1>2. TypeOK' /\ StartedWhileRunning'
  BY <1>1 DEF TypeOK, StartedWhileRunning, LoopStopped, session
<1>3. Created'
  BY <1>1 DEF Created, Started, TypeOK, LoopStopped, session
<1>4. /\ thread'["external"] \in {"work", "stop"} => thread["external"] \in {"work", "stop"}
      /\ \A u \in Task : Quiet(u) => Quiet(u)'
  BY DEF Quiet, TypeOK, LoopStopped, session
<1> HIDE DEF StopInv
<1> QED BY <1>1, <1>2, <1>3, <1>4, ThreadMoves

LEMMA StopInternalTimer ==
  ASSUME StopInv, Running, InternalTimer
  PROVE  StopInv'
<1> USE Names DEF StopInv
<1>1. UNCHANGED <<Stop, stop, flux, main, joiner, caller, entered, lost, freed>>
  BY DEF InternalTimer
<1>2. TypeOK' /\ StartedWhileRunning'
  BY <1>1 DEF TypeOK, StartedWhileRunning, InternalTimer
<1>3. Created'
  BY <1>1 DEF Created, Started, TypeOK, InternalTimer
<1>4. /\ thread'["external"] \in {"work", "stop"} => thread["external"] \in {"work", "stop"}
      /\ \A u \in Task : Quiet(u) => Quiet(u)'
  BY DEF Quiet, TypeOK, InternalTimer
<1> HIDE DEF StopInv
<1> QED BY <1>1, <1>2, <1>3, <1>4, ThreadMoves

LEMMA StopInternalReady ==
  ASSUME StopInv, Running, InternalReady
  PROVE  StopInv'
<1> USE Names DEF StopInv
<1>1. UNCHANGED <<Stop, stop, flux, main, joiner, caller, entered, lost, freed>>
  BY DEF InternalReady, session
<1>2. TypeOK' /\ StartedWhileRunning'
  BY <1>1 DEF TypeOK, StartedWhileRunning, InternalReady, session
<1>3. Created'
  BY <1>1 DEF Created, Started, TypeOK, InternalReady, session
<1>4. /\ thread'["external"] \in {"work", "stop"} => thread["external"] \in {"work", "stop"}
      /\ \A u \in Task : Quiet(u) => Quiet(u)'
  BY DEF Quiet, TypeOK, InternalReady, session
<1> HIDE DEF StopInv
<1> QED BY <1>1, <1>2, <1>3, <1>4, ThreadMoves

LEMMA StopLoopTest ==
  ASSUME StopInv, Running, NEW t \in Thread, LoopTest(t)
  PROVE  StopInv'
<1> USE Names DEF StopInv
<1>1. UNCHANGED <<Stop, stop, flux, main, joiner, timer, caller, entered, lost, freed>>
  BY DEF LoopTest, session
<1>2. PICK b \in BOOLEAN : b <=> LoopEnds(t)
  OBVIOUS
<1>3. /\ thread[t] = "loop"
      /\ thread' = [thread EXCEPT ![t] = IF b THEN "ended" ELSE "work"]
      /\ started' = [started EXCEPT ![t] = ~b]
  BY <1>2 DEF LoopTest
<1>4. TypeOK'
  BY <1>1, <1>3 DEF TypeOK
<1>5. StartedWhileRunning'
  <2>1. CASE b
    BY <1>1, <1>3, <2>1 DEF StartedWhileRunning, TypeOK
  <2>2. CASE ~b
    BY <1>1, <1>3, <2>2 DEF StartedWhileRunning, TypeOK
  <2> QED BY <2>1, <2>2
<1>6. Created'
  BY <1>1, <1>3 DEF Created, Started, TypeOK
<1>7. thread'["external"] \in {"work", "stop"} => thread["external"] \in {"work", "stop"} \/ ~Stop
  BY <1>2, <1>3 DEF LoopEnds, TypeOK
<1>8. \A u \in Task : Quiet(u) => Quiet(u)'
  BY <1>3 DEF Quiet, TypeOK
<1> HIDE DEF StopInv
<1> QED BY <1>1, <1>4, <1>5, <1>6, <1>7, <1>8, ThreadMoves

(* A thread calls _stop: it is inside, and the application only once main  *)
(* has gone on.                                                            *)
LEMMA StopLoopCallsStop ==
  ASSUME StopInv, Running, NEW t \in Thread, LoopCallsStop(t)
  PROVE  StopInv'
<1> USE Names DEF StopInv
<1>1. /\ UNCHANGED <<Stop, stop, flux, main, started, joiner, timer, entered, lost, freed>>
      /\ thread[t] = "work" /\ thread' = [thread EXCEPT ![t] = "stop"]
      /\ caller' = [caller EXCEPT ![t] = "test"]
      /\ t \in {"receive", "external"} /\ (t = "external" => Settled)
  BY StoppersAssumption DEF LoopCallsStop, CallStop, Step
<1>2. caller[t] = "out"
  BY <1>1 DEF StartedWhileRunning
<1>3. TypeOK' /\ StartedWhileRunning'
  BY <1>1 DEF TypeOK, StartedWhileRunning, StopSteps
<1>4. Created' /\ MainInStop'
  BY <1>1 DEF Created, MainInStop, Started, TypeOK
<1>5. Entered'
  BY <1>1, <1>2 DEF Entered, Started, Settled, TypeOK
<1>6. Joined'
  BY <1>1, <1>2 DEF Joined, JoinedBy, Quiet, TasksEnded, TypeOK
<1> HIDE DEF StopInv
<1> QED BY <1>1, <1>3, <1>4, <1>5, <1>6, NotFreed DEF StopInv

(* The same for the handler of the challenge timer.                        *)
LEMMA StopTimerFires ==
  ASSUME StopInv, Running, TimerFires
  PROVE  StopInv'
<1> USE Names DEF StopInv
<1>1. /\ UNCHANGED <<Stop, stop, flux, main, thread, started, joiner, entered, lost, freed>>
      /\ caller["timer"] = "out" /\ caller' = [caller EXCEPT !["timer"] = "test"]
      /\ timer' = "fired" /\ Settled
  BY DEF TimerFires, Step
<1>2. TypeOK' /\ StartedWhileRunning'
  BY <1>1 DEF TypeOK, StartedWhileRunning, StopSteps
<1>3. Created' /\ MainInStop'
  BY <1>1 DEF Created, MainInStop, Started, TypeOK
<1>4. Entered'
  BY <1>1 DEF Entered, Started, Settled, TypeOK
<1>5. Joined'
  BY <1>1 DEF Joined, JoinedBy, Quiet, TasksEnded, TypeOK
<1> HIDE DEF StopInv
<1> QED BY <1>1, <1>2, <1>3, <1>4, <1>5, NotFreed DEF StopInv

-----------------------------------------------------------------------------
(* The steps of _stop.  None of them touches the routine of a thread.      *)
LEMMA InsideStop ==
  ASSUME StopInv, Running, NEW c \in Caller, NEW l \in StopSteps,
         caller[c] # "out", caller' = [caller EXCEPT ![c] = l],
         UNCHANGED <<Stop, thread, started, freed>>,
         main' = main, flux' = flux \/ (flux # "null" /\ flux' = "closed")
  PROVE  StartedWhileRunning' /\ Created' /\ MainInStop' /\ MainStopIsClean'
<1> USE Names DEF StopInv
<1>1. StartedWhileRunning'
  BY DEF StartedWhileRunning, TypeOK
<1>2. Created'
  BY DEF Created, Started
<1>3. MainInStop'
  BY DEF MainInStop, TypeOK
<1> HIDE DEF StopInv
<1> QED BY <1>1, <1>2, <1>3, NotFreed DEF StopInv

LEMMA StopStopTest ==
  ASSUME StopInv, Running, NEW c \in Caller, StopTest(c)
  PROVE  StopInv'
<1> USE Names DEF StopInv
<1>1. PICK b \in BOOLEAN : b = stop
  BY DEF TypeOK
<1>2. /\ caller[c] = "test" /\ caller' = [caller EXCEPT ![c] = IF b THEN "out" ELSE "set"]
      /\ entered' = IF b THEN entered ELSE entered \union {c}
      /\ UNCHANGED <<Stop, stop, flux, main, thread, started, joiner, timer, lost, freed>>
  BY <1>1 DEF StopTest, Step
<1>3. TypeOK'
  BY <1>2 DEF TypeOK, StopSteps
<1>4. StartedWhileRunning' /\ Created' /\ MainInStop' /\ MainStopIsClean'
  BY <1>2, InsideStop DEF StopSteps
<1>5. Entered'
  BY <1>2 DEF Entered, Started, TypeOK
<1>6. Joined'
  BY <1>2 DEF Joined, JoinedBy, Quiet, TasksEnded, TypeOK, Entered
<1> HIDE DEF StopInv
<1> QED BY <1>3, <1>4, <1>5, <1>6 DEF StopInv

LEMMA StopStopSet ==
  ASSUME StopInv, Running, NEW c \in Caller, StopSet(c)
  PROVE  StopInv'
<1> USE Names DEF StopInv
<1>1. /\ caller[c] = "set" /\ caller' = [caller EXCEPT ![c] = "transport"] /\ stop' = TRUE
      /\ UNCHANGED <<Stop, flux, main, thread, started, joiner, timer, entered, lost, freed>>
  BY DEF StopSet, Step
<1>2. TypeOK'
  BY <1>1 DEF TypeOK, StopSteps
<1>3. StartedWhileRunning' /\ Created' /\ MainInStop' /\ MainStopIsClean'
  BY <1>1, InsideStop DEF StopSteps
<1>4. Entered' /\ Joined'
  BY <1>1 DEF Entered, Started, TypeOK, Joined, JoinedBy, Quiet, TasksEnded
<1> HIDE DEF StopInv
<1> QED BY <1>2, <1>3, <1>4 DEF StopInv

LEMMA StopStopTransport ==
  ASSUME StopInv, Running, NEW c \in Caller, StopTransport(c)
  PROVE  StopInv'
<1> USE Names DEF StopInv
<1>1. /\ caller[c] = "transport"
      /\ UNCHANGED <<Stop, stop, thread, started, joiner, timer, entered, lost, freed>>
  BY DEF StopTransport
<1>2. CASE flux = "null" /\ main' = "crashed" /\ UNCHANGED <<flux, caller>>
  <2>1. TypeOK' /\ StartedWhileRunning'
    BY <1>1, <1>2 DEF TypeOK, StartedWhileRunning
  <2>2. Created' /\ MainInStop' /\ Started'
    BY <1>1, <1>2 DEF Created, MainInStop, Started, Running
  <2>3. Entered' /\ Joined' /\ MainStopIsClean'
    <3> HIDE DEF StopInv
    <3>1. \A t \in Task : Quiet(t) => Quiet(t)'
      BY <1>1 DEF Quiet
    <3> QED BY <1>1, <1>2, <2>2, <3>1, EnteredSame, JoinedSame, NotFreed DEF StopInv
  <2> HIDE DEF StopInv
  <2> QED BY <2>1, <2>2, <2>3 DEF StopInv
<1>3. CASE /\ flux # "null" /\ flux' = "closed" /\ UNCHANGED main
           /\ caller' = [caller EXCEPT ![c] = "receive"]
  <2>1. TypeOK'
    BY <1>1, <1>3 DEF TypeOK, StopSteps
  <2>2. StartedWhileRunning' /\ Created' /\ MainInStop' /\ MainStopIsClean'
    BY <1>1, <1>3, InsideStop DEF StopSteps
  <2>3. Entered' /\ Joined'
    BY <1>1, <1>3 DEF Entered, Started, TypeOK, Joined, JoinedBy, Quiet, TasksEnded
  <2> HIDE DEF StopInv
  <2> QED BY <2>1, <2>2, <2>3 DEF StopInv
<1> HIDE DEF StopInv
<1> QED BY <1>2, <1>3 DEF StopTransport, Step

LEMMA StopStopTimer ==
  ASSUME StopInv, Running, NEW c \in Caller, StopTimer(c)
  PROVE  StopInv'
<1> USE Names DEF StopInv
<1>1. /\ caller[c] = "timer" /\ caller' = [caller EXCEPT ![c] = "internal"] /\ timer' = "none"
      /\ UNCHANGED <<Stop, stop, flux, main, thread, started, joiner, entered, lost, freed>>
  BY DEF StopTimer, Step
<1>2. TypeOK'
  BY <1>1 DEF TypeOK, StopSteps
<1>3. StartedWhileRunning' /\ Created' /\ MainInStop' /\ MainStopIsClean'
  BY <1>1, InsideStop DEF StopSteps
<1>4. Entered' /\ Joined'
  BY <1>1 DEF Entered, Started, TypeOK, Joined, JoinedBy, Quiet, TasksEnded
<1> HIDE DEF StopInv
<1> QED BY <1>2, <1>3, <1>4 DEF StopInv

(* The event comes after the joins, so that the tasks have ended if no     *)
(* other thread took part.                                                 *)
LEMMA StopStopLost ==
  ASSUME StopInv, Running, NEW c \in Caller, StopLost(c)
  PROVE  StopInv'
<1> USE Names DEF StopInv
<1>1. /\ caller[c] = "lost" /\ caller' = [caller EXCEPT ![c] = "out"] /\ lost' = TRUE
      /\ UNCHANGED <<Stop, stop, flux, main, thread, started, joiner, timer, entered, freed>>
  BY DEF StopLost, Step
<1>2. TypeOK'
  BY <1>1 DEF TypeOK, StopSteps
<1>3. StartedWhileRunning' /\ Created' /\ MainInStop' /\ MainStopIsClean'
  BY <1>1, InsideStop DEF StopSteps
<1>4. c \in entered
  BY <1>1 DEF Entered
<1>5. Entered'
  BY <1>1, <1>4 DEF Entered, Started, TypeOK
<1>6. ASSUME NEW d \in Caller \ {"receive"}, entered = {d}
      PROVE  JoinedBy(d)' /\ TasksEnded'
  <2>1. c = d
    BY <1>4, <1>6
  <2> QED BY <1>1, <1>6, <2>1 DEF Joined, JoinedBy, Quiet, TasksEnded, TypeOK
<1>7. Joined'
  BY <1>1, <1>6 DEF Joined
<1> HIDE DEF StopInv
<1> QED BY <1>2, <1>3, <1>5, <1>7 DEF StopInv

(* Only threads that entered _stop join.                                   *)
LEMMA StopJoin ==
  ASSUME StopInv, Running, NEW c \in Caller, NEW t \in Task, Join(c, t)
  PROVE  StopInv'
<1> USE Names DEF StopInv
<1>1. /\ caller[c] = t /\ joiner' = [joiner EXCEPT ![t] = c]
      /\ UNCHANGED <<Stop, stop, flux, main, thread, started, timer, caller, entered, lost, freed>>
  BY DEF Join, session
<1>2. c \in entered
  BY <1>1 DEF Entered
<1>3. TypeOK' /\ StartedWhileRunning' /\ Created' /\ MainInStop'
  BY <1>1 DEF TypeOK, StartedWhileRunning, Created, MainInStop, Started
<1>4. Entered'
  BY <1>1, <1>2 DEF Entered, Started, TypeOK
<1>5. Joined' /\ MainStopIsClean'
  <2> HIDE DEF StopInv
  <2>1. \A u \in Task : Quiet(u) => Quiet(u)'
    BY <1>1 DEF Quiet
  <2> QED BY <1>1, <2>1, JoinedSame, NotFreed DEF StopInv
<1> HIDE DEF StopInv
<1> QED BY <1>3, <1>4, <1>5 DEF StopInv

(* The only thread inside _stop leaves a join when the task has ended: the *)
(* task is created, is not the caller's own, and nobody else joins it.     *)
LEMMA StopStopJoined ==
  ASSUME StopInv, Running, NEW c \in Caller, NEW t \in Task, StopJoined(c, t)
  PROVE  StopInv'
<1> USE Names DEF StopInv
<1>1. /\ caller[c] = t /\ ~JoinWaits(c, t) /\ caller' = [caller EXCEPT ![c] = NextStep[t]]
      /\ UNCHANGED <<Stop, stop, flux, main, thread, started, joiner, timer, entered, lost, freed>>
  BY DEF StopJoined, Step
<1>2. /\ t = "receive" => NextStep[t] = "timer"
      /\ t = "internal" => NextStep[t] = "send"
      /\ t = "send" => NextStep[t] = "lost"
      /\ NextStep[t] \in StopSteps \ {"out", "test"}
  BY DEF NextStep, StopSteps
<1>3. TypeOK'
  BY <1>1, <1>2 DEF TypeOK
<1>4. StartedWhileRunning' /\ Created' /\ MainInStop' /\ MainStopIsClean'
  BY <1>1, <1>2, InsideStop
<1>5. c \in entered
  BY <1>1 DEF Entered
<1>6. Entered'
  BY <1>1, <1>2, <1>5 DEF Entered, Started, TypeOK
<1>7. ASSUME NEW d \in Caller \ {"receive"}, entered = {d}
      PROVE  JoinedBy(d)'
  <2>1. c = d
    BY <1>5, <1>7
  <2>2. joiner[t] \in {"none", c}
    BY <1>7, <2>1 DEF Entered
  <2>3. ~started[t]
    BY <1>1, <2>1, <2>2 DEF JoinWaits
  <2>4. Quiet(t)
    BY <1>7, <2>3 DEF StartedWhileRunning, Created, Entered, TypeOK, Quiet
  <2>5. JoinedBy(c)
    BY <1>7, <2>1 DEF Joined
  <2>6. caller'[c] = NextStep[t] /\ \A u \in Task : Quiet(u)' <=> Quiet(u)
    BY <1>1 DEF TypeOK, Quiet
  <2> HIDE DEF StopInv
  <2>7. Quiet("receive")' <=> Quiet("receive")
    BY <2>6
  <2>8. Quiet("internal")' <=> Quiet("internal")
    BY <2>6
  <2>9. Quiet("send")' <=> Quiet("send")
    BY <2>6
  <2> QED BY <1>1, <1>2, <2>1, <2>4, <2>5, <2>6, <2>7, <2>8, <2>9 DEF JoinedBy
<1>8. lost' = lost /\ (TasksEnded' <=> TasksEnded) /\ entered' = entered
  BY <1>1 DEF TasksEnded
<1>9. Joined'
  BY <1>7, <1>8 DEF Joined
<1> HIDE DEF StopInv
<1> QED BY <1>3, <1>4, <1>6, <1>9 DEF StopInv

-----------------------------------------------------------------------------
(* The steps of main.  Until it has created and awaited the tasks, only    *)
(* the receive task may be inside _stop.                                   *)
LEMMA NoOneEntered ==
  ASSUME StopInv, ~Started
  PROVE  /\ entered \subseteq {"receive"}
         /\ \A c \in Caller \ {"receive"} : caller[c] = "out"
BY Names DEF StopInv, Entered, TypeOK

LEMMA StopMainStarts ==
  ASSUME StopInv, Running, StartFails \/ StartSucceeds \/ StartTask \/ Settle
  PROVE  StopInv'
<1> USE Names DEF StopInv
<1>1. /\ ~Started
      /\ UNCHANGED <<stop, started, joiner, timer, caller, entered, lost, freed>>
  BY DEF Started, StartFails, StartSucceeds, StartTask, Settle, session
<1>2. entered \subseteq {"receive"} /\ \A c \in Caller \ {"receive"} : caller[c] = "out"
  <2> HIDE DEF StopInv
  <2> QED BY <1>1, NoOneEntered
<1>3. TypeOK' /\ StartedWhileRunning' /\ Created' /\ MainInStop'
  <2>1. CASE StartFails
    BY <1>1, <1>2, <2>1
    DEF TypeOK, StartedWhileRunning, Created, MainInStop, Started, StartFails
  <2>2. CASE StartSucceeds
    BY <1>1, <1>2, <2>2
    DEF TypeOK, StartedWhileRunning, Created, MainInStop, Started, StartSucceeds
  <2>3. CASE StartTask
    <3>1. PICK t \in Task : t = main
      BY <2>3 DEF StartTask
    <3>2. /\ thread' = [thread EXCEPT ![t] = "new"] /\ UNCHANGED <<Stop, flux>>
          /\ t = "receive" => main' = "send"
          /\ t = "send" => main' = "internal"
          /\ t = "internal" => main' = "settle"
      BY <2>3, <3>1 DEF StartTask, pthread_start, NextTask
    <3>3. thread[t] = "none"
      BY <1>1, <3>1 DEF Created
    <3>4. TypeOK' /\ StartedWhileRunning'
      BY <1>1, <3>2, <3>3 DEF TypeOK, StartedWhileRunning
    <3>5. Created' /\ MainInStop'
      BY <1>1, <1>2, <3>1, <3>2, <3>3 DEF TypeOK, Created, MainInStop, Started
    <3> QED BY <3>4, <3>5
  <2>4. CASE Settle
    BY <1>1, <1>2, <2>4 DEF TypeOK, StartedWhileRunning, Created, MainInStop, Started, Settle
  <2> QED BY <2>1, <2>2, <2>3, <2>4
<1>4. Entered'
  BY <1>1, <1>2 DEF Entered
<1>5. Joined'
  BY <1>1, <1>2 DEF Joined
<1> HIDE DEF StopInv
<1> QED BY <1>1, <1>3, <1>4, <1>5, NotFreed DEF StopInv

LEMMA StopSignal ==
  ASSUME StopInv, Running, fstop
  PROVE  StopInv'
<1> USE Names DEF StopInv
<1>1. /\ UNCHANGED <<stop, flux, main, thread, started, joiner, timer, caller, entered, lost, freed>>
      /\ Stop' = TRUE
  BY DEF fstop, session
<1>2. TypeOK' /\ StartedWhileRunning' /\ Created' /\ MainInStop'
  BY <1>1 DEF TypeOK, StartedWhileRunning, Created, MainInStop, Started
<1>3. Entered' /\ Joined'
  BY <1>1 DEF Entered, Started, Joined, JoinedBy, Quiet, TasksEnded
<1> HIDE DEF StopInv
<1> QED BY <1>1, <1>2, <1>3, NotFreed DEF StopInv

(* main calls _stop, and goes on when it is outside again.                 *)
LEMMA StopMainStops ==
  ASSUME StopInv, Running, MainStops
  PROVE  StopInv'
<1> USE Names DEF StopInv
<1>1. /\ UNCHANGED <<Stop, stop, flux, thread, started, joiner, timer, entered, lost, freed>>
      /\ main = "run" /\ main' = "stop" /\ Stop /\ caller' = [caller EXCEPT !["main"] = "test"]
  BY DEF MainStops, Step
<1>2. caller["main"] = "out"
  BY <1>1 DEF MainInStop, TypeOK
<1>3. TypeOK' /\ StartedWhileRunning' /\ Created' /\ MainInStop'
  BY <1>1 DEF TypeOK, StopSteps, StartedWhileRunning, Created, MainInStop, Started
<1>4. Entered'
  BY <1>1, <1>2 DEF Entered, Started, TypeOK
<1>5. Joined'
  BY <1>1, <1>2 DEF Joined, JoinedBy, Quiet, TasksEnded, TypeOK
<1> HIDE DEF StopInv
<1> QED BY <1>1, <1>3, <1>4, <1>5, NotFreed DEF StopInv

LEMMA StopMainJoins ==
  ASSUME StopInv, Running, MainJoins \/ MainJoined
  PROVE  StopInv'
<1> USE Names DEF StopInv
<1>1. /\ UNCHANGED <<Stop, stop, flux, thread, started, joiner, timer, caller, entered, lost, freed>>
      /\ main \in {"stop", "join"} /\ main' \in {"join", "free"} /\ caller["main"] = "out"
      /\ main' = "free" => ~started["external"]
  BY DEF MainJoins, MainJoined, MainInStop, session, TypeOK
<1>2. TypeOK' /\ StartedWhileRunning' /\ Created' /\ MainInStop'
  BY <1>1 DEF TypeOK, StartedWhileRunning, Created, MainInStop, Started
<1>3. Entered' /\ Joined'
  BY <1>1 DEF Entered, Started, Joined, JoinedBy, Quiet, TasksEnded
<1> HIDE DEF StopInv
<1> QED BY <1>1, <1>2, <1>3, NotFreed DEF StopInv

(* When main alone executed _stop, the event has been triggered, so that   *)
(* the tasks have ended; the application cannot call _stop any more.       *)
LEMMA StopMainFrees ==
  ASSUME StopInv, Running, MainFrees
  PROVE  StopInv'
<1> USE Names DEF StopInv
<1>1. /\ UNCHANGED <<Stop, stop, flux, thread, started, joiner, caller, entered, lost>>
      /\ main = "free" /\ main' = "end" /\ freed' = TRUE /\ timer' = "none"
  BY DEF MainFrees
<1>2. TypeOK' /\ StartedWhileRunning' /\ Created' /\ MainInStop'
  BY <1>1 DEF TypeOK, StartedWhileRunning, Created, MainInStop, Started
<1>3. Entered' /\ Joined'
  BY <1>1 DEF Entered, Started, Joined, JoinedBy, Quiet, TasksEnded
<1>4. ASSUME entered = {"main"}
      PROVE  TasksEnded /\ \A c \in Caller : caller[c] = "out" \/ <<c, caller[c]>> = <<"timer", "test">>
  <2>1. caller["main"] = "out"
    BY <1>1 DEF MainInStop
  <2>2. lost
    BY <1>4, <2>1 DEF Entered, TypeOK
  <2>3. TasksEnded
    BY <1>4, <2>2 DEF Joined, Caller
  <2>4. caller["receive"] = "out" /\ caller["external"] = "out"
    BY <1>1, <2>3 DEF StartedWhileRunning, TasksEnded, MainInStop
  <2>5. caller["timer"] \in {"out", "test"}
    BY <1>4 DEF Entered, Caller
  <2> QED BY <2>1, <2>3, <2>4, <2>5 DEF Caller
<1>5. MainStopIsClean'
  BY <1>1, <1>4 DEF MainStopIsClean, TasksEnded
<1> HIDE DEF StopInv
<1> QED BY <1>2, <1>3, <1>5 DEF StopInv

-----------------------------------------------------------------------------
(* The inductive invariant: where each thread is in its routine and in     *)
(* _stop, and what the thread that stops the session has joined so far.    *)
THEOREM StopInvariant == Spec => []StopInv
<1>1. StopInv /\ [Next]_vars => StopInv'
  <2> SUFFICES ASSUME StopInv, [Next]_vars PROVE StopInv'
    OBVIOUS
  <2>1. CASE UNCHANGED vars
    BY <2>1 DEF vars, StopInv, TypeOK, StartedWhileRunning, Created, MainInStop, Started, Entered,
       Joined, JoinedBy, Quiet, TasksEnded, MainStopIsClean
  <2>2. CASE Running /\ (MainSteps \/ fstop)
    BY <2>2, StopMainStarts, StopSignal, StopMainStops, StopMainJoins, StopMainFrees DEF MainSteps
  <2>3. ASSUME Running, NEW c \in Caller, _stop(c) PROVE StopInv'
    BY <2>3, StopStopTest, StopStopSet, StopStopTransport, StopStopTimer, StopStopLost, StopJoin,
       StopStopJoined DEF _stop
  <2>4. ASSUME Running, NEW t \in Thread, ThreadSteps(t) PROVE StopInv'
    BY <2>4, StopStarter, StopLoopTest, StopLoopWork, StopLoopCallsStop, StopLoopStopped
    DEF ThreadSteps
  <2>5. CASE Running /\ (InternalTimer \/ InternalReady \/ TimerFires)
    BY <2>5, StopInternalTimer, StopInternalReady, StopTimerFires
  <2> QED BY <2>1, <2>2, <2>3, <2>4, <2>5 DEF Next
<1> QED BY <1>1, StopStart, PTL DEF Spec

(* Whichever threads may call _stop, and in whatever order they run: when  *)
(* one of them, not the receive task, executed it, the event CYBER_LOST    *)
(* comes after the last step of the tasks; and when main did, it frees the *)
(* session with no task running and no thread inside _stop, but for the    *)
(* handler of a late timer about to find the flag set.                     *)
THEOREM StopsAreOrderly == Spec => []StopIsOrderly
<1>1. StopInv => StopIsOrderly
  <2> SUFFICES ASSUME StopInv PROVE StopIsOrderly
    OBVIOUS
  <2>1. ASSUME lost, Cardinality(entered) = 1, "receive" \notin entered PROVE TasksEnded
    <3>1. IsFiniteSet(Caller)
      <4>1. IsFiniteSet({}) /\ Caller = ((({} \union {"main"}) \union {"receive"}) \union {"timer"}) \union {"external"}
        BY FS_EmptySet DEF Caller
      <4>2. \A S, x : IsFiniteSet(S) => IsFiniteSet(S \union {x})
        BY FS_AddElement
      <4> QED BY <4>1, <4>2
    <3>2. IsFiniteSet(entered)
      BY <3>1, FS_Subset DEF StopInv, TypeOK
    <3>3. PICK c : entered = {c}
      BY <2>1, <3>2, FS_Singleton
    <3>4. c \in Caller \ {"receive"}
      BY <2>1, <3>3 DEF StopInv, TypeOK
    <3> QED BY <2>1, <3>3, <3>4 DEF StopInv, Joined
  <2> QED BY <2>1 DEF StopInv, StopIsOrderly, LostMeansQuiet
<1> QED BY <1>1, StopInvariant, PTL

-----------------------------------------------------------------------------
(* The server and its connections.                                         *)

HasThread(c) == conn[c] \in {"new", "start", "alive", "stopped"}
Threads == {c \in Conn : HasThread(c)}

(* A connection whose thread runs has a socket, which is its own: inductive *)
(* since only numbers nobody owns are given out.                            *)
SocketInv ==
    /\ ListenerTypeOK
    /\ \A c \in Conn : HasThread(c) => fd[c] \in Fd /\ owner[fd[c]] = c

LEMMA SocketStart == ListenerInit => SocketInv /\ EntryPerThread
<1> SUFFICES ASSUME ListenerInit PROVE SocketInv /\ EntryPerThread
  OBVIOUS
<1>1. SocketInv
  BY ListenerAssumption DEF ListenerInit, SocketInv, ListenerTypeOK, ConnStates, HasThread
<1>2. {c \in Conn : conn[c] \in {"new", "start", "alive", "stopped"}} = {}
  BY DEF ListenerInit
<1> QED BY <1>1, <1>2, FS_EmptySet DEF EntryPerThread, ListenerInit

LEMMA TypeStep == ListenerTypeOK /\ [ListenerNext]_listener_vars => ListenerTypeOK'
<1> SUFFICES ASSUME ListenerTypeOK, [ListenerNext]_listener_vars PROVE ListenerTypeOK'
  OBVIOUS
<1> USE ListenerAssumption DEF ListenerTypeOK, ConnStates
<1>1. CASE UNCHANGED listener_vars
  BY <1>1 DEF listener_vars
<1>2. CASE transport_start \/ subscribe_event \/ Exit
  BY <1>2 DEF transport_start, subscribe_event, Exit
<1>3. ASSUME NEW c \in Conn, Connect(c) \/ Refuse(c) \/ Accept(c) \/ AcceptFails(c) PROVE ListenerTypeOK'
  <2>1. CASE Connect(c) \/ AcceptFails(c)
    BY <2>1 DEF Connect, AcceptFails
  <2>2. CASE Refuse(c)
    BY <2>2 DEF Refuse, Full
  <2>3. CASE Accept(c)
    <3>1. PICK f \in Free : fd' = [fd EXCEPT ![c] = f] /\ owner' = [owner EXCEPT ![f] = c]
      BY <2>3 DEF Accept
    <3>2. thread_count' \in 0 .. MAX_THREADS
      BY <2>3 DEF Accept, Full
    <3> QED BY <2>3, <3>1, <3>2 DEF Accept, Free
  <2> QED BY <1>3, <2>1, <2>2, <2>3
<1>4. ASSUME NEW c \in Conn, Handle(c) \/ StopSession(c) \/ EndThread(c) PROVE ListenerTypeOK'
  <2>1. CASE NoFlux(c) \/ StartSession(c)
    BY <2>1 DEF NoFlux, StartSession, Closed
  <2>2. CASE trigger_event(c)
    BY <2>2 DEF trigger_event, Closed
  <2>3. CASE StopSession(c) \/ EndThread(c)
    BY <2>3 DEF StopSession, EndThread, Closed
  <2> QED BY <1>4, <2>1, <2>2, <2>3 DEF Handle
<1>5. CASE cyber_atexit
  <2>1. PICK s \in cyber_list :
          /\ cyber_list' = cyber_list \ {s}
          /\ \/ s = "server" /\ process' = "crashed" /\ UNCHANGED <<conn, owner>>
             \/ /\ s # "server" /\ UNCHANGED process
                /\ conn' = [conn EXCEPT ![s] = IF @ \in {"start", "alive"} THEN "stopped" ELSE @]
                /\ owner' = IF ShadowCloses /\ conn[s] \in {"start", "alive"}
                            THEN Closed(fd[s]) ELSE owner
    BY <1>5 DEF cyber_atexit
  <2> QED BY <1>5, <2>1 DEF cyber_atexit, Closed
<1> QED BY <1>1, <1>2, <1>3, <1>4, <1>5 DEF ListenerNext

(* What a step does to the threads: none appears but through Accept.       *)
LEMMA ThreadStep ==
  ASSUME ListenerTypeOK, [ListenerNext]_listener_vars
  PROVE  \/ \A c \in Conn : HasThread(c)' => HasThread(c)
         \/ \E a \in Conn : /\ Accept(a)
                            /\ \A c \in Conn : c # a => (HasThread(c)' <=> HasThread(c))
<1> USE DEF ListenerTypeOK, ConnStates, HasThread
<1>1. CASE UNCHANGED listener_vars
  BY <1>1 DEF listener_vars
<1>2. CASE transport_start \/ subscribe_event \/ Exit
  BY <1>2 DEF transport_start, subscribe_event, Exit
<1>3. ASSUME NEW c \in Conn, Connect(c) \/ Refuse(c) \/ AcceptFails(c) \/ StopSession(c) \/ EndThread(c)
      PROVE  \A d \in Conn : HasThread(d)' => HasThread(d)
  BY <1>3 DEF Connect, Refuse, AcceptFails, StopSession, EndThread
<1>4. ASSUME NEW c \in Conn, Handle(c) PROVE \A d \in Conn : HasThread(d)' => HasThread(d)
  BY <1>4 DEF Handle, NoFlux, trigger_event, StartSession
<1>5. ASSUME NEW a \in Conn, Accept(a)
      PROVE  \A c \in Conn : c # a => (HasThread(c)' <=> HasThread(c))
  BY <1>5 DEF Accept
<1>6. CASE cyber_atexit
  BY <1>6, ListenerAssumption DEF cyber_atexit
<1> QED BY <1>1, <1>2, <1>3, <1>4, <1>5, <1>6 DEF ListenerNext

(* The state keeps its types: in particular thread_count, the index of the  *)
(* next entry, never passes the end of the array threads                    *)
(* (transport_listen).                                                      *)
THEOREM ListenerTypeCorrect == ListenerSpec => []ListenerTypeOK
<1>1. ListenerInit => ListenerTypeOK
  BY SocketStart DEF SocketInv
<1> QED BY <1>1, TypeStep, PTL DEF ListenerSpec

(* The entries of the array used up are never fewer than the threads that  *)
(* run: no failure between accept and the thread makes two connections     *)
(* share an entry (transport_listen).                                      *)
THEOREM EntriesSuffice == ListenerSpec => []EntryPerThread
<1> DEFINE Inv == ListenerTypeOK /\ EntryPerThread
<1>1. ListenerInit => Inv
  BY SocketStart DEF SocketInv
<1>2. Inv /\ [ListenerNext]_listener_vars => Inv'
  <2> SUFFICES ASSUME Inv, [ListenerNext]_listener_vars PROVE EntryPerThread'
    BY TypeStep
  <2>1. /\ IsFiniteSet(Threads) /\ Cardinality(Threads) \in Nat
        /\ Cardinality(Threads) <= thread_count /\ thread_count \in Nat
    BY ListenerAssumption, FS_Subset, FS_CardinalityType
       DEF EntryPerThread, Threads, HasThread, ListenerTypeOK
  <2>2. Threads' = {c \in Conn : HasThread(c)'} /\ thread_count' \in Nat
    BY TypeStep, ListenerAssumption DEF Threads, ListenerTypeOK
  <2>3. SUFFICES Cardinality(Threads') <= thread_count'
    BY <2>2 DEF EntryPerThread, HasThread
  <2>4. CASE \A c \in Conn : HasThread(c)' => HasThread(c)
    <3>1. Threads' \subseteq Threads
      BY <2>2, <2>4 DEF Threads
    <3>2. Cardinality(Threads') <= Cardinality(Threads) /\ Cardinality(Threads') \in Nat
      BY <2>1, <3>1, FS_Subset, FS_CardinalityType
    <3>3. thread_count' >= thread_count
      BY ListenerAssumption DEF ListenerTypeOK, ListenerNext, listener_vars, transport_start, subscribe_event, Exit, Connect,
         Refuse, Accept, AcceptFails, Handle, NoFlux, trigger_event, StartSession,
         StopSession, EndThread, cyber_atexit
    <3> QED BY <2>1, <2>2, <3>2, <3>3
  <2>5. ASSUME NEW a \in Conn, Accept(a), \A c \in Conn : c # a => (HasThread(c)' <=> HasThread(c))
        PROVE  Cardinality(Threads') <= thread_count'
    <3>1. Threads' \subseteq Threads \union {a}
      BY <2>2, <2>5 DEF Threads
    <3>2. /\ IsFiniteSet(Threads \union {a})
          /\ Cardinality(Threads \union {a}) \in {Cardinality(Threads), Cardinality(Threads) + 1}
      BY <2>1, FS_AddElement
    <3>3. Cardinality(Threads') <= Cardinality(Threads \union {a}) /\ Cardinality(Threads') \in Nat
      BY <3>1, <3>2, FS_Subset, FS_CardinalityType
    <3>4. thread_count' = thread_count + 1
      BY <2>5 DEF Accept
    <3> QED BY <2>1, <3>2, <3>3, <3>4
  <2> QED BY <2>4, <2>5, ThreadStep
<1>3. Inv => EntryPerThread
  OBVIOUS
<1> QED BY <1>1, <1>2, <1>3, PTL DEF ListenerSpec

LEMMA SocketStep ==
  ASSUME ~ShadowCloses, SocketInv, [ListenerNext]_listener_vars
  PROVE  SocketInv'
<1> USE ListenerAssumption DEF ListenerTypeOK, ConnStates, HasThread, SocketInv
<1>0. ListenerTypeOK'
  BY TypeStep
<1>1. CASE UNCHANGED listener_vars
  BY <1>1 DEF listener_vars
<1>2. CASE transport_start \/ subscribe_event \/ Exit
  BY <1>2 DEF transport_start, subscribe_event, Exit
<1>3. ASSUME NEW c \in Conn, Connect(c) \/ Refuse(c) \/ AcceptFails(c) \/ StopSession(c)
                             \/ StartSession(c)
      PROVE  SocketInv'
  BY <1>0, <1>3 DEF Connect, Refuse, AcceptFails, StopSession, StartSession
<1>4. ASSUME NEW c \in Conn, Accept(c) PROVE SocketInv'
  <2>1. PICK f \in Free : fd' = [fd EXCEPT ![c] = f] /\ owner' = [owner EXCEPT ![f] = c]
    BY <1>4 DEF Accept
  <2>2. ASSUME NEW d \in Conn, d # c, HasThread(d) PROVE fd[d] # f
    BY <2>1, <2>2 DEF Free
  <2> QED BY <1>0, <1>4, <2>1, <2>2 DEF Accept, Free
<1>5. ASSUME NEW c \in Conn, NoFlux(c) \/ EndThread(c) PROVE SocketInv'
  <2>1. ASSUME NEW d \in Conn, d # c, HasThread(d) PROVE fd[d] # fd[c]
    BY <1>5, <2>1 DEF NoFlux, EndThread
  <2> QED BY <1>0, <1>5, <2>1 DEF NoFlux, EndThread, Closed
<1>6. ASSUME NEW c \in Conn, trigger_event(c) PROVE SocketInv'
  <2>1. ASSUME NEW d \in Conn, d # c, HasThread(d) PROVE fd[d] # fd[c]
    BY <1>6, <2>1 DEF trigger_event
  <2> QED BY <1>0, <1>6, <2>1 DEF trigger_event, Closed
<1>7. CASE cyber_atexit
  BY <1>0, <1>7 DEF cyber_atexit
<1> QED BY <1>1, <1>2, <1>3, <1>4, <1>5, <1>6, <1>7 DEF ListenerNext, Handle

(* As long as closing a shadow FLUX leaves the socket to handle_connection, *)
(* the socket of a session is its own: whatever numbers the system gives    *)
(* out again, no thread closes the socket of another session.               *)
THEOREM SocketsAreOwn ==
  ASSUME ~ShadowCloses
  PROVE  ListenerSpec => []OwnSocket
<1>1. ListenerInit => SocketInv
  BY SocketStart
<1>2. SocketInv /\ [ListenerNext]_listener_vars => SocketInv'
  BY SocketStep
<1>3. SocketInv => OwnSocket
  BY DEF SocketInv, OwnSocket, HasThread
<1> QED BY <1>1, <1>2, <1>3, PTL DEF ListenerSpec

-----------------------------------------------------------------------------
(* The queues.                                                             *)

(* What linking, unlinking and moving entries does to the entries of a     *)
(* list.                                                                   *)
LEMMA AppendElems ==
  ASSUME NEW S, NEW s \in Seq(S), NEW e \in S
  PROVE  /\ Append(s, e) \in Seq(S)
         /\ Len(Append(s, e)) = Len(s) + 1
         /\ Elems(Append(s, e)) = Elems(s) \cup {e}
         /\ Injective(s) /\ e \notin Elems(s) => Injective(Append(s, e))
<1>1. /\ Append(s, e) \in Seq(S)
      /\ Len(Append(s, e)) = Len(s) + 1
      /\ \A i \in 1 .. Len(s) : Append(s, e)[i] = s[i]
      /\ Append(s, e)[Len(s) + 1] = e
  BY AppendProperties
<1>2. Len(s) \in Nat /\ DOMAIN s = 1 .. Len(s) /\ DOMAIN Append(s, e) = 1 .. Len(s) + 1
  BY <1>1, LenProperties
<1>3. Elems(Append(s, e)) = Elems(s) \cup {e}
  BY <1>1, <1>2 DEF Elems
<1>4. Injective(s) /\ e \notin Elems(s) => Injective(Append(s, e))
  BY <1>1, <1>2 DEF Elems, Injective
<1> QED BY <1>1, <1>3, <1>4

LEMMA TailElems ==
  ASSUME NEW S, NEW s \in Seq(S), s # <<>>, Injective(s)
  PROVE  /\ Head(s) \in S /\ Tail(s) \in Seq(S)
         /\ Len(s) > 0 /\ Len(Tail(s)) = Len(s) - 1
         /\ Head(s) \in Elems(s)
         /\ Elems(Tail(s)) = Elems(s) \ {Head(s)}
         /\ Injective(Tail(s))
<1>1. /\ Head(s) \in S /\ Tail(s) \in Seq(S)
      /\ Len(Tail(s)) = Len(s) - 1
      /\ \A i \in 1 .. Len(Tail(s)) : Tail(s)[i] = s[i + 1]
  BY HeadTailProperties
<1>2. Len(s) \in Nat \ {0} /\ DOMAIN s = 1 .. Len(s) /\ DOMAIN Tail(s) = 1 .. Len(s) - 1
  BY <1>1, LenProperties, EmptySeq
<1>3. Head(s) = s[1]
  BY <1>2
<1>4. Head(s) \in Elems(s)
  BY <1>2, <1>3 DEF Elems
<1>5. Injective(Tail(s))
  BY <1>1, <1>2 DEF Injective
<1>6. Elems(Tail(s)) = Elems(s) \ {Head(s)}
  <2>1. ASSUME NEW e \in Elems(Tail(s)) PROVE e \in Elems(s) \ {Head(s)}
    <3>1. PICK i \in 1 .. Len(s) - 1 : e = Tail(s)[i]
      BY <2>1, <1>2 DEF Elems
    <3>2. e = s[i + 1] /\ i + 1 \in 1 .. Len(s) /\ i + 1 # 1 /\ 1 \in 1 .. Len(s)
      BY <1>1, <1>2, <3>1
    <3> QED BY <1>2, <1>3, <3>2 DEF Elems, Injective
  <2>2. ASSUME NEW e \in Elems(s) \ {Head(s)} PROVE e \in Elems(Tail(s))
    <3>1. PICK i \in 1 .. Len(s) : e = s[i]
      BY <2>2, <1>2 DEF Elems
    <3>2. i - 1 \in 1 .. Len(s) - 1 /\ Tail(s)[i - 1] = e
      <4>1. i # 1
        BY <2>2, <3>1, <1>3
      <4>2. i - 1 \in 1 .. Len(s) - 1
        BY <1>2, <4>1
      <4>3. (i - 1) + 1 = i
        BY <1>2
      <4> QED BY <1>1, <3>1, <4>2, <4>3
    <3> QED BY <1>2, <3>2 DEF Elems
  <2> QED BY <2>1, <2>2
<1> QED BY <1>1, <1>2, <1>4, <1>5, <1>6

LEMMA ConcatElems ==
  ASSUME NEW S, NEW s \in Seq(S), NEW t \in Seq(S)
  PROVE  /\ s \o t \in Seq(S)
         /\ Elems(s \o t) = Elems(s) \cup Elems(t)
         /\ Injective(s) /\ Injective(t) /\ Elems(s) \cap Elems(t) = {} => Injective(s \o t)
<1>1. /\ s \o t \in Seq(S)
      /\ Len(s \o t) = Len(s) + Len(t)
      /\ \A i \in 1 .. Len(s) + Len(t) :
           (s \o t)[i] = IF i <= Len(s) THEN s[i] ELSE t[i - Len(s)]
  BY ConcatProperties
<1>2. /\ Len(s) \in Nat /\ Len(t) \in Nat
      /\ DOMAIN s = 1 .. Len(s) /\ DOMAIN t = 1 .. Len(t)
      /\ DOMAIN (s \o t) = 1 .. Len(s) + Len(t)
  BY <1>1, LenProperties
<1>3. \A i \in 1 .. Len(s) : i \in 1 .. Len(s) + Len(t) /\ (s \o t)[i] = s[i]
  BY <1>1, <1>2
<1>4. \A i \in 1 .. Len(t) :
         i + Len(s) \in 1 .. Len(s) + Len(t) /\ (s \o t)[i + Len(s)] = t[i]
  BY <1>1, <1>2
<1>5. \A i \in 1 .. Len(s) + Len(t) :
         \/ i \in 1 .. Len(s) /\ (s \o t)[i] = s[i]
         \/ i - Len(s) \in 1 .. Len(t) /\ (s \o t)[i] = t[i - Len(s)]
  BY <1>1, <1>2
<1>6. Elems(s \o t) = Elems(s) \cup Elems(t)
  <2>1. \A e \in Elems(s \o t) : e \in Elems(s) \cup Elems(t)
    BY <1>2, <1>5 DEF Elems
  <2>2. \A e \in Elems(s) : e \in Elems(s \o t)
    BY <1>2, <1>3 DEF Elems
  <2>3. \A e \in Elems(t) : e \in Elems(s \o t)
    BY <1>2, <1>4 DEF Elems
  <2> QED BY <2>1, <2>2, <2>3
<1>7. ASSUME Injective(s), Injective(t), Elems(s) \cap Elems(t) = {}
      PROVE  Injective(s \o t)
  <2>1. SUFFICES ASSUME NEW i \in 1 .. Len(s) + Len(t), NEW j \in 1 .. Len(s) + Len(t),
                        (s \o t)[i] = (s \o t)[j]
                 PROVE  i = j
    BY <1>2 DEF Injective
  <2>2. CASE i \in 1 .. Len(s) /\ j \in 1 .. Len(s)
    BY <1>2, <1>3, <1>7, <2>1, <2>2 DEF Injective
  <2>3. CASE i \notin 1 .. Len(s) /\ j \notin 1 .. Len(s)
    <3>1. /\ i - Len(s) \in 1 .. Len(t) /\ (s \o t)[i] = t[i - Len(s)]
          /\ j - Len(s) \in 1 .. Len(t) /\ (s \o t)[j] = t[j - Len(s)]
      BY <1>5, <2>3
    <3>2. i - Len(s) = j - Len(s)
      BY <1>2, <1>7, <2>1, <3>1 DEF Injective
    <3> QED BY <1>2, <3>2
  <2>4. ASSUME NEW k \in 1 .. Len(s), NEW l \in 1 .. Len(t) PROVE s[k] # t[l]
    BY <1>2, <1>7, <2>4 DEF Elems
  <2> QED BY <1>3, <1>5, <2>1, <2>2, <2>3, <2>4
<1> QED BY <1>1, <1>6, <1>7

-----------------------------------------------------------------------------
LEMMA QueueStart == QueueInit => QueueInv
<1> SUFFICES ASSUME QueueInit PROVE QueueInv
  OBVIOUS
<1>1. \A S : <<>> \in Seq(S)
  BY EmptySeq
<1>2. Len(<<>>) = 0 /\ DOMAIN <<>> = {} /\ Elems(<<>>) = {} /\ Injective(<<>>)
  BY EmptySeq DEF Elems, Injective
<1>3. QueueTypeOK
  BY <1>1, QueueBounds DEF QueueInit, QueueTypeOK
<1>4. \A q \in Queue : Linked(q) = {}
  BY <1>2 DEF Linked, QueueInit
<1>5. Unused = {} /\ Pushed = {} /\ Pulled = {}
  BY <1>2 DEF Unused, Pushed, Pulled, QueueInit
<1>6. EntryHeldOnce
  BY <1>2, <1>4, <1>5 DEF EntryHeldOnce, QueueInit
<1>7. InHand /\ Counted /\ Filled
  BY <1>2, <1>4 DEF InHand, Counted, Filled, QueueInit
<1> QED BY <1>3, <1>6, <1>7 DEF QueueInv

(* A step that moves no entry.                                             *)
LEMMA SamePlaces ==
  ASSUME EntryHeldOnce, UNCHANGED <<list, unused, push_item, pull_item, allocated>>
  PROVE  EntryHeldOnce' /\ \A q \in Queue : Linked(q)' = Linked(q)
BY DEF EntryHeldOnce, Linked, Unused, Pushed, Pulled

(* An entry, in a list, in a hand or unused, is an entry.                  *)
LEMMA ElemsType ==
  ASSUME QueueTypeOK
  PROVE  /\ \A q \in Queue : Linked(q) \subseteq Entry
         /\ Unused \subseteq Entry /\ Pushed \subseteq Entry /\ Pulled \subseteq Entry
<1>1. ASSUME NEW s \in Seq(Entry) PROVE Elems(s) \subseteq Entry
  BY LenProperties DEF Elems
<1> QED BY <1>1 DEF QueueTypeOK, Linked, Unused, Pushed, Pulled

(* A producer takes an entry that nobody has.                              *)
LEMMA PushTakes ==
  ASSUME QueueTypeOK, EntryHeldOnce, NEW p \in Producer, push_item[p] = NoEntry,
         NEW e \in Entry, e \notin Pushed,
         push_item' = [push_item EXCEPT ![p] = e]
  PROVE  /\ push_item' \in [Producer -> Entry \cup {NoEntry}]
         /\ Pushed' = Pushed \cup {e}
         /\ push_item'[p] = e /\ e # NoEntry
         /\ \A r \in Producer : r # p => push_item'[r] = push_item[r]
         /\ \A r, u \in Producer :
               push_item'[r] = push_item'[u] => r = u \/ push_item'[r] = NoEntry
<1>1. push_item'[p] = e /\ \A r \in Producer : r # p => push_item'[r] = push_item[r]
  BY DEF QueueTypeOK
<1>2. \A r \in Producer : push_item[r] # e
  BY QueueAssumption DEF Pushed
<1> QED BY <1>1, <1>2, QueueAssumption DEF Pushed, QueueTypeOK, EntryHeldOnce

(* A producer lets go of its entry.                                        *)
LEMMA PushReleases ==
  ASSUME QueueTypeOK, EntryHeldOnce, NEW p \in Producer, push_item[p] # NoEntry,
         push_item' = [push_item EXCEPT ![p] = NoEntry]
  PROVE  /\ push_item' \in [Producer -> Entry \cup {NoEntry}]
         /\ Pushed' = Pushed \ {push_item[p]}
         /\ push_item'[p] = NoEntry
         /\ \A r \in Producer : r # p => push_item'[r] = push_item[r]
         /\ \A r, u \in Producer :
               push_item'[r] = push_item'[u] => r = u \/ push_item'[r] = NoEntry
<1>1. push_item'[p] = NoEntry /\ \A r \in Producer : r # p => push_item'[r] = push_item[r]
  BY DEF QueueTypeOK
<1>2. \A r \in Producer : r # p => push_item[r] # push_item[p]
  BY DEF EntryHeldOnce
<1>3. Pushed' = Pushed \ {push_item[p]}
  BY <1>1, <1>2 DEF Pushed
<1> QED BY <1>1, <1>3 DEF QueueTypeOK, EntryHeldOnce

(* The same for a consumer.                                                *)
LEMMA PullTakes ==
  ASSUME QueueTypeOK, EntryHeldOnce, NEW q \in Queue, pull_item[q] = NoEntry,
         NEW e \in Entry, e \notin Pulled,
         pull_item' = [pull_item EXCEPT ![q] = e]
  PROVE  /\ pull_item' \in [Queue -> Entry \cup {NoEntry}]
         /\ Pulled' = Pulled \cup {e}
         /\ pull_item'[q] = e /\ e # NoEntry
         /\ \A r \in Queue : r # q => pull_item'[r] = pull_item[r]
         /\ \A r, u \in Queue :
               pull_item'[r] = pull_item'[u] => r = u \/ pull_item'[r] = NoEntry
<1>1. pull_item'[q] = e /\ \A r \in Queue : r # q => pull_item'[r] = pull_item[r]
  BY DEF QueueTypeOK
<1>2. \A r \in Queue : pull_item[r] # e
  BY QueueAssumption DEF Pulled
<1> QED BY <1>1, <1>2, QueueAssumption DEF Pulled, QueueTypeOK, EntryHeldOnce

LEMMA PullReleases ==
  ASSUME QueueTypeOK, EntryHeldOnce, NEW q \in Queue, pull_item[q] # NoEntry,
         pull_item' = [pull_item EXCEPT ![q] = NoEntry]
  PROVE  /\ pull_item' \in [Queue -> Entry \cup {NoEntry}]
         /\ Pulled' = Pulled \ {pull_item[q]}
         /\ pull_item'[q] = NoEntry
         /\ \A r \in Queue : r # q => pull_item'[r] = pull_item[r]
         /\ \A r, u \in Queue :
               pull_item'[r] = pull_item'[u] => r = u \/ pull_item'[r] = NoEntry
<1>1. pull_item'[q] = NoEntry /\ \A r \in Queue : r # q => pull_item'[r] = pull_item[r]
  BY DEF QueueTypeOK
<1>2. \A r \in Queue : r # q => pull_item[r] # pull_item[q]
  BY DEF EntryHeldOnce
<1>3. Pulled' = Pulled \ {pull_item[q]}
  BY <1>1, <1>2 DEF Pulled
<1> QED BY <1>1, <1>3 DEF QueueTypeOK, EntryHeldOnce

-----------------------------------------------------------------------------
(* The first part of a push: an entry leaves the unused ones or the free   *)
(* memory for the producer's hand.                                         *)
LEMMA QueueReuse ==
  ASSUME QueueInv, NEW p \in Producer, NEW q \in Queue, Reuse(p, q)
  PROVE  QueueInv'
<1> USE DEF QueueInv
<1>1. PICK e : e = Head(unused)
  OBVIOUS
<1>2. /\ e \in Entry /\ e \in Unused
      /\ unused' \in Seq(Entry) /\ Unused' = Unused \ {e} /\ Injective(unused')
  BY <1>1, TailElems DEF QueueTypeOK, EntryHeldOnce, Reuse, Unused
<1>3. push_item[p] = NoEntry /\ e \notin Pushed /\ push_item' = [push_item EXCEPT ![p] = e]
  BY <1>1, <1>2 DEF InHand, Reuse, EntryHeldOnce
<1>4. /\ push_item' \in [Producer -> Entry \cup {NoEntry}]
      /\ Pushed' = Pushed \cup {e}
      /\ push_item'[p] = e /\ e # NoEntry
      /\ \A r \in Producer : r # p => push_item'[r] = push_item[r]
      /\ \A r, u \in Producer :
            push_item'[r] = push_item'[u] => r = u \/ push_item'[r] = NoEntry
  BY <1>2, <1>3, PushTakes
<1>5. sent' \in [Producer -> 0 .. MaxPush] /\ sent'[p] > 0
  BY QueueBounds DEF Reuse, QueueTypeOK
<1>6. /\ UNCHANGED <<list, no, sem, allocated, content, pull_pc, pull_item, got, flushing,
                      flushes, Pulled>>
      /\ \A r \in Queue : Linked(r)' = Linked(r)
  BY DEF Pulled, Linked, Reuse, pulls, flushed
<1>7. push_pc' = [push_pc EXCEPT ![p] = "fill"] /\ push_q' = [push_q EXCEPT ![p] = q]
  BY DEF Reuse
<1>8. QueueTypeOK'
  BY <1>2, <1>4, <1>5, <1>6, <1>7 DEF QueueTypeOK
<1>9. EntryHeldOnce'
  BY <1>2, <1>4, <1>6 DEF EntryHeldOnce
<1>10. InHand'
  BY <1>4, <1>5, <1>6, <1>7 DEF InHand, Reuse, QueueTypeOK
<1>11. Counted' /\ Filled'
  BY <1>4, <1>6, <1>7 DEF Counted, Filled, QueueTypeOK
<1> QED BY <1>8, <1>9, <1>10, <1>11

LEMMA QueueAllocate ==
  ASSUME QueueInv, NEW p \in Producer, NEW q \in Queue, Allocate(p, q)
  PROVE  QueueInv'
<1> USE DEF QueueInv
<1>1. PICK e \in Entry \ allocated : /\ allocated' = allocated \cup {e}
                                     /\ push_item' = [push_item EXCEPT ![p] = e]
  BY DEF Allocate
<1>2. push_item[p] = NoEntry /\ e \notin Pushed
  BY <1>1 DEF InHand, Allocate, EntryHeldOnce
<1>3. /\ push_item' \in [Producer -> Entry \cup {NoEntry}]
      /\ Pushed' = Pushed \cup {e}
      /\ push_item'[p] = e /\ e # NoEntry
      /\ \A r \in Producer : r # p => push_item'[r] = push_item[r]
      /\ \A r, u \in Producer :
            push_item'[r] = push_item'[u] => r = u \/ push_item'[r] = NoEntry
  BY <1>1, <1>2, PushTakes
<1>4. sent' \in [Producer -> 0 .. MaxPush] /\ sent'[p] > 0
  BY QueueBounds DEF Allocate, QueueTypeOK
<1>5. /\ UNCHANGED <<list, no, sem, unused, content, pull_pc, pull_item, got, flushing,
                      flushes, Pulled, Unused>>
      /\ \A r \in Queue : Linked(r)' = Linked(r)
  BY DEF Pulled, Unused, Linked, Allocate, lists, pulls, flushed
<1>6. push_pc' = [push_pc EXCEPT ![p] = "fill"] /\ push_q' = [push_q EXCEPT ![p] = q]
  BY DEF Allocate
<1>7. QueueTypeOK'
  BY <1>1, <1>3, <1>4, <1>5, <1>6 DEF QueueTypeOK
<1>8. EntryHeldOnce'
  BY <1>1, <1>3, <1>5 DEF EntryHeldOnce
<1>9. InHand'
  BY <1>3, <1>4, <1>5, <1>6 DEF InHand, Allocate, QueueTypeOK
<1>10. Counted' /\ Filled'
  BY <1>3, <1>5, <1>6 DEF Counted, Filled, QueueTypeOK
<1> QED BY <1>7, <1>8, <1>9, <1>10

LEMMA QueuePushFails ==
  ASSUME QueueInv, NEW p \in Producer, PushFails(p)
  PROVE  QueueInv'
<1> USE DEF QueueInv
<1>1. QueueTypeOK'
  BY QueueBounds DEF QueueTypeOK, PushFails, lists, pulls, flushed
<1>2. EntryHeldOnce' /\ \A q \in Queue : Linked(q)' = Linked(q)
  BY SamePlaces DEF PushFails, lists, pulls
<1>3. InHand' /\ Counted' /\ Filled'
  BY <1>2 DEF InHand, Counted, Filled, PushFails, QueueTypeOK, lists, pulls
<1> QED BY <1>1, <1>2, <1>3

(* Filling writes to an entry that no list and no consumer has.            *)
LEMMA QueueFill ==
  ASSUME QueueInv, NEW p \in Producer, Fill(p)
  PROVE  /\ QueueInv'
         /\ \A q \in Queue : \A e \in Linked(q) : content'[e] = content[e]
         /\ \A q \in Queue : pull_item[q] # NoEntry =>
                content'[pull_item[q]] = content[pull_item[q]]
<1> USE DEF QueueInv
<1>1. push_item[p] # NoEntry
  BY DEF InHand, Fill
<1>2. push_item[p] \in Pushed /\ push_item[p] \in Entry
  BY <1>1 DEF QueueTypeOK, Pushed
<1>3. <<p, sent[p]>> \in Msg
  <2>1. sent[p] \in 0 .. MaxPush /\ sent[p] > 0
    BY DEF InHand, Fill, QueueTypeOK
  <2> QED BY <2>1, QueueBounds DEF Msg
<1>4. /\ content' \in [Entry -> Msg \cup {NoMsg}]
      /\ content'[push_item[p]] \in Msg
      /\ \A e \in Entry : e # push_item[p] => content'[e] = content[e]
  BY <1>2, <1>3 DEF Fill, QueueTypeOK
<1>5. /\ push_pc' = [push_pc EXCEPT ![p] = "insert"]
      /\ UNCHANGED <<list, no, sem, unused, allocated, push_q, push_item, sent, pull_pc,
                      pull_item, got, flushing, flushes>>
  BY DEF Fill, lists, pulls, flushed
<1>6. QueueTypeOK'
  BY <1>4, <1>5 DEF QueueTypeOK
<1>7. EntryHeldOnce' /\ \A q \in Queue : Linked(q)' = Linked(q)
  BY <1>5, SamePlaces
<1>8. \A q \in Queue : \A e \in Linked(q) : content'[e] = content[e]
  BY <1>2, <1>4, ElemsType DEF EntryHeldOnce
<1>9. \A q \in Queue : pull_item[q] # NoEntry => content'[pull_item[q]] = content[pull_item[q]]
  <2>1. \A q \in Queue : pull_item[q] # NoEntry => pull_item[q] \in Pulled
    BY DEF Pulled
  <2> QED BY <1>2, <1>4, <2>1, ElemsType DEF EntryHeldOnce
<1>10. \A r \in Producer : r # p /\ push_item[r] # NoEntry =>
          content'[push_item[r]] = content[push_item[r]]
  BY <1>2, <1>4 DEF EntryHeldOnce, QueueTypeOK
<1>11. InHand' /\ Counted'
  BY <1>5 DEF InHand, Counted, Fill, QueueTypeOK
<1>12. Filled'
  <2>1. \A q \in Queue : \A e \in Linked(q)' : content'[e] \in Msg
    BY <1>7, <1>8 DEF Filled
  <2>2. \A r \in Producer : push_pc'[r] = "insert" => content'[push_item'[r]] \in Msg
    <3> SUFFICES ASSUME NEW r \in Producer, push_pc'[r] = "insert"
                 PROVE  content'[push_item[r]] \in Msg
      BY <1>5
    <3>1. CASE r = p
      BY <1>4, <3>1
    <3>2. CASE r # p
      <4>1. push_pc[r] = "insert" /\ push_item[r] # NoEntry
        BY <1>5, <3>2 DEF QueueTypeOK, InHand
      <4> QED BY <1>10, <3>2, <4>1 DEF Filled
    <3> QED BY <3>1, <3>2
  <2>3. \A q \in Queue : pull_pc'[q] = "copy" => content'[pull_item'[q]] \in Msg
    BY <1>5, <1>9 DEF Filled, InHand
  <2> QED BY <2>1, <2>2, <2>3 DEF Filled
<1> QED BY <1>6, <1>7, <1>8, <1>9, <1>11, <1>12

(* Linking moves the entry from the producer's hand to the end of a list.  *)
LEMMA QueueInsert ==
  ASSUME QueueInv, NEW p \in Producer, queue_msg_insert(p)
  PROVE  QueueInv'
<1> USE DEF QueueInv
<1>1. PICK q \in Queue, e \in Entry : q = push_q[p] /\ e = push_item[p]
  BY DEF InHand, queue_msg_insert, QueueTypeOK
<1>2. push_item[p] # NoEntry /\ e \in Pushed /\ content[e] \in Msg
  BY <1>1, QueueAssumption DEF Filled, queue_msg_insert, Pushed
<1>3. /\ list' = [list EXCEPT ![q] = Append(list[q], e)]
      /\ no' = [no EXCEPT ![q] = no[q] + 1]
      /\ push_item' = [push_item EXCEPT ![p] = NoEntry]
      /\ push_pc' = [push_pc EXCEPT ![p] = "signal"]
      /\ UNCHANGED <<sem, unused, allocated, content, push_q, sent, pull_pc, pull_item, got,
                      flushing, flushes, Unused, Pulled>>
  BY <1>1 DEF queue_msg_insert, pulls, flushed, Unused, Pulled
<1>4. /\ Append(list[q], e) \in Seq(Entry)
      /\ Len(Append(list[q], e)) = Len(list[q]) + 1
      /\ Elems(Append(list[q], e)) = Elems(list[q]) \cup {e}
      /\ Injective(Append(list[q], e))
  BY <1>2, AppendElems DEF QueueTypeOK, EntryHeldOnce, Linked
<1>5. list'[q] = Append(list[q], e) /\ \A r \in Queue : r # q => list'[r] = list[r]
  BY <1>3 DEF QueueTypeOK
<1>6. Linked(q)' = Linked(q) \cup {e} /\ \A r \in Queue : r # q => Linked(r)' = Linked(r)
  BY <1>4, <1>5 DEF Linked
<1>7. /\ push_item' \in [Producer -> Entry \cup {NoEntry}]
      /\ Pushed' = Pushed \ {e}
      /\ push_item'[p] = NoEntry
      /\ \A r \in Producer : r # p => push_item'[r] = push_item[r]
      /\ \A r, u \in Producer :
            push_item'[r] = push_item'[u] => r = u \/ push_item'[r] = NoEntry
  BY <1>1, <1>2, <1>3, PushReleases
<1>8. QueueTypeOK'
  <2>1. list' \in [Queue -> Seq(Entry)]
    BY <1>3, <1>4 DEF QueueTypeOK
  <2>2. no' \in [Queue -> Nat]
    BY <1>3 DEF QueueTypeOK
  <2>3. push_pc' \in [Producer -> {"idle", "fill", "insert", "signal"}]
    BY <1>3 DEF QueueTypeOK
  <2> HIDE DEF QueueInv
  <2> QED BY <1>3, <1>7, <2>1, <2>2, <2>3 DEF QueueTypeOK, QueueInv
<1>9. EntryHeldOnce'
  <2>1. \A r \in Queue : Injective(list'[r])
    BY <1>4, <1>5 DEF EntryHeldOnce
  <2>2. \A r, u \in Queue : r # u => Linked(r)' \cap Linked(u)' = {}
    BY <1>2, <1>6 DEF EntryHeldOnce
  <2>3. \A r \in Queue : Linked(r)' \cap (Unused \cup Pushed' \cup Pulled) = {}
    BY <1>2, <1>6, <1>7 DEF EntryHeldOnce
  <2> QED BY <1>2, <1>3, <1>6, <1>7, <2>1, <2>2, <2>3 DEF EntryHeldOnce
<1>10. InHand'
  BY <1>3, <1>7 DEF InHand, QueueTypeOK, queue_msg_insert
<1>11. Counted'
  BY <1>3, <1>4, <1>5 DEF Counted, QueueTypeOK
<1>12. Filled'
  <2>1. \A r \in Producer : push_pc'[r] = "insert" => r # p /\ push_pc[r] = "insert"
    BY <1>3 DEF QueueTypeOK
  <2> QED BY <1>2, <1>3, <1>6, <1>7, <2>1 DEF Filled
<1> QED BY <1>8, <1>9, <1>10, <1>11, <1>12

(* The semaphore operations and a pull that finds nothing move nothing.    *)
LEMMA QueueSignal ==
  ASSUME QueueInv, NEW p \in Producer, semaphore_signal(p)
  PROVE  QueueInv'
<1> USE DEF QueueInv
<1>1. QueueTypeOK'
  BY DEF QueueTypeOK, semaphore_signal, lists, pulls, flushed
<1>2. EntryHeldOnce' /\ \A q \in Queue : Linked(q)' = Linked(q)
  BY SamePlaces DEF semaphore_signal, lists, pulls
<1>3. InHand' /\ Counted' /\ Filled'
  BY <1>2 DEF InHand, Counted, Filled, semaphore_signal, QueueTypeOK, lists, pulls
<1> QED BY <1>1, <1>2, <1>3

LEMMA QueueNoMove ==
  ASSUME QueueInv, NEW q \in Queue, semaphore_wait(q) \/ ExtractNothing(q) \/ semaphore_flush(q)
  PROVE  QueueInv'
<1> USE DEF QueueInv
<1>1. /\ UNCHANGED <<list, no, unused, allocated, content, push_pc, push_q, push_item, sent,
                      pull_item, got, flushes>>
      /\ sem' \in [Queue -> Nat] /\ flushing' \in [Queue -> BOOLEAN]
  <2>1. CASE semaphore_wait(q)
    BY <2>1 DEF semaphore_wait, QueueTypeOK, lists, pushes, flushed
  <2>2. CASE ExtractNothing(q)
    BY <2>2 DEF ExtractNothing, QueueTypeOK, lists, pushes, flushed
  <2>3. CASE semaphore_flush(q)
    BY <2>3 DEF semaphore_flush, QueueTypeOK, lists, pushes, pulls
  <2> QED BY <2>1, <2>2, <2>3
<1>2. /\ pull_pc' \in [Queue -> {"wait", "extract", "copy", "reset", "recycle"}]
      /\ \A r \in Queue :
            \/ pull_pc'[r] = pull_pc[r]
            \/ pull_pc[r] \in {"wait", "extract"} /\ pull_pc'[r] \in {"wait", "extract"}
  <2> HIDE DEF QueueInv
  <2>1. pull_pc \in [Queue -> {"wait", "extract", "copy", "reset", "recycle"}]
    BY DEF QueueInv, QueueTypeOK
  <2>2. CASE semaphore_wait(q)
    BY <2>1, <2>2 DEF semaphore_wait
  <2>3. CASE ExtractNothing(q)
    BY <2>1, <2>3 DEF ExtractNothing
  <2>4. CASE semaphore_flush(q)
    BY <2>1, <2>4 DEF semaphore_flush, pulls
  <2> QED BY <2>2, <2>3, <2>4
<1>3. QueueTypeOK'
  BY <1>1, <1>2 DEF QueueTypeOK
<1>4. EntryHeldOnce' /\ \A r \in Queue : Linked(r)' = Linked(r)
  BY <1>1, SamePlaces
<1>5. InHand' /\ Counted' /\ Filled'
  BY <1>1, <1>2, <1>4 DEF InHand, Counted, Filled
<1> QED BY <1>3, <1>4, <1>5

(* Unlinking moves the oldest entry of a list to the consumer's hand.      *)
LEMMA QueueExtract ==
  ASSUME QueueInv, NEW q \in Queue, queue_msg_extract(q)
  PROVE  QueueInv'
<1> USE DEF QueueInv
<1>1. PICK e : e = Head(list[q])
  OBVIOUS
<1>2. list[q] \in Seq(Entry) /\ list[q] # <<>> /\ Injective(list[q])
  BY DEF QueueTypeOK, EntryHeldOnce, queue_msg_extract
<1>3. /\ e \in Entry /\ e \in Linked(q)
      /\ Tail(list[q]) \in Seq(Entry)
      /\ Len(list[q]) > 0 /\ Len(Tail(list[q])) = Len(list[q]) - 1
      /\ Elems(Tail(list[q])) = Linked(q) \ {e}
      /\ Injective(Tail(list[q]))
  BY <1>1, <1>2, TailElems DEF Linked
<1>4. /\ list' = [list EXCEPT ![q] = Tail(list[q])]
      /\ no' = [no EXCEPT ![q] = no[q] - 1]
      /\ pull_item' = [pull_item EXCEPT ![q] = e]
      /\ pull_pc' = [pull_pc EXCEPT ![q] = "copy"]
      /\ UNCHANGED <<sem, unused, allocated, content, push_pc, push_q, push_item, sent, got,
                      flushing, flushes, Unused, Pushed>>
  BY <1>1 DEF queue_msg_extract, pushes, flushed, Unused, Pushed
<1>5. list'[q] = Tail(list[q]) /\ \A r \in Queue : r # q => list'[r] = list[r]
  BY <1>4 DEF QueueTypeOK
<1>6. Linked(q)' = Linked(q) \ {e} /\ \A r \in Queue : r # q => Linked(r)' = Linked(r)
  BY <1>3, <1>5 DEF Linked
<1>7. pull_item[q] = NoEntry /\ e \notin Pulled
  BY <1>3 DEF InHand, queue_msg_extract, EntryHeldOnce
<1>8. /\ pull_item' \in [Queue -> Entry \cup {NoEntry}]
      /\ Pulled' = Pulled \cup {e}
      /\ pull_item'[q] = e /\ e # NoEntry
      /\ \A r \in Queue : r # q => pull_item'[r] = pull_item[r]
      /\ \A r, u \in Queue :
            pull_item'[r] = pull_item'[u] => r = u \/ pull_item'[r] = NoEntry
  BY <1>3, <1>4, <1>7, PullTakes
<1>9. QueueTypeOK'
  <2>1. list' \in [Queue -> Seq(Entry)]
    BY <1>3, <1>4 DEF QueueTypeOK
  <2>2. no' \in [Queue -> Nat]
    <3>1. no[q] - 1 \in Nat
      BY <1>2, <1>3, LenProperties DEF Counted
    <3> QED BY <1>4, <3>1 DEF QueueTypeOK
  <2>3. pull_pc' \in [Queue -> {"wait", "extract", "copy", "reset", "recycle"}]
    BY <1>4 DEF QueueTypeOK
  <2> QED BY <1>4, <1>8, <2>1, <2>2, <2>3 DEF QueueTypeOK
<1>10. EntryHeldOnce'
  <2>1. \A r \in Queue : Injective(list'[r])
    BY <1>3, <1>5 DEF EntryHeldOnce
  <2>2. \A r, u \in Queue : r # u => Linked(r)' \cap Linked(u)' = {}
    BY <1>6 DEF EntryHeldOnce
  <2>3. \A r \in Queue : Linked(r)' \cap (Unused \cup Pushed \cup Pulled') = {}
    BY <1>3, <1>6, <1>8 DEF EntryHeldOnce
  <2> QED BY <1>3, <1>4, <1>6, <1>8, <2>1, <2>2, <2>3 DEF EntryHeldOnce
<1>11. InHand'
  BY <1>4, <1>8 DEF InHand, QueueTypeOK
<1>12. Counted'
  BY <1>3, <1>4, <1>5 DEF Counted, QueueTypeOK
<1>13. Filled'
  <2>1. \A r \in Queue : pull_pc'[r] = "copy" => r = q \/ pull_pc[r] = "copy"
    BY <1>4 DEF QueueTypeOK
  <2> QED BY <1>3, <1>4, <1>6, <1>8, <2>1 DEF Filled
<1> QED BY <1>9, <1>10, <1>11, <1>12, <1>13

(* Copying reads the entry; the message is the one that was pushed.        *)
LEMMA QueueCopy ==
  ASSUME QueueInv, NEW q \in Queue, CopyMsg(q)
  PROVE  QueueInv'
<1> USE DEF QueueInv
<1>1. Append(got[q], content[pull_item[q]]) \in Seq(Msg)
  BY AppendElems DEF Filled, CopyMsg, QueueTypeOK
<1>2. /\ got' = [got EXCEPT ![q] = Append(got[q], content[pull_item[q]])]
      /\ pull_pc' = [pull_pc EXCEPT ![q] = "reset"]
      /\ UNCHANGED <<list, no, sem, unused, allocated, content, push_pc, push_q, push_item,
                      sent, pull_item, flushing, flushes>>
  BY DEF CopyMsg, lists, pushes, flushed
<1>3. QueueTypeOK'
  BY <1>1, <1>2 DEF QueueTypeOK
<1>4. EntryHeldOnce' /\ \A r \in Queue : Linked(r)' = Linked(r)
  BY <1>2, SamePlaces
<1>5. InHand' /\ Counted' /\ Filled'
  BY <1>2, <1>4 DEF InHand, Counted, Filled, CopyMsg, QueueTypeOK
<1> QED BY <1>3, <1>4, <1>5

(* Erasing writes to an entry that no list and no other thread has.        *)
LEMMA QueueReset ==
  ASSUME QueueInv, NEW q \in Queue, Reset(q)
  PROVE  /\ QueueInv'
         /\ \A r \in Queue : \A e \in Linked(r) : content'[e] = content[e]
         /\ \A r \in Queue : r # q /\ pull_item[r] # NoEntry =>
                content'[pull_item[r]] = content[pull_item[r]]
<1> USE DEF QueueInv
<1>1. pull_item[q] # NoEntry
  BY DEF InHand, Reset
<1>2. pull_item[q] \in Pulled /\ pull_item[q] \in Entry
  BY <1>1 DEF QueueTypeOK, Pulled
<1>3. /\ content' \in [Entry -> Msg \cup {NoMsg}]
      /\ \A e \in Entry : e # pull_item[q] => content'[e] = content[e]
  BY <1>2 DEF Reset, QueueTypeOK
<1>4. /\ pull_pc' = [pull_pc EXCEPT ![q] = "recycle"]
      /\ UNCHANGED <<list, no, sem, unused, allocated, push_pc, push_q, push_item, sent,
                      pull_item, got, flushing, flushes>>
  BY DEF Reset, lists, pushes, flushed
<1>5. QueueTypeOK'
  BY <1>3, <1>4 DEF QueueTypeOK
<1>6. EntryHeldOnce' /\ \A r \in Queue : Linked(r)' = Linked(r)
  BY <1>4, SamePlaces
<1>7. \A r \in Queue : \A e \in Linked(r) : content'[e] = content[e]
  BY <1>2, <1>3, ElemsType DEF EntryHeldOnce
<1>8. \A r \in Queue : r # q /\ pull_item[r] # NoEntry =>
         content'[pull_item[r]] = content[pull_item[r]]
  BY <1>2, <1>3 DEF EntryHeldOnce, QueueTypeOK
<1>9. \A p \in Producer : push_item[p] # NoEntry =>
         content'[push_item[p]] = content[push_item[p]]
  <2>1. \A p \in Producer : push_item[p] # NoEntry => push_item[p] \in Pushed
    BY DEF Pushed
  <2> QED BY <1>2, <1>3, <2>1, ElemsType DEF EntryHeldOnce
<1>10. InHand' /\ Counted'
  BY <1>4 DEF InHand, Counted, Reset, QueueTypeOK
<1>11. Filled'
  <2>1. \A r \in Queue : pull_pc'[r] = "copy" => r # q /\ pull_pc[r] = "copy" /\ pull_item[r] # NoEntry
    BY <1>4 DEF QueueTypeOK, InHand
  <2>2. \A p \in Producer : push_pc[p] = "insert" => push_item[p] # NoEntry
    BY DEF InHand
  <2> QED BY <1>4, <1>6, <1>7, <1>8, <1>9, <2>1, <2>2 DEF Filled
<1> QED BY <1>5, <1>6, <1>7, <1>8, <1>10, <1>11

(* Recycling moves the entry from the consumer's hand to the unused ones.  *)
LEMMA QueueRecycle ==
  ASSUME QueueInv, NEW q \in Queue, queue_msg_recycle(q)
  PROVE  QueueInv'
<1> USE DEF QueueInv
<1>1. PICK e \in Entry : e = pull_item[q]
  BY DEF InHand, queue_msg_recycle, QueueTypeOK
<1>2. pull_item[q] # NoEntry /\ e \in Pulled /\ e \notin Unused
  BY <1>1, QueueAssumption DEF Pulled, EntryHeldOnce
<1>3. /\ unused' = Append(unused, e)
      /\ pull_item' = [pull_item EXCEPT ![q] = NoEntry]
      /\ pull_pc' = [pull_pc EXCEPT ![q] = "wait"]
      /\ UNCHANGED <<list, no, sem, allocated, content, push_pc, push_q, push_item, sent, got,
                      flushing, flushes, Pushed>>
      /\ \A r \in Queue : Linked(r)' = Linked(r)
  BY <1>1 DEF queue_msg_recycle, pushes, flushed, Pushed, Linked
<1>4. unused' \in Seq(Entry) /\ Unused' = Unused \cup {e} /\ Injective(unused')
  BY <1>2, <1>3, AppendElems DEF QueueTypeOK, EntryHeldOnce, Unused
<1>5. /\ pull_item' \in [Queue -> Entry \cup {NoEntry}]
      /\ Pulled' = Pulled \ {e}
      /\ pull_item'[q] = NoEntry
      /\ \A r \in Queue : r # q => pull_item'[r] = pull_item[r]
      /\ \A r, u \in Queue :
            pull_item'[r] = pull_item'[u] => r = u \/ pull_item'[r] = NoEntry
  BY <1>1, <1>2, <1>3, PullReleases
<1>6. QueueTypeOK'
  BY <1>3, <1>4, <1>5 DEF QueueTypeOK
<1>7. EntryHeldOnce'
  BY <1>2, <1>3, <1>4, <1>5 DEF EntryHeldOnce
<1>8. InHand' /\ Counted'
  BY <1>3, <1>5 DEF InHand, Counted, QueueTypeOK
<1>9. Filled'
  <2>1. \A r \in Queue : pull_pc'[r] = "copy" => r # q /\ pull_pc[r] = "copy"
    BY <1>3 DEF QueueTypeOK
  <2> QED BY <1>3, <1>5, <2>1 DEF Filled
<1> QED BY <1>6, <1>7, <1>8, <1>9

(* A flush moves a whole list to the unused entries.                       *)
LEMMA QueueFlush ==
  ASSUME QueueInv, NEW q \in Queue, queue_msg_list_flush(q)
  PROVE  /\ QueueInv'
         /\ \A r \in Queue : r # q => \A e \in Linked(r) : content'[e] = content[e]
         /\ \A r \in Queue : pull_item[r] # NoEntry =>
                content'[pull_item[r]] = content[pull_item[r]]
<1> USE DEF QueueInv
<1>1. /\ list' = [list EXCEPT ![q] = <<>>]
      /\ no' = [no EXCEPT ![q] = 0]
      /\ unused' = unused \o list[q]
      /\ content' = [e \in Entry |-> IF e \in Linked(q) THEN NoMsg ELSE content[e]]
      /\ UNCHANGED <<sem, allocated, push_pc, push_q, push_item, sent, pull_pc, pull_item, got,
                      Pushed, Pulled>>
  BY DEF queue_msg_list_flush, pushes, pulls, Pushed, Pulled
<1>2. flushing' \in [Queue -> BOOLEAN] /\ flushes' \in 0 .. MaxFlush
  BY QueueBounds DEF queue_msg_list_flush, QueueTypeOK
<1>3. list'[q] = <<>> /\ \A r \in Queue : r # q => list'[r] = list[r]
  BY <1>1 DEF QueueTypeOK
<1>4. <<>> \in Seq(Entry) /\ Len(<<>>) = 0 /\ Elems(<<>>) = {} /\ Injective(<<>>)
  BY EmptySeq DEF Elems, Injective
<1>5. Linked(q)' = {} /\ \A r \in Queue : r # q => Linked(r)' = Linked(r)
  BY <1>3, <1>4 DEF Linked
<1>6. unused' \in Seq(Entry) /\ Unused' = Unused \cup Linked(q) /\ Injective(unused')
  <2>1. /\ unused \in Seq(Entry) /\ list[q] \in Seq(Entry) /\ Injective(unused)
        /\ Injective(list[q]) /\ Elems(unused) \cap Elems(list[q]) = {}
    BY DEF QueueTypeOK, EntryHeldOnce, Unused, Linked
  <2> QED BY <1>1, <2>1, ConcatElems DEF Unused, Linked
<1>7. content' \in [Entry -> Msg \cup {NoMsg}]
      /\ \A e \in Entry : e \notin Linked(q) => content'[e] = content[e]
  BY <1>1 DEF QueueTypeOK
<1>8. QueueTypeOK'
  <2>1. list' \in [Queue -> Seq(Entry)] /\ no' \in [Queue -> Nat]
    BY <1>1, <1>4 DEF QueueTypeOK
  <2> QED BY <1>1, <1>2, <1>6, <1>7, <2>1 DEF QueueTypeOK
<1>9. EntryHeldOnce'
  <2>1. \A r \in Queue : Injective(list'[r])
    BY <1>3, <1>4 DEF EntryHeldOnce
  <2>2. \A r, u \in Queue : r # u => Linked(r)' \cap Linked(u)' = {}
    BY <1>5 DEF EntryHeldOnce
  <2>3. \A r \in Queue : Linked(r)' \cap (Unused' \cup Pushed \cup Pulled) = {}
    BY <1>5, <1>6 DEF EntryHeldOnce
  <2>4. \A e \in Entry : e \in allocated <=>
           e \in Unused' \cup Pushed \cup Pulled \/ \E r \in Queue : e \in Linked(r)'
    BY <1>5, <1>6 DEF EntryHeldOnce
  <2> QED BY <1>1, <1>6, <2>1, <2>2, <2>3, <2>4 DEF EntryHeldOnce
<1>10. \A r \in Queue : r # q => \A e \in Linked(r) : content'[e] = content[e]
  BY <1>7, ElemsType DEF EntryHeldOnce
<1>11. \A r \in Queue : pull_item[r] # NoEntry => content'[pull_item[r]] = content[pull_item[r]]
  <2>1. \A r \in Queue : pull_item[r] # NoEntry => pull_item[r] \in Pulled
    BY DEF Pulled
  <2> QED BY <1>7, <2>1, ElemsType DEF EntryHeldOnce
<1>12. \A p \in Producer : push_item[p] # NoEntry =>
          content'[push_item[p]] = content[push_item[p]]
  <2>1. \A p \in Producer : push_item[p] # NoEntry => push_item[p] \in Pushed
    BY DEF Pushed
  <2> QED BY <1>7, <2>1, ElemsType DEF EntryHeldOnce
<1>13. InHand' /\ Counted'
  BY <1>1, <1>3, <1>4 DEF InHand, Counted, QueueTypeOK
<1>14. Filled'
  <2>1. \A r \in Queue : \A e \in Linked(r)' : content'[e] \in Msg
    BY <1>5, <1>10 DEF Filled
  <2>2. \A p \in Producer : push_pc'[p] = "insert" => content'[push_item'[p]] \in Msg
    BY <1>1, <1>12 DEF Filled, InHand
  <2>3. \A r \in Queue : pull_pc'[r] = "copy" => content'[pull_item'[r]] \in Msg
    BY <1>1, <1>11 DEF Filled, InHand
  <2> QED BY <2>1, <2>2, <2>3 DEF Filled
<1> QED BY <1>8, <1>9, <1>10, <1>11, <1>13, <1>14

-----------------------------------------------------------------------------
(* The inductive invariant holds whatever the number of queues, producers, *)
(* entries, pushes and flushes.                                            *)
THEOREM QueueInvariant == QueueSpec => []QueueInv
<1>1. QueueInv /\ [QueueNext]_qvars => QueueInv'
  <2> SUFFICES ASSUME QueueInv, [QueueNext]_qvars PROVE QueueInv'
    OBVIOUS
  <2>1. CASE UNCHANGED qvars
    <3>1. EntryHeldOnce' /\ \A q \in Queue : Linked(q)' = Linked(q)
      BY <2>1, SamePlaces DEF QueueInv, qvars, lists, pushes, pulls
    <3>2. QueueTypeOK'
      BY <2>1 DEF QueueInv, QueueTypeOK, qvars, lists, pushes, pulls, flushed
    <3>3. InHand' /\ Counted' /\ Filled'
      BY <2>1, <3>1 DEF QueueInv, InHand, Counted, Filled, qvars, lists, pushes, pulls
    <3> QED BY <3>1, <3>2, <3>3 DEF QueueInv
  <2>2. ASSUME NEW p \in Producer, Push(p) PROVE QueueInv'
    BY <2>2, QueueReuse, QueueAllocate, QueuePushFails, QueueFill, QueueInsert, QueueSignal DEF Push
  <2>3. ASSUME NEW q \in Queue, Pull(q) PROVE QueueInv'
    BY <2>3, QueueNoMove, QueueExtract, QueueCopy, QueueReset, QueueRecycle DEF Pull
  <2>4. ASSUME NEW q \in Queue, Flush(q) PROVE QueueInv'
    BY <2>4, QueueFlush, QueueNoMove DEF Flush
  <2> QED BY <2>1, <2>2, <2>3, <2>4 DEF QueueNext
<1> QED BY <1>1, QueueStart, PTL DEF QueueSpec

(* The lists, counters and hands of the queues keep their types: a counter *)
(* that is decremented after its list was emptied never gets negative.     *)
THEOREM QueueTypeCorrect == QueueSpec => []QueueTypeOK
<1>1. QueueInv => QueueTypeOK
  BY DEF QueueInv
<1> QED BY <1>1, QueueInvariant, PTL

(* No entry is in two places at once and none is lost: neither a recycled  *)
(* entry nor a flush lets two threads write to the same one.               *)
THEOREM EntriesHeldOnce == QueueSpec => []EntryHeldOnce
<1>1. QueueInv => EntryHeldOnce
  BY DEF QueueInv
<1> QED BY <1>1, QueueInvariant, PTL

-----------------------------------------------------------------------------
(* The producers that are about to signal a queue, when one of them        *)
(* reaches that point or leaves it.                                        *)
LEMMA SignallingCounts ==
  ASSUME NEW q \in Queue
  PROVE  IsFiniteSet(Signalling(q)) /\ Cardinality(Signalling(q)) \in Nat
<1>1. Signalling(q) \in SUBSET Producer
  BY DEF Signalling
<1>2. IsFiniteSet(Signalling(q))
  BY <1>1, ProducerAssumption, FS_Subset
<1> QED BY <1>2, FS_CardinalityType

LEMMA SignallingSame ==
  ASSUME QueueTypeOK, NEW p \in Producer, push_pc[p] # "signal", push_pc'[p] # "signal",
         \A r \in Producer : r # p => push_pc'[r] = push_pc[r] /\ push_q'[r] = push_q[r]
  PROVE  \A q \in Queue : Signalling(q)' = Signalling(q)
BY DEF Signalling

LEMMA SignallingBegins ==
  ASSUME QueueTypeOK, NEW p \in Producer, push_pc[p] # "signal", push_q' = push_q,
         push_pc' = [push_pc EXCEPT ![p] = "signal"], NEW q \in Queue
  PROVE  Cardinality(Signalling(q)') = Cardinality(Signalling(q)) + (IF push_q[p] = q THEN 1 ELSE 0)
<1>1. CASE push_q[p] = q
  <2>1. Signalling(q)' = Signalling(q) \cup {p} /\ p \notin Signalling(q)
    BY <1>1 DEF Signalling, QueueTypeOK
  <2> QED BY <1>1, <2>1, SignallingCounts, FS_AddElement
<1>2. CASE push_q[p] # q
  <2>1. Signalling(q)' = Signalling(q)
    BY <1>2 DEF Signalling, QueueTypeOK
  <2> QED BY <1>2, <2>1, SignallingCounts
<1> QED BY <1>1, <1>2

LEMMA SignallingEnds ==
  ASSUME QueueTypeOK, NEW p \in Producer, push_pc[p] = "signal", push_q' = push_q,
         push_pc' = [push_pc EXCEPT ![p] = "idle"], NEW q \in Queue
  PROVE  Cardinality(Signalling(q)') = Cardinality(Signalling(q)) - (IF push_q[p] = q THEN 1 ELSE 0)
<1>1. CASE push_q[p] = q
  <2>1. Signalling(q)' = Signalling(q) \ {p} /\ p \in Signalling(q)
    BY <1>1 DEF Signalling, QueueTypeOK
  <2> QED BY <1>1, <2>1, SignallingCounts, FS_RemoveElement
<1>2. CASE push_q[p] # q
  <2>1. Signalling(q)' = Signalling(q)
    BY <1>2 DEF Signalling, QueueTypeOK
  <2> QED BY <1>2, <2>1, SignallingCounts
<1> QED BY <1>1, <1>2

(* A flush is counted from its beginning, so that none is under way while  *)
(* none is counted.                                                        *)
LEMMA FlushCountedStep ==
  ASSUME QueueInv, FlushCounted, [QueueNext]_qvars
  PROVE  FlushCounted' /\ (flushes' = 0 => flushes = 0)
<1>0. flushes \in Nat /\ flushing \in [Queue -> BOOLEAN]
  BY QueueBounds DEF QueueInv, QueueTypeOK
<1>1. CASE UNCHANGED <<flushing, flushes>>
  BY <1>1 DEF FlushCounted
<1>2. ASSUME NEW q \in Queue, queue_msg_list_flush(q)
      PROVE  FlushCounted' /\ (flushes' = 0 => flushes = 0)
  <2>1. flushes' = flushes + 1
    BY <1>2 DEF queue_msg_list_flush
  <2> QED BY <1>0, <2>1 DEF FlushCounted
<1>3. ASSUME NEW q \in Queue, semaphore_flush(q)
      PROVE  FlushCounted' /\ (flushes' = 0 => flushes = 0)
  BY <1>0, <1>3 DEF semaphore_flush, FlushCounted
<1> QED
  BY <1>1, <1>2, <1>3 DEF QueueNext, Push, Pull, Flush, Reuse, Allocate, PushFails, Fill,
     queue_msg_insert, semaphore_signal, semaphore_wait, queue_msg_extract, ExtractNothing,
     CopyMsg, Reset, queue_msg_recycle, qvars, flushed

(* The steps of a push.                                                    *)
LEMMA TokenPush ==
  ASSUME QueueInv, TokenPerMessage, flushes = 0, NEW p \in Producer, Push(p)
  PROVE  TokenPerMessage'
<1> SUFFICES ASSUME NEW q \in Queue
             PROVE  sem'[q] + Cardinality(Signalling(q)') + TokenTaken(q)' = Len(list'[q])
  BY DEF TokenPerMessage
<1>0. /\ sem[q] + Cardinality(Signalling(q)) + TokenTaken(q) = Len(list[q])
      /\ sem[q] \in Nat /\ list[q] \in Seq(Entry) /\ Len(list[q]) \in Nat
      /\ TokenTaken(q) \in {0, 1} /\ Cardinality(Signalling(q)) \in Nat
  BY SignallingCounts, LenProperties DEF TokenPerMessage, QueueInv, QueueTypeOK, TokenTaken
<1>1. CASE queue_msg_insert(p)
  <2>1. /\ UNCHANGED <<sem, push_q, pull_pc>> /\ push_pc[p] = "insert"
        /\ push_pc' = [push_pc EXCEPT ![p] = "signal"]
        /\ list' = [list EXCEPT ![push_q[p]] = Append(list[push_q[p]], push_item[p])]
    BY <1>1 DEF queue_msg_insert, pulls
  <2>2. TokenTaken(q)' = TokenTaken(q)
    BY <2>1 DEF TokenTaken
  <2>3. Cardinality(Signalling(q)') = Cardinality(Signalling(q)) + (IF push_q[p] = q THEN 1 ELSE 0)
    BY <2>1, SignallingBegins DEF QueueInv
  <2>4. push_item[p] \in Entry /\ push_q[p] \in Queue
    BY <2>1 DEF QueueInv, QueueTypeOK, InHand
  <2>5. Len(list'[q]) = Len(list[q]) + (IF push_q[p] = q THEN 1 ELSE 0)
    <3>1. CASE push_q[p] = q
      <4>1. list'[q] = Append(list[q], push_item[p])
        BY <2>1, <3>1 DEF QueueInv, QueueTypeOK
      <4> QED BY <1>0, <2>4, <3>1, <4>1, AppendElems
    <3>2. CASE push_q[p] # q
      BY <1>0, <2>1, <2>4, <3>2 DEF QueueInv, QueueTypeOK
    <3> QED BY <3>1, <3>2
  <2>6. sem'[q] = sem[q]
    BY <2>1
  <2> QED
    <3> DEFINE n == Len(list[q])
               m == Len(list'[q])
               d == IF push_q[p] = q THEN 1 ELSE 0
    <3>1. sem[q] + Cardinality(Signalling(q)) + TokenTaken(q) = n /\ m = n + d
      BY <1>0, <2>5
    <3>2. d \in Nat /\ n \in Nat /\ Cardinality(Signalling(q)') = Cardinality(Signalling(q)) + d
      BY <1>0, <2>3
    <3> HIDE DEF n, m, d
    <3>3. sem[q] + (Cardinality(Signalling(q)) + d) + TokenTaken(q) = m
      BY <1>0, <3>1, <3>2
    <3> QED BY <2>2, <2>6, <3>2, <3>3 DEF m
<1>2. CASE semaphore_signal(p)
  <2>1. /\ UNCHANGED <<list, push_q, pull_pc>> /\ push_pc[p] = "signal"
        /\ push_pc' = [push_pc EXCEPT ![p] = "idle"]
        /\ sem' = [sem EXCEPT ![push_q[p]] = sem[push_q[p]] + 1]
    BY <1>2 DEF semaphore_signal, lists, pulls
  <2>2. TokenTaken(q)' = TokenTaken(q)
    BY <2>1 DEF TokenTaken
  <2>3. Cardinality(Signalling(q)') = Cardinality(Signalling(q)) - (IF push_q[p] = q THEN 1 ELSE 0)
    BY <2>1, SignallingEnds DEF QueueInv
  <2>4. sem'[q] = sem[q] + (IF push_q[p] = q THEN 1 ELSE 0)
    BY <1>0, <2>1 DEF QueueInv, QueueTypeOK
  <2> QED BY <1>0, <2>1, <2>2, <2>3, <2>4
<1>3. CASE (\E r \in Queue : Reuse(p, r) \/ Allocate(p, r)) \/ PushFails(p) \/ Fill(p)
  <2>1. UNCHANGED <<sem, list, pull_pc>>
    BY <1>3 DEF Reuse, Allocate, PushFails, Fill, lists, pulls
  <2>2. TokenTaken(q)' = TokenTaken(q)
    BY <2>1 DEF TokenTaken
  <2>3. /\ push_pc[p] # "signal" /\ push_pc'[p] # "signal"
        /\ \A r \in Producer : r # p => push_pc'[r] = push_pc[r] /\ push_q'[r] = push_q[r]
    BY <1>3 DEF Reuse, Allocate, PushFails, Fill, QueueInv, QueueTypeOK
  <2>4. Signalling(q)' = Signalling(q)
    BY <2>3, SignallingSame DEF QueueInv
  <2> QED BY <1>0, <2>1, <2>2, <2>4
<1> QED BY <1>1, <1>2, <1>3 DEF Push

(* The steps of a pull.                                                    *)
LEMMA TokenPull ==
  ASSUME QueueInv, TokenPerMessage, flushes = 0, NEW r \in Queue, Pull(r)
  PROVE  TokenPerMessage'
<1> SUFFICES ASSUME NEW q \in Queue
             PROVE  sem'[q] + Cardinality(Signalling(q)') + TokenTaken(q)' = Len(list'[q])
  BY DEF TokenPerMessage
<1>0. /\ sem[q] + Cardinality(Signalling(q)) + TokenTaken(q) = Len(list[q])
      /\ sem[q] \in Nat /\ list[q] \in Seq(Entry) /\ Len(list[q]) \in Nat
      /\ TokenTaken(q) \in {0, 1} /\ Cardinality(Signalling(q)) \in Nat
  BY SignallingCounts, LenProperties DEF TokenPerMessage, QueueInv, QueueTypeOK, TokenTaken
<1>1. Signalling(q)' = Signalling(q)
  BY DEF Pull, semaphore_wait, queue_msg_extract, ExtractNothing, CopyMsg, Reset,
         queue_msg_recycle, pushes, Signalling
<1>2. CASE semaphore_wait(r)
  <2>1. /\ UNCHANGED list /\ pull_pc[r] = "wait"
        /\ pull_pc' = [pull_pc EXCEPT ![r] = "extract"]
        /\ sem' = [sem EXCEPT ![r] = sem[r] - 1]
    BY <1>2 DEF semaphore_wait, lists
  <2>2. TokenTaken(q)' = TokenTaken(q) + (IF q = r THEN 1 ELSE 0)
    BY <2>1 DEF TokenTaken, QueueInv, QueueTypeOK
  <2>3. sem'[q] = sem[q] - (IF q = r THEN 1 ELSE 0)
    BY <1>0, <2>1 DEF QueueInv, QueueTypeOK
  <2> QED BY <1>0, <1>1, <2>1, <2>2, <2>3
<1>3. CASE queue_msg_extract(r)
  <2>1. /\ UNCHANGED sem /\ pull_pc[r] = "extract" /\ list[r] # <<>>
        /\ pull_pc' = [pull_pc EXCEPT ![r] = "copy"]
        /\ list' = [list EXCEPT ![r] = Tail(list[r])]
    BY <1>3 DEF queue_msg_extract
  <2>2. TokenTaken(q)' = TokenTaken(q) - (IF q = r THEN 1 ELSE 0)
    BY <2>1 DEF TokenTaken, QueueInv, QueueTypeOK
  <2>3. Len(list'[q]) = Len(list[q]) - (IF q = r THEN 1 ELSE 0)
    <3>1. CASE q = r
      <4>1. list'[q] = Tail(list[q]) /\ Injective(list[q])
        BY <2>1, <3>1 DEF QueueInv, QueueTypeOK, EntryHeldOnce
      <4> QED BY <1>0, <2>1, <3>1, <4>1, TailElems
    <3>2. CASE q # r
      BY <1>0, <2>1, <3>2 DEF QueueInv, QueueTypeOK
    <3> QED BY <3>1, <3>2
  <2>4. sem'[q] = sem[q]
    BY <2>1
  <2> QED
    <3> DEFINE n == Len(list[q])
               m == Len(list'[q])
               d == IF q = r THEN 1 ELSE 0
    <3>1. sem[q] + Cardinality(Signalling(q)) + TokenTaken(q) = n /\ m = n - d
      BY <1>0, <2>3
    <3>2. d \in Nat /\ n \in Nat /\ TokenTaken(q)' = TokenTaken(q) - d
      BY <1>0, <2>2
    <3> HIDE DEF n, m, d
    <3>3. sem[q] + Cardinality(Signalling(q)) + (TokenTaken(q) - d) = m
      BY <1>0, <3>1, <3>2
    <3> QED BY <1>1, <2>4, <3>2, <3>3 DEF m
<1>4. CASE ExtractNothing(r)
  <2>1. list[r] = <<>> /\ pull_pc[r] = "extract"
    BY <1>4 DEF ExtractNothing
  <2>2. sem[r] + Cardinality(Signalling(r)) + TokenTaken(r) = Len(list[r])
    BY DEF TokenPerMessage
  <2>3. sem[r] \in Nat /\ Cardinality(Signalling(r)) \in Nat /\ TokenTaken(r) = 1 /\ Len(list[r]) = 0
    BY <2>1, SignallingCounts, EmptySeq DEF QueueInv, QueueTypeOK, TokenTaken
  <2> QED BY <2>2, <2>3
<1>5. CASE CopyMsg(r) \/ Reset(r) \/ queue_msg_recycle(r)
  <2>1. UNCHANGED <<list, sem>>
    BY <1>5 DEF CopyMsg, Reset, queue_msg_recycle, lists
  <2>2. TokenTaken(q)' = TokenTaken(q)
    BY <1>5 DEF TokenTaken, CopyMsg, Reset, queue_msg_recycle, QueueInv, QueueTypeOK
  <2> QED BY <1>0, <1>1, <2>1, <2>2
<1> QED BY <1>2, <1>3, <1>4, <1>5 DEF Pull

(* As long as no queue was flushed, the semaphore of a queue counts the    *)
(* messages that wait in it, up to the threads between the list and the    *)
(* semaphore: a consumer that was let through by semaphore_wait always     *)
(* finds an entry, and no linked message lacks its token.                  *)
THEOREM TokensMatchMessages == QueueSpec => []TokenPerMessage
<1>1. QueueInit => TokenPerMessage /\ FlushCounted
  <2> SUFFICES ASSUME QueueInit PROVE TokenPerMessage /\ FlushCounted
    OBVIOUS
  <2>1. \A q \in Queue : Signalling(q) = {} /\ TokenTaken(q) = 0 /\ sem[q] = 0 /\ list[q] = <<>>
    BY DEF QueueInit, Signalling, TokenTaken
  <2>2. Cardinality({}) = 0 /\ Len(<<>>) = 0
    BY FS_EmptySet, EmptySeq
  <2>3. ASSUME NEW q \in Queue
        PROVE  sem[q] + Cardinality(Signalling(q)) + TokenTaken(q) = Len(list[q])
    <3>1. Cardinality(Signalling(q)) = 0 /\ Len(list[q]) = 0
      BY <2>1, <2>2
    <3> QED BY <2>1, <3>1
  <2>4. FlushCounted
    BY DEF FlushCounted, QueueInit
  <2> QED BY <2>3, <2>4 DEF TokenPerMessage
<1>2. QueueInv /\ TokenPerMessage /\ FlushCounted /\ [QueueNext]_qvars
        => (TokenPerMessage /\ FlushCounted)'
  <2> SUFFICES ASSUME QueueInv, TokenPerMessage, FlushCounted, [QueueNext]_qvars
               PROVE  TokenPerMessage'
    BY FlushCountedStep
  <2> SUFFICES ASSUME flushes' = 0 PROVE TokenPerMessage'
    BY DEF TokenPerMessage
  <2>1. flushes = 0
    BY FlushCountedStep
  <2>2. CASE UNCHANGED qvars
    BY <2>2 DEF qvars, lists, pushes, pulls, flushed, TokenPerMessage, Signalling, TokenTaken
  <2>3. ASSUME NEW q \in Queue, Flush(q) PROVE TokenPerMessage'
    <3>1. flushes' # 0 \/ flushing[q]
      BY <2>1, <2>3 DEF Flush, queue_msg_list_flush, semaphore_flush
    <3> QED BY <2>1, <3>1 DEF FlushCounted
  <2> QED BY <2>1, <2>2, <2>3, TokenPush, TokenPull DEF QueueNext
<1> QED BY <1>1, <1>2, QueueInvariant, PTL DEF QueueSpec

-----------------------------------------------------------------------------
(* The messages of a list, when an entry is added or removed and when the  *)
(* contents of other entries change.                                       *)
LEMMA ContentsAppend ==
  ASSUME NEW S, NEW s \in Seq(S), NEW e \in S, NEW c
  PROVE  Contents(Append(s, e), c) = Append(Contents(s, c), c[e])
<1> DEFINE T == {c[x] : x \in S}
<1>1. /\ Append(s, e) \in Seq(S) /\ Len(Append(s, e)) = Len(s) + 1
      /\ \A i \in 1 .. Len(s) : Append(s, e)[i] = s[i]
      /\ Append(s, e)[Len(s) + 1] = e
  BY AppendProperties
<1>2. Len(s) \in Nat /\ s \in [1 .. Len(s) -> S]
  BY LenProperties
<1>3. Contents(s, c) \in [1 .. Len(s) -> T]
  BY <1>2 DEF Contents
<1>0. c[e] \in T
  OBVIOUS
<1> HIDE DEF T
<1>4. Contents(s, c) \in Seq(T) /\ Len(Contents(s, c)) = Len(s)
  BY <1>2, <1>3
<1>5. /\ Append(Contents(s, c), c[e]) \in Seq(T)
      /\ Len(Append(Contents(s, c), c[e])) = Len(s) + 1
      /\ \A i \in 1 .. Len(s) : Append(Contents(s, c), c[e])[i] = c[s[i]]
      /\ Append(Contents(s, c), c[e])[Len(s) + 1] = c[e]
  BY <1>0, <1>2, <1>4, AppendProperties DEF Contents
<1>6. Append(Contents(s, c), c[e]) = [i \in 1 .. Len(s) + 1 |-> Append(Contents(s, c), c[e])[i]]
  BY <1>2, <1>5
<1>7. \A i \in 1 .. Len(s) + 1 : Append(Contents(s, c), c[e])[i] = c[Append(s, e)[i]]
  BY <1>1, <1>2, <1>5
<1> QED BY <1>1, <1>6, <1>7 DEF Contents

LEMMA ContentsTail ==
  ASSUME NEW S, NEW s \in Seq(S), s # <<>>, NEW c
  PROVE  /\ Contents(s, c) # <<>>
         /\ Head(Contents(s, c)) = c[Head(s)]
         /\ Contents(Tail(s), c) = Tail(Contents(s, c))
<1> DEFINE T == {c[x] : x \in S}
<1>1. /\ Tail(s) \in Seq(S) /\ Len(Tail(s)) = Len(s) - 1
      /\ \A i \in 1 .. Len(Tail(s)) : Tail(s)[i] = s[i + 1]
  BY HeadTailProperties
<1>2. Len(s) \in Nat \ {0} /\ s \in [1 .. Len(s) -> S] /\ Head(s) = s[1]
  BY LenProperties, EmptySeq
<1>3. Contents(s, c) \in [1 .. Len(s) -> T]
  BY <1>2 DEF Contents
<1> HIDE DEF T
<1>4. Contents(s, c) \in Seq(T) /\ Len(Contents(s, c)) = Len(s)
  BY <1>2, <1>3
<1>5. Contents(s, c) # <<>>
  BY <1>2, <1>4
<1>6. Head(Contents(s, c)) = c[Head(s)]
  BY <1>2, <1>4, <1>5 DEF Contents
<1>7. /\ Tail(Contents(s, c)) \in Seq(T) /\ Len(Tail(Contents(s, c))) = Len(s) - 1
      /\ \A i \in 1 .. Len(s) - 1 : Tail(Contents(s, c))[i] = Contents(s, c)[i + 1]
  BY <1>4, <1>5, HeadTailProperties
<1>8. \A i \in 1 .. Len(s) - 1 : Tail(Contents(s, c))[i] = c[Tail(s)[i]]
  BY <1>1, <1>2, <1>7 DEF Contents
<1>9. Tail(Contents(s, c)) = [i \in 1 .. Len(s) - 1 |-> Tail(Contents(s, c))[i]]
  <2>1. Tail(Contents(s, c)) \in [1 .. Len(s) - 1 -> T]
    BY <1>7, LenProperties
  <2> QED BY <2>1
<1> QED BY <1>1, <1>5, <1>6, <1>8, <1>9 DEF Contents

LEMMA ContentsSame ==
  ASSUME NEW S, NEW s \in Seq(S), NEW c, NEW d, \A e \in Elems(s) : c[e] = d[e]
  PROVE  Contents(s, c) = Contents(s, d)
<1>1. \A i \in 1 .. Len(s) : s[i] \in Elems(s)
  BY LenProperties DEF Elems
<1> QED BY <1>1 DEF Contents

(* A step that leaves the lists and the contents of their entries alone,   *)
(* and the consumers, is a stutter of the FIFOs.                           *)
LEMMA FifoStutter ==
  ASSUME QueueInv, UNCHANGED <<list, pull_pc, pull_item, got>>,
         \A q \in Queue : \A e \in Linked(q) : content'[e] = content[e],
         \A q \in Queue : pull_item[q] # NoEntry => content'[pull_item[q]] = content[pull_item[q]]
  PROVE  UNCHANGED <<Waiting, Pulls>>
<1>1. ASSUME NEW q \in Queue
      PROVE  Contents(list[q], content') = Contents(list[q], content)
  <2>1. list[q] \in Seq(Entry)
    BY DEF QueueInv, QueueTypeOK
  <2>2. \A e \in Elems(list[q]) : content'[e] = content[e]
    BY DEF Linked
  <2> QED BY <2>1, <2>2, ContentsSame
<1>2. Waiting' = Waiting
  BY <1>1 DEF Waiting
<1>3. \A q \in Queue : pull_pc[q] = "copy" => content'[pull_item[q]] = content[pull_item[q]]
  BY DEF QueueInv, InHand
<1>4. Pulls' = Pulls
  BY <1>3 DEF Pulls
<1> QED BY <1>2, <1>4

(* Both images are functions on the queues, so a step that changes the     *)
(* value of one queue is an EXCEPT.                                        *)
LEMMA WaitingUpdate ==
  ASSUME NEW q \in Queue, NEW v, Waiting'[q] = v,
         \A r \in Queue : r # q => Waiting'[r] = Waiting[r]
  PROVE  Waiting' = [Waiting EXCEPT ![q] = v]
<1>1. Waiting = [r \in Queue |-> Waiting[r]] /\ Waiting' = [r \in Queue |-> Waiting'[r]]
  BY DEF Waiting
<1> QED BY <1>1

LEMMA PullsUpdate ==
  ASSUME NEW q \in Queue, NEW v, Pulls'[q] = v,
         \A r \in Queue : r # q => Pulls'[r] = Pulls[r]
  PROVE  Pulls' = [Pulls EXCEPT ![q] = v]
<1>1. Pulls = [r \in Queue |-> Pulls[r]] /\ Pulls' = [r \in Queue |-> Pulls'[r]]
  BY DEF Pulls
<1> QED BY <1>1

(* Linking an entry is a Put.                                              *)
LEMMA FifoPut ==
  ASSUME QueueInv, NEW p \in Producer, queue_msg_insert(p)
  PROVE  \E q \in Queue, m \in Msg : Channels!Put(q, m)
<1>1. PICK q \in Queue, e \in Entry : q = push_q[p] /\ e = push_item[p]
  BY DEF QueueInv, InHand, queue_msg_insert, QueueTypeOK
<1>2. content[e] \in Msg
  BY <1>1 DEF QueueInv, Filled, queue_msg_insert
<1>3. /\ list' = [list EXCEPT ![q] = Append(list[q], e)]
      /\ UNCHANGED <<content, pull_pc, pull_item, got>>
  BY <1>1 DEF queue_msg_insert, pulls
<1>4. list'[q] = Append(list[q], e) /\ \A r \in Queue : r # q => list'[r] = list[r]
  BY <1>3 DEF QueueInv, QueueTypeOK
<1>5. Contents(Append(list[q], e), content) = Append(Contents(list[q], content), content[e])
  <2>1. list[q] \in Seq(Entry)
    BY DEF QueueInv, QueueTypeOK
  <2> QED BY <2>1, ContentsAppend
<1>6. Waiting' = [Waiting EXCEPT ![q] = Append(Waiting[q], content[e])]
  <2>1. Waiting'[q] = Append(Waiting[q], content[e])
    BY <1>3, <1>4, <1>5 DEF Waiting
  <2>2. \A r \in Queue : r # q => Waiting'[r] = Waiting[r]
    BY <1>3, <1>4 DEF Waiting
  <2> QED BY <2>1, <2>2, WaitingUpdate
<1>7. Pulls' = Pulls
  BY <1>3 DEF Pulls
<1> QED BY <1>2, <1>6, <1>7 DEF Channels!Put

(* Unlinking one is a Get.                                                 *)
LEMMA FifoGet ==
  ASSUME QueueInv, NEW q \in Queue, queue_msg_extract(q)
  PROVE  Channels!Get(q)
<1>1. list[q] \in Seq(Entry) /\ list[q] # <<>> /\ content \in [Entry -> Msg \cup {NoMsg}]
  BY DEF QueueInv, QueueTypeOK, queue_msg_extract
<1>2. /\ list' = [list EXCEPT ![q] = Tail(list[q])]
      /\ pull_item' = [pull_item EXCEPT ![q] = Head(list[q])]
      /\ pull_pc' = [pull_pc EXCEPT ![q] = "copy"]
      /\ UNCHANGED <<content, got>>
  BY DEF queue_msg_extract
<1>3. list'[q] = Tail(list[q]) /\ \A r \in Queue : r # q => list'[r] = list[r]
  BY <1>2 DEF QueueInv, QueueTypeOK
<1>4. /\ pull_item'[q] = Head(list[q]) /\ pull_pc'[q] = "copy"
      /\ \A r \in Queue : r # q => pull_item'[r] = pull_item[r] /\ pull_pc'[r] = pull_pc[r]
  BY <1>2 DEF QueueInv, QueueTypeOK
<1>5. /\ Contents(list[q], content) # <<>>
      /\ Head(Contents(list[q], content)) = content[Head(list[q])]
      /\ Contents(Tail(list[q]), content) = Tail(Contents(list[q], content))
  BY <1>1, ContentsTail
<1>6. Waiting[q] # <<>> /\ Waiting' = [Waiting EXCEPT ![q] = Tail(Waiting[q])]
  <2>1. Waiting[q] # <<>> /\ Waiting'[q] = Tail(Waiting[q])
    BY <1>2, <1>3, <1>5 DEF Waiting
  <2>2. \A r \in Queue : r # q => Waiting'[r] = Waiting[r]
    BY <1>2, <1>3 DEF Waiting
  <2> QED BY <2>1, <2>2, WaitingUpdate
<1>7. Pulls' = [Pulls EXCEPT ![q] = Append(Pulls[q], Head(Waiting[q]))]
  <2>1. pull_pc[q] = "extract" /\ Pulls[q] = got[q] /\ Head(Waiting[q]) = content[Head(list[q])]
    BY <1>5 DEF queue_msg_extract, Pulls, Waiting
  <2>2. Pulls'[q] = Append(Pulls[q], Head(Waiting[q]))
    BY <1>2, <1>4, <2>1 DEF Pulls
  <2>3. \A r \in Queue : r # q => Pulls'[r] = Pulls[r]
    BY <1>2, <1>4 DEF Pulls
  <2> QED BY <2>2, <2>3, PullsUpdate
<1> QED BY <1>6, <1>7 DEF Channels!Get

(* Copying the entry in hand changes nothing: the pull has been counted    *)
(* since the entry was unlinked.                                           *)
LEMMA FifoCopy ==
  ASSUME QueueInv, NEW q \in Queue, CopyMsg(q)
  PROVE  UNCHANGED <<Waiting, Pulls>>
<1>1. /\ got' = [got EXCEPT ![q] = Append(got[q], content[pull_item[q]])]
      /\ pull_pc' = [pull_pc EXCEPT ![q] = "reset"]
      /\ UNCHANGED <<list, content, pull_item>>
  BY DEF CopyMsg, lists
<1>2. /\ got'[q] = Append(got[q], content[pull_item[q]]) /\ pull_pc'[q] = "reset"
      /\ \A r \in Queue : r # q => got'[r] = got[r] /\ pull_pc'[r] = pull_pc[r]
  BY <1>1 DEF QueueInv, QueueTypeOK
<1>3. pull_pc[q] = "copy"
  BY DEF CopyMsg
<1> QED BY <1>1, <1>2, <1>3 DEF Waiting, Pulls

(* The other steps of a consumer.                                          *)
LEMMA FifoConsumer ==
  ASSUME QueueInv, NEW q \in Queue,
         semaphore_wait(q) \/ ExtractNothing(q) \/ Reset(q) \/ queue_msg_recycle(q)
  PROVE  UNCHANGED <<Waiting, Pulls>>
<1>1. UNCHANGED <<list, got>>
  BY DEF semaphore_wait, ExtractNothing, Reset, queue_msg_recycle, lists
<1>2. \A r \in Queue : \A e \in Linked(r) : content'[e] = content[e]
  BY QueueReset DEF semaphore_wait, ExtractNothing, queue_msg_recycle
<1>3. Waiting' = Waiting
  <2>1. ASSUME NEW r \in Queue
        PROVE  Contents(list[r], content') = Contents(list[r], content)
    <3>1. list[r] \in Seq(Entry)
      BY DEF QueueInv, QueueTypeOK
    <3>2. \A e \in Elems(list[r]) : content'[e] = content[e]
      BY <1>2 DEF Linked
    <3> QED BY <3>1, <3>2, ContentsSame
  <2> QED BY <1>1, <2>1 DEF Waiting
<1>4. pull_pc[q] # "copy" /\ pull_pc'[q] # "copy"
  BY DEF QueueInv, QueueTypeOK, semaphore_wait, ExtractNothing, Reset, queue_msg_recycle
<1>5. \A r \in Queue : r # q => pull_pc'[r] = pull_pc[r] /\ pull_item'[r] = pull_item[r]
  BY DEF QueueInv, QueueTypeOK, semaphore_wait, ExtractNothing, Reset, queue_msg_recycle
<1>6. \A r \in Queue : r # q /\ pull_pc[r] = "copy" => content'[pull_item[r]] = content[pull_item[r]]
  <2>1. \A r \in Queue : pull_pc[r] = "copy" => pull_item[r] # NoEntry
    BY DEF QueueInv, InHand
  <2> QED BY <2>1, QueueReset DEF semaphore_wait, ExtractNothing, queue_msg_recycle
<1>7. Pulls' = Pulls
  BY <1>1, <1>4, <1>5, <1>6 DEF Pulls
<1> QED BY <1>3, <1>7

(* Emptying a list is a Clear.                                             *)
LEMMA FifoClear ==
  ASSUME QueueInv, NEW q \in Queue, queue_msg_list_flush(q)
  PROVE  Channels!Clear(q)
<1>1. list' = [list EXCEPT ![q] = <<>>] /\ UNCHANGED <<pull_pc, pull_item, got>>
  BY DEF queue_msg_list_flush, pulls
<1>2. list'[q] = <<>> /\ \A r \in Queue : r # q => list'[r] = list[r]
  BY <1>1 DEF QueueInv, QueueTypeOK
<1>3. ASSUME NEW r \in Queue, r # q
      PROVE  Contents(list[r], content') = Contents(list[r], content)
  <2>1. list[r] \in Seq(Entry)
    BY DEF QueueInv, QueueTypeOK
  <2>2. \A e \in Elems(list[r]) : content'[e] = content[e]
    BY <1>3, QueueFlush DEF Linked
  <2> QED BY <2>1, <2>2, ContentsSame
<1>4. Contents(<<>>, content') = <<>>
  BY EmptySeq DEF Contents
<1>5. Waiting' = [Waiting EXCEPT ![q] = <<>>]
  BY <1>1, <1>2, <1>3, <1>4 DEF Waiting
<1>6. \A r \in Queue : pull_pc[r] = "copy" => content'[pull_item[r]] = content[pull_item[r]]
  BY QueueFlush DEF QueueInv, InHand
<1>7. Pulls' = Pulls
  BY <1>1, <1>6 DEF Pulls
<1> QED BY <1>5, <1>7 DEF Channels!Clear

(* The queues implement FIFOs: every message is pulled once, unaltered and *)
(* in the order of the pushes, for any number of threads, with entries     *)
(* shared by all the queues and flushes at any moment.                     *)
THEOREM QueuesAreFifos == QueueSpec => ImplementsFifo
<1>1. QueueInit => Channels!FifoInit
  <2> SUFFICES ASSUME QueueInit PROVE Channels!FifoInit
    OBVIOUS
  <2>1. Contents(<<>>, content) = <<>>
    BY EmptySeq DEF Contents
  <2>2. Waiting = [q \in Queue |-> <<>>] /\ Pulls = [q \in Queue |-> <<>>]
    BY <2>1 DEF QueueInit, Waiting, Pulls
  <2> QED BY <2>2 DEF Channels!FifoInit
<1>2. QueueInv /\ [QueueNext]_qvars => [Channels!FifoNext]_(Channels!fvars)
  <2> SUFFICES ASSUME QueueInv, [QueueNext]_qvars
               PROVE  Channels!FifoNext \/ UNCHANGED <<Waiting, Pulls>>
    BY DEF Channels!fvars
  <2>1. CASE UNCHANGED qvars
    BY <2>1 DEF qvars, lists, pulls, Waiting, Pulls
  <2>2. ASSUME NEW p \in Producer, Push(p)
        PROVE  Channels!FifoNext \/ UNCHANGED <<Waiting, Pulls>>
    <3>1. CASE queue_msg_insert(p)
      BY <3>1, FifoPut DEF Channels!FifoNext
    <3>2. CASE Fill(p)
      <4>1. UNCHANGED <<list, pull_pc, pull_item, got>>
        BY <3>2 DEF Fill, lists, pulls
      <4> QED BY <3>2, <4>1, QueueFill, FifoStutter
    <3>3. CASE \/ \E q \in Queue : Reuse(p, q) \/ Allocate(p, q)
               \/ PushFails(p) \/ semaphore_signal(p)
      <4>1. UNCHANGED <<list, pull_pc, pull_item, got, content>>
        BY <3>3 DEF Reuse, Allocate, PushFails, semaphore_signal, lists, pulls
      <4> QED BY <4>1, FifoStutter
    <3> QED BY <2>2, <3>1, <3>2, <3>3 DEF Push
  <2>3. ASSUME NEW q \in Queue, Pull(q)
        PROVE  Channels!FifoNext \/ UNCHANGED <<Waiting, Pulls>>
    <3>1. CASE queue_msg_extract(q)
      BY <3>1, FifoGet DEF Channels!FifoNext
    <3> QED BY <2>3, <3>1, FifoCopy, FifoConsumer DEF Pull
  <2>4. ASSUME NEW q \in Queue, Flush(q)
        PROVE  Channels!FifoNext \/ UNCHANGED <<Waiting, Pulls>>
    <3>1. CASE queue_msg_list_flush(q)
      BY <3>1, FifoClear DEF Channels!FifoNext
    <3>2. CASE semaphore_flush(q)
      <4>1. UNCHANGED <<list, pull_pc, pull_item, got, content>>
        BY <3>2 DEF semaphore_flush, lists, pulls
      <4> QED BY <4>1, FifoStutter
    <3> QED BY <2>4, <3>1, <3>2 DEF Flush
  <2> QED BY <2>1, <2>2, <2>3, <2>4 DEF QueueNext
<1> QED BY <1>1, <1>2, QueueInvariant, PTL DEF QueueSpec, ImplementsFifo, Channels!FifoSpec
=============================================================================
