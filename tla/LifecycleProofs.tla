--------------------------- MODULE LifecycleProofs ---------------------------
(***************************************************************************)
(* For any number of connections, job slots and writes: what a signal may  *)
(* interrupt.                                                              *)
(***************************************************************************)
EXTENDS Lifecycle, TLAPS

-----------------------------------------------------------------------------
(* The invariant.                                                          *)

\* How far startup and shutdown have come.
Stages ==
    /\ mongo = "down" <=> down \in {"mongo", "redis"}
    /\ exit = "success" => down = "redis"
    /\ early => down # "no"
    /\ boot \in {"worker", "up"} /\ down = "no" => server = "listening"
    /\ ~early /\ down # "no" => boot = "up" /\ server = "closing"

\* Behind the drain no connection is left; before it, one whose client still
\* waits is busy.
ConnsOK ==
    /\ \A c \in Conns : Running(c) /\ ~work[c].lost => conn[c] = "busy"
    /\ ~early /\ down \in {"jobs", "mongo", "redis"} => \A c \in Conns : conn[c] = "none"
    /\ ~early => \A c \in Conns : work[c].pc = "cut" => work[c].lost

\* Behind the worker's end no job runs that is not accounted for.
JobsOK ==
    /\ boot # "up" => worker = "off"
    /\ worker \in {"off", "closed"} => \A j \in Jobs : ~Running(j)
    /\ ~early /\ down \in {"jobs", "mongo", "redis"} => worker # "running"
    /\ ~early /\ down \in {"mongo", "redis"} =>
          "jobs" \in late \/ worker \in {"off", "closed", "forgotten"}
    /\ ~early => \A j \in Jobs :
          work[j].pc = "cut" => "jobs" \in late \/ worker = "forgotten"

IInv == TypeOK /\ Stages /\ ConnsOK /\ JobsOK

LEMMA WorkFields ==
    /\ Idle \in Work /\ Idle.pc = "idle"
    /\ Begun \in Work /\ Begun.pc = "running"
<1>1. PICK b \in BOOLEAN : b = FALSE
  OBVIOUS
<1>2. /\ Idle = [pc |-> "idle", left |-> 0, lost |-> b]
      /\ Begun = [pc |-> "running", left |-> Writes, lost |-> b]
  BY <1>1, Zenon DEF Idle, Begun
<1> QED BY <1>2, TaskAssumption DEF Work

\* Steps of the startup, and those of the shutdown that wait for nothing.
LEMMA QuietKeeps ==
    ASSUME IInv, \/ StartupFails \/ SeedRolesAndPermissions \/ EnsureIndexes \/ ServerError
                 \/ StartWorker \/ WorkerError \/ MongoClosed \/ RedisClosed
    PROVE  IInv'
<1>1. CASE StartupFails
  BY <1>1 DEF StartupFails, shutdownVars, IInv, TypeOK, Stages, ConnsOK, JobsOK, Running, Alive
<1>2. CASE SeedRolesAndPermissions
  BY <1>2 DEF SeedRolesAndPermissions, shutdownVars, IInv, TypeOK, Stages, ConnsOK, JobsOK,
              Running, Alive
<1>3. CASE EnsureIndexes
  BY <1>3 DEF EnsureIndexes, shutdownVars, IInv, TypeOK, Stages, ConnsOK, JobsOK, Running, Alive
<1>4. CASE ServerError
  BY <1>4 DEF ServerError, shutdownVars, IInv, TypeOK, Stages, ConnsOK, JobsOK, Running, Alive
<1>5. CASE StartWorker
  BY <1>5 DEF StartWorker, shutdownVars, IInv, TypeOK, Stages, ConnsOK, JobsOK, Running, Alive
<1>6. CASE WorkerError
  BY <1>6 DEF WorkerError, shutdownVars, IInv, TypeOK, Stages, ConnsOK, JobsOK, Running, Alive
<1>7. CASE MongoClosed
  BY <1>7 DEF MongoClosed, IInv, TypeOK, Stages, ConnsOK, JobsOK, Running, Alive
<1>8. CASE RedisClosed
  BY <1>8 DEF RedisClosed, shutdownVars, IInv, TypeOK, Stages, ConnsOK, JobsOK, Running, Alive
<1> QED BY <1>1, <1>2, <1>3, <1>4, <1>5, <1>6, <1>7, <1>8

\* A task of work w begins.
LEMMA Begins ==
    ASSUME IInv, NEW t \in Tasks, work' = [work EXCEPT ![t] = Begun]
    PROVE  /\ work' \in [Tasks -> Work] /\ Running(t)'
           /\ \A u \in Tasks \ {t} : work'[u] = work[u]
  BY WorkFields DEF IInv, TypeOK, Running

LEMMA RequestKeeps == ASSUME IInv, NEW c \in Conns, Request(c) PROVE IInv'
<1>1. c \in Tasks /\ c \notin Jobs
  BY TaskAssumption DEF Tasks
<1>2. /\ work' \in [Tasks -> Work] /\ Running(c)'
      /\ \A u \in Tasks \ {c} : work'[u] = work[u]
  BY <1>1, Begins DEF Request
<1>3. /\ conn' = [conn EXCEPT ![c] = "busy"]
      /\ UNCHANGED <<boot, down, early, late, exit, server, worker, mongo>>
      /\ conn[c] = "idle" \/ server = "listening"
  BY DEF Request, shutdownVars
<1>4. TypeOK'
  BY <1>2, <1>3 DEF IInv, TypeOK, Running, Tasks
<1>5. Stages'
  BY <1>3 DEF IInv, Stages
<1>6. ConnsOK'
  BY <1>2, <1>3 DEF IInv, TypeOK, Stages, ConnsOK, Running, Tasks
<1>7. JobsOK'
  BY <1>1, <1>2, <1>3 DEF IInv, JobsOK, Running, Tasks
<1> QED BY <1>4, <1>5, <1>6, <1>7 DEF IInv

LEMMA TakeJobKeeps == ASSUME IInv, NEW j \in Jobs, TakeJob(j) PROVE IInv'
<1>1. j \in Tasks /\ j \notin Conns
  BY TaskAssumption DEF Tasks
<1>2. /\ work' \in [Tasks -> Work] /\ Running(j)'
      /\ \A u \in Tasks \ {j} : work'[u] = work[u]
  BY <1>1, Begins DEF TakeJob
<1>3. /\ UNCHANGED <<boot, down, early, late, exit, server, conn, worker, mongo>>
      /\ worker \in {"running", "forgotten"}
  BY DEF TakeJob, shutdownVars
<1>4. TypeOK'
  BY <1>1, <1>2, <1>3 DEF IInv, TypeOK, Running, Tasks
<1>5. Stages'
  BY <1>3 DEF IInv, Stages
<1>6. ConnsOK'
  BY <1>1, <1>2, <1>3 DEF IInv, ConnsOK, Running, Tasks
<1>7. JobsOK'
  BY <1>2, <1>3 DEF IInv, JobsOK, Running, Tasks
<1> QED BY <1>4, <1>5, <1>6, <1>7 DEF IInv

LEMMA StartSweepKeeps == ASSUME IInv, StartSweep PROVE IInv'
<1>1. Sweep \in Tasks /\ Sweep \notin Conns /\ Sweep \notin Jobs
  BY TaskAssumption DEF Tasks
<1>2. /\ work' \in [Tasks -> Work]
      /\ \A u \in Tasks \ {Sweep} : work'[u] = work[u]
  BY <1>1, Begins DEF StartSweep
<1>3. UNCHANGED <<boot, down, early, late, exit, server, conn, worker, mongo>>
  BY DEF StartSweep, shutdownVars
<1>4. TypeOK'
  BY <1>1, <1>2, <1>3 DEF IInv, TypeOK, Running, Tasks
<1>5. Stages'
  BY <1>3 DEF IInv, Stages
<1>6. ConnsOK'
  BY <1>1, <1>2, <1>3 DEF IInv, ConnsOK, Running, Tasks
<1>7. JobsOK'
  BY <1>1, <1>2, <1>3 DEF IInv, JobsOK, Running, Tasks
<1> QED BY <1>4, <1>5, <1>6, <1>7 DEF IInv

LEMMA WriteKeeps == ASSUME IInv, NEW t \in Tasks, Write(t) PROVE IInv'
<1>1. work[t] \in Work /\ Running(t) /\ work[t].left > 0
  BY DEF Write, IInv, TypeOK
<1>2. PICK w : w = Written(work[t])
  OBVIOUS
<1>3. /\ w \in Work /\ w.lost = work[t].lost
      /\ mongo = "up" => w.pc = "running"
      /\ mongo # "up" => w.pc = "cut"
  BY <1>1, <1>2, TaskAssumption DEF Written, Work, Running
<1>4. /\ work' = [work EXCEPT ![t] = w]
      /\ conn' = [c \in Conns |-> IF c = t /\ mongo = "down" /\ conn[c] = "busy"
                                  THEN "idle" ELSE conn[c]]
      /\ UNCHANGED <<boot, down, early, late, exit, server, worker, mongo>>
  BY <1>2, Zenon DEF Write, shutdownVars
<1>5. /\ work' \in [Tasks -> Work] /\ work'[t] = w
      /\ \A u \in Tasks \ {t} : work'[u] = work[u]
  BY <1>3, <1>4 DEF IInv, TypeOK
<1>6. TypeOK'
  BY <1>3, <1>4, <1>5 DEF IInv, TypeOK, Running, Tasks
<1>7. Stages'
  BY <1>4 DEF IInv, Stages
<1>8. ConnsOK'
  <2>1. ASSUME NEW c \in Conns PROVE Running(c)' /\ ~work'[c].lost => conn'[c] = "busy"
    BY <1>1, <1>3, <1>4, <1>5 DEF IInv, TypeOK, ConnsOK, Running, Tasks
  <2>2. ~early' /\ down' \in {"jobs", "mongo", "redis"} => \A c \in Conns : conn'[c] = "none"
    BY <1>4 DEF IInv, ConnsOK
  <2>3. ASSUME ~early', NEW c \in Conns, work'[c].pc = "cut" PROVE work'[c].lost
    BY <1>1, <1>3, <1>4, <1>5, <2>3 DEF IInv, TypeOK, Stages, ConnsOK, Running, Tasks
  <2> QED BY <2>1, <2>2, <2>3 DEF ConnsOK
<1>9. JobsOK'
  BY <1>1, <1>3, <1>4, <1>5 DEF IInv, TypeOK, Stages, JobsOK, Running, Tasks
<1> QED BY <1>6, <1>7, <1>8, <1>9 DEF IInv

LEMMA FinishKeeps == ASSUME IInv, NEW t \in Tasks, Finish(t) PROVE IInv'
<1>1. /\ work' \in [Tasks -> Work] /\ work'[t].pc = "idle"
      /\ \A u \in Tasks \ {t} : work'[u] = work[u]
  BY WorkFields DEF Finish, IInv, TypeOK
<1>2. /\ conn' = [c \in Conns |-> IF c = t /\ conn[c] = "busy" THEN "idle" ELSE conn[c]]
      /\ UNCHANGED <<boot, down, early, late, exit, server, worker, mongo>>
  BY DEF Finish, shutdownVars
<1>3. TypeOK'
  BY <1>1, <1>2 DEF IInv, TypeOK, Running, Tasks
<1>4. Stages'
  BY <1>2 DEF IInv, Stages
<1>5. ConnsOK'
  BY <1>1, <1>2 DEF IInv, TypeOK, ConnsOK, Running, Tasks
<1>6. JobsOK'
  BY <1>1, <1>2 DEF IInv, JobsOK, Running, Tasks
<1> QED BY <1>3, <1>4, <1>5, <1>6 DEF IInv

\* Work that goes on without its client.
LEMMA LosesClient ==
    ASSUME NEW w \in Work, NEW v, v = [w EXCEPT !.lost = TRUE]
    PROVE  v \in Work /\ v.pc = w.pc /\ v.lost
<1>1. PICK b \in BOOLEAN : b = TRUE
  OBVIOUS
<1>2. v = [w EXCEPT !.lost = b]
  BY <1>1, Zenon
<1>3. v \in Work /\ v.pc = w.pc /\ v.lost = b
  BY <1>2 DEF Work
<1> QED BY <1>1, <1>3

LEMMA DisconnectKeeps == ASSUME IInv, NEW c \in Conns, Disconnect(c) PROVE IInv'
<1>1. c \in Tasks /\ c \notin Jobs
  BY TaskAssumption DEF Tasks
<1>2. /\ conn' = [conn EXCEPT ![c] = "none"]
      /\ UNCHANGED <<boot, down, early, late, exit, server, worker, mongo>>
  BY DEF Disconnect, shutdownVars
<1>3. /\ work' \in [Tasks -> Work]
      /\ \A u \in Tasks \ {c} : work'[u] = work[u]
      /\ work'[c].pc = work[c].pc
      /\ Running(c) => work'[c].lost
      /\ ~Running(c) => work'[c] = work[c]
  <2>1. CASE Running(c)
    <3>1. PICK v : v = [work[c] EXCEPT !.lost = TRUE]
      OBVIOUS
    <3>2. work' = [work EXCEPT ![c] = v]
      BY <2>1, <3>1, Zenon DEF Disconnect
    <3>3. v \in Work /\ v.pc = work[c].pc /\ v.lost
      BY <1>1, <3>1, LosesClient DEF IInv, TypeOK
    <3> QED BY <1>1, <2>1, <3>2, <3>3 DEF IInv, TypeOK
  <2>2. CASE ~Running(c)
    BY <2>2 DEF Disconnect, IInv, TypeOK
  <2> QED BY <2>1, <2>2
<1>4. TypeOK'
  <2>1. \A d \in Conns : conn'[d] = "busy" => d # c /\ conn[d] = "busy"
    BY <1>2 DEF IInv, TypeOK
  <2>2. \A d \in Conns : conn'[d] = "busy" => Running(d)'
    BY <1>3, <2>1 DEF IInv, TypeOK, Running, Tasks
  <2>3. conn' \in [Conns -> {"none", "idle", "busy"}]
    BY <1>2 DEF IInv, TypeOK
  <2> QED BY <1>2, <1>3, <2>2, <2>3 DEF IInv, TypeOK
<1>5. Stages'
  BY <1>2 DEF IInv, Stages
<1>6. ConnsOK'
  BY <1>1, <1>2, <1>3 DEF IInv, TypeOK, ConnsOK, Running, Tasks
<1>7. JobsOK'
  BY <1>1, <1>2, <1>3 DEF IInv, JobsOK, Running, Tasks
<1> QED BY <1>4, <1>5, <1>6, <1>7 DEF IInv

-----------------------------------------------------------------------------
(* The shutdown.                                                           *)

LEMMA SignalKeeps == ASSUME IInv, Signal PROVE IInv'
<1>1. /\ down = "no" /\ early \in BOOLEAN /\ early' \in BOOLEAN
      /\ early' <=> boot # "up"
      /\ UNCHANGED <<boot, late, exit, conn, mongo, work>> /\ exit = "no"
  <2>1. early' = (boot # "up")
    BY DEF Signal
  <2> QED BY <2>1 DEF Signal, IInv, TypeOK, Alive
<1>2. CASE server = "listening"
  <2>1. down' = "http" /\ server' = "closing" /\ UNCHANGED worker
    BY <1>2 DEF Signal
  <2>2. TypeOK' /\ Stages'
    BY <1>1, <2>1 DEF IInv, TypeOK, Stages, Running
  <2>3. ConnsOK' /\ JobsOK'
    BY <1>1, <2>1 DEF IInv, TypeOK, Stages, ConnsOK, JobsOK, Running
  <2> QED BY <2>2, <2>3 DEF IInv
<1>3. CASE server # "listening"
  <2>1. /\ down' = "jobs" /\ UNCHANGED server
        /\ worker' = IF worker = "running" THEN "closing" ELSE worker
    BY <1>3 DEF Signal, CloseBackgroundJobs
  <2>2. early'
    BY <1>1, <1>3 DEF IInv, Stages
  <2>3. TypeOK' /\ Stages'
    BY <1>1, <2>1, <2>2 DEF IInv, TypeOK, Stages, Running
  <2>4. ConnsOK' /\ JobsOK'
    BY <1>1, <2>1, <2>2 DEF IInv, TypeOK, Stages, ConnsOK, JobsOK, Running
  <2> QED BY <2>3, <2>4 DEF IInv
<1> QED BY <1>2, <1>3

LEMMA HttpClosedKeeps == ASSUME IInv, HttpClosed PROVE IInv'
<1>1. /\ down = "http" /\ down' = "jobs" /\ \A c \in Conns : conn[c] = "none"
      /\ worker' = IF worker = "running" THEN "closing" ELSE worker
      /\ UNCHANGED <<boot, early, late, exit, server, conn, mongo, work>> /\ exit = "no"
  BY DEF HttpClosed, CloseBackgroundJobs, Drained, Alive
<1>2. TypeOK' /\ Stages'
  BY <1>1 DEF IInv, TypeOK, Stages, Running
<1>3. ConnsOK' /\ JobsOK'
  BY <1>1 DEF IInv, TypeOK, ConnsOK, JobsOK, Running
<1> QED BY <1>2, <1>3 DEF IInv

LEMMA HttpBoundKeeps == ASSUME IInv, HttpBound PROVE IInv'
<1>1. /\ down = "http" /\ down' = "jobs" /\ late' = late \cup {"http"}
      /\ conn' = [c \in Conns |-> "none"]
      /\ worker' = IF worker = "running" THEN "closing" ELSE worker
      /\ UNCHANGED <<boot, early, exit, server, mongo>> /\ exit = "no"
  BY DEF HttpBound, CloseBackgroundJobs, Alive
<1>2. ASSUME NEW t \in Tasks
      PROVE  /\ work'[t] \in Work /\ work'[t].pc = work[t].pc
             /\ t \in Conns /\ Running(t) => work'[t].lost
             /\ ~Running(t) => work'[t] = work[t]
  <2>1. CASE t \in Conns /\ Running(t)
    <3>1. PICK v : v = [work[t] EXCEPT !.lost = TRUE]
      OBVIOUS
    <3>2. work'[t] = v
      BY <2>1, <3>1, Zenon DEF HttpBound
    <3> QED BY <2>1, <3>1, <3>2, LosesClient DEF IInv, TypeOK
  <2>2. CASE ~(t \in Conns /\ Running(t))
    <3>1. work'[t] = work[t]
      BY <2>2, Zenon DEF HttpBound
    <3> QED BY <2>2, <3>1 DEF IInv, TypeOK
  <2> QED BY <2>1, <2>2
<1>3. work' \in [Tasks -> Work]
  <2>1. work' = [t \in Tasks |-> work'[t]]
    BY Zenon DEF HttpBound
  <2> QED BY <1>2, <2>1
<1>4. TypeOK' /\ Stages'
  BY <1>1, <1>3 DEF IInv, TypeOK, Stages
<1>5. ConnsOK'
  BY <1>1, <1>2 DEF IInv, TypeOK, ConnsOK, Running, Tasks
<1>6. JobsOK'
  BY <1>1, <1>2 DEF IInv, TypeOK, JobsOK, Running, Tasks
<1> QED BY <1>4, <1>5, <1>6 DEF IInv

LEMMA JobsClosedKeeps == ASSUME IInv, JobsClosed PROVE IInv'
<1>1. /\ down = "jobs" /\ down' = "mongo" /\ mongo' = "down"
      /\ worker' = IF worker = "closing" THEN "closed" ELSE worker
      /\ worker = "closing" => \A j \in Jobs : ~Running(j)
      /\ UNCHANGED <<boot, early, late, exit, server, conn, work>> /\ exit = "no"
  BY DEF JobsClosed, WorkerStopped, Alive
<1>2. TypeOK' /\ Stages'
  BY <1>1 DEF IInv, TypeOK, Stages, Running
<1>3. ConnsOK' /\ JobsOK'
  BY <1>1 DEF IInv, TypeOK, ConnsOK, JobsOK, Running
<1> QED BY <1>2, <1>3 DEF IInv

LEMMA JobsBoundKeeps == ASSUME IInv, JobsBound PROVE IInv'
<1>1. /\ down = "jobs" /\ down' = "mongo" /\ mongo' = "down" /\ late' = late \cup {"jobs"}
      /\ UNCHANGED <<boot, early, exit, server, conn, worker, work>> /\ exit = "no"
  BY DEF JobsBound, Alive
<1>2. TypeOK' /\ Stages'
  BY <1>1 DEF IInv, TypeOK, Stages, Running
<1>3. ConnsOK' /\ JobsOK'
  BY <1>1 DEF IInv, TypeOK, ConnsOK, JobsOK, Running
<1> QED BY <1>2, <1>3 DEF IInv

-----------------------------------------------------------------------------
(* The theorems.                                                           *)

LEMMA Initially == Init => IInv
<1> SUFFICES ASSUME Init PROVE IInv
  OBVIOUS
<1>1. \A t \in Tasks : work[t] = Idle
  BY DEF Init
<1>2. TypeOK
  <2>1. early \in BOOLEAN
    BY DEF Init
  <2> QED BY <2>1, WorkFields DEF Init, TypeOK
<1>3. ~early /\ down = "no" /\ boot = "seed" /\ mongo = "up" /\ exit = "no" /\ worker = "off"
  BY DEF Init
<1>4. Stages
  BY <1>3 DEF Stages
<1>5. ConnsOK /\ JobsOK
  BY <1>1, <1>3, WorkFields DEF ConnsOK, JobsOK, Running, Tasks
<1> QED BY <1>2, <1>4, <1>5 DEF IInv

LEMMA NextInvariant == IInv /\ [Next]_vars => IInv'
<1> SUFFICES ASSUME IInv, [Next]_vars PROVE IInv'
  OBVIOUS
<1>1. CASE Startup
  BY <1>1, QuietKeeps DEF Startup
<1>2. CASE WorkerError \/ MongoClosed \/ RedisClosed
  BY <1>2, QuietKeeps
<1>3. CASE StartSweep \/ Signal \/ HttpClosed \/ HttpBound \/ JobsClosed \/ JobsBound
  BY <1>3, StartSweepKeeps, SignalKeeps, HttpClosedKeeps, HttpBoundKeeps, JobsClosedKeeps,
     JobsBoundKeeps
<1>4. ASSUME NEW c \in Conns, Request(c) \/ Disconnect(c) PROVE IInv'
  BY <1>4, RequestKeeps, DisconnectKeeps
<1>5. ASSUME NEW j \in Jobs, TakeJob(j) PROVE IInv'
  BY <1>5, TakeJobKeeps
<1>6. ASSUME NEW t \in Tasks, Write(t) \/ Finish(t) PROVE IInv'
  BY <1>6, WriteKeeps, FinishKeeps
<1>7. CASE UNCHANGED vars
  <2>1. TypeOK' /\ Stages'
    BY <1>7 DEF vars, IInv, TypeOK, Stages, Running
  <2>2. ConnsOK' /\ JobsOK'
    BY <1>7 DEF vars, IInv, ConnsOK, JobsOK, Running
  <2> QED BY <2>1, <2>2 DEF IInv
<1> QED BY <1>1, <1>2, <1>3, <1>4, <1>5, <1>6, <1>7 DEF Next

LEMMA Invariant == Spec => []IInv
  BY Initially, NextInvariant, PTL DEF Spec

LEMMA Consequences == IInv => TypeOK /\ RequestsComplete /\ JobsComplete
<1> SUFFICES ASSUME IInv PROVE TypeOK /\ RequestsComplete /\ JobsComplete
  OBVIOUS
<1>1. RequestsComplete
  <2> SUFFICES ASSUME ~early, NEW c \in Conns, Interrupted(c) PROVE work[c].lost
    BY DEF RequestsComplete
  <2>1. CASE work[c].pc = "cut"
    BY <2>1 DEF IInv, ConnsOK
  <2>2. CASE exit = "success" /\ Running(c)
    BY <2>2 DEF IInv, Stages, ConnsOK
  <2> QED BY <2>1, <2>2 DEF Interrupted
<1>2. JobsComplete
  <2> SUFFICES ASSUME ~early, NEW j \in Jobs, Interrupted(j)
               PROVE  "jobs" \in late \/ worker = "forgotten"
    BY DEF JobsComplete
  <2>1. CASE work[j].pc = "cut"
    BY <2>1 DEF IInv, JobsOK
  <2>2. CASE exit = "success" /\ Running(j)
    BY <2>2 DEF IInv, Stages, JobsOK
  <2> QED BY <2>1, <2>2 DEF Interrupted
<1> QED BY <1>1, <1>2 DEF IInv

\* The process, its connections and its tasks keep their types, a busy
\* connection its request (index.js).
THEOREM LifecycleTyped == Spec => []TypeOK
  BY Invariant, Consequences, PTL

\* A signal after the startup interrupts no request whose client still waits
\* (index.js:120-134).
THEOREM RequestsFinish == Spec => []RequestsComplete
  BY Invariant, Consequences, PTL

\* Nor a job, unless its bound elapsed or its worker was forgotten
\* (index.js:82-88, 136-137).
THEOREM JobsFinish == Spec => []JobsComplete
  BY Invariant, Consequences, PTL
=============================================================================
