------------------------------ MODULE Lifecycle ------------------------------
(***************************************************************************)
(* One process from start to exit: index.js, with configs/database.js and  *)
(* the two ends of workers/notification.worker.js.                         *)
(*                                                                         *)
(* A task is a request on a connection, a queue job or the session sweep:  *)
(* it writes to Mongo several times.  Its own pace is not bounded, and a   *)
(* task goes on when its connection is lost.                               *)
(***************************************************************************)
EXTENDS Naturals

CONSTANTS
    Conns,      \* client connections, each with one request at a time
    Jobs,       \* slots of the notification worker
    Sweep,      \* the periodic session sweep
    Writes,     \* how many writes a task makes
    Faults      \* "startup", "early", "abort", "error": see the uses

Tasks == Conns \cup Jobs \cup {Sweep}

ASSUME TaskAssumption ==
    Conns \cap Jobs = {} /\ Sweep \notin Conns \cup Jobs /\ Writes \in Nat \ {0}
ASSUME FaultAssumption == Faults \subseteq {"startup", "early", "abort", "error"}

VARIABLES
    boot,       \* what startServer does next
    down,       \* what shutdown waits for
    early,      \* did the signal come before the startup was over?
    late,       \* the bounds that elapsed
    exit,
    server,     \* the HTTP server
    conn,       \* of each connection
    worker,     \* the notification worker
    mongo,
    work        \* of each task: what is left, and whether its client is gone

vars == <<boot, down, early, late, exit, server, conn, worker, mongo, work>>
shutdownVars == <<down, early, late>>

Work == [pc : {"idle", "running", "cut"}, left : 0..Writes, lost : BOOLEAN]
Idle == [pc |-> "idle", left |-> 0, lost |-> FALSE]
Begun == [pc |-> "running", left |-> Writes, lost |-> FALSE]

Alive == exit = "no"
Running(t) == work[t].pc = "running"

Init ==
    /\ boot = "seed" /\ down = "no" /\ early = FALSE /\ late = {} /\ exit = "no"
    /\ server = "none" /\ worker = "off" /\ mongo = "up"
    /\ conn = [c \in Conns |-> "none"]
    /\ work = [t \in Tasks |-> Idle]

-----------------------------------------------------------------------------
(* startServer.                                                            *)

\* Mongo rejects the seeding or the indexes; once disconnected it always does.
StartupFails ==
    /\ Alive /\ boot \in {"seed", "indexes"}
    /\ "startup" \in Faults \/ mongo = "down"
    /\ exit' = "failure"
    /\ UNCHANGED <<boot, shutdownVars, server, conn, worker, mongo, work>>

SeedRolesAndPermissions ==
    /\ Alive /\ boot = "seed" /\ mongo = "up"
    /\ boot' = "indexes"
    /\ UNCHANGED <<shutdownVars, exit, server, conn, worker, mongo, work>>

\* The server listens as soon as the indexes are there.
EnsureIndexes ==
    /\ Alive /\ boot = "indexes" /\ mongo = "up"
    /\ boot' = "worker"
    /\ server' = "listening"
    /\ UNCHANGED <<shutdownVars, exit, conn, worker, mongo, work>>

\* The port is taken.
ServerError ==
    /\ Alive /\ boot = "worker" /\ "startup" \in Faults
    /\ exit' = "failure"
    /\ UNCHANGED <<boot, shutdownVars, server, conn, worker, mongo, work>>

\* Loading the queue's modules is awaited; then the sweep is scheduled.
StartWorker ==
    /\ Alive /\ boot = "worker"
    /\ boot' = "up"
    /\ worker' \in {"running"} \cup (IF "startup" \in Faults THEN {"off"} ELSE {})
    /\ UNCHANGED <<shutdownVars, exit, server, conn, mongo, work>>

-----------------------------------------------------------------------------
(* Tasks.                                                                  *)

\* A request on a new connection, or on one the client kept open.
Request(c) ==
    /\ Alive /\ work[c].pc = "idle"
    /\ conn[c] = "idle" \/ (conn[c] = "none" /\ server = "listening")
    /\ conn' = [conn EXCEPT ![c] = "busy"]
    /\ work' = [work EXCEPT ![c] = Begun]
    /\ UNCHANGED <<boot, shutdownVars, exit, server, worker, mongo>>

\* A worker whose error the process saw goes on, though nobody holds it.
TakeJob(j) ==
    /\ Alive /\ work[j].pc = "idle" /\ worker \in {"running", "forgotten"}
    /\ work' = [work EXCEPT ![j] = Begun]
    /\ UNCHANGED <<boot, shutdownVars, exit, server, conn, worker, mongo>>

\* The interval is set when the startup is over and cleared by the signal.
StartSweep ==
    /\ Alive /\ boot = "up" /\ (down = "no" \/ early)
    /\ work[Sweep].pc = "idle"
    /\ work' = [work EXCEPT ![Sweep] = Begun]
    /\ UNCHANGED <<boot, shutdownVars, exit, server, conn, worker, mongo>>

\* A write after the disconnect is refused, and the task ends there.
Written(w) == IF mongo = "up" THEN [w EXCEPT !.left = @ - 1] ELSE [w EXCEPT !.pc = "cut"]

Write(t) ==
    /\ Alive /\ Running(t) /\ work[t].left > 0
    /\ work' = [work EXCEPT ![t] = Written(work[t])]
    /\ conn' = [c \in Conns |-> IF c = t /\ mongo = "down" /\ conn[c] = "busy"
                                THEN "idle" ELSE conn[c]]
    /\ UNCHANGED <<boot, shutdownVars, exit, server, worker, mongo>>

\* Mutant: the connection stays busy after the response.
FinishBusy(t) ==
    /\ Alive /\ Running(t) /\ work[t].left = 0
    /\ work' = [work EXCEPT ![t] = Idle]
    /\ UNCHANGED <<boot, shutdownVars, exit, server, conn, worker, mongo>>

\* The response, if anyone still waits for it; the connection is kept.
Finish(t) ==
    /\ Alive /\ Running(t) /\ work[t].left = 0
    /\ work' = [work EXCEPT ![t] = Idle]
    /\ conn' = [c \in Conns |-> IF c = t /\ conn[c] = "busy" THEN "idle" ELSE conn[c]]
    /\ UNCHANGED <<boot, shutdownVars, exit, server, worker, mongo>>

\* The connection is closed while idle, or the client leaves.
Disconnect(c) ==
    /\ Alive
    /\ conn[c] = "idle" \/ ("abort" \in Faults /\ conn[c] = "busy")
    /\ conn' = [conn EXCEPT ![c] = "none"]
    /\ work' = IF Running(c) THEN [work EXCEPT ![c].lost = TRUE] ELSE work
    /\ UNCHANGED <<boot, shutdownVars, exit, server, worker, mongo>>

\* The worker's "error" event: the process forgets a worker that goes on.
WorkerError ==
    /\ Alive /\ worker = "running" /\ "error" \in Faults
    /\ worker' = "forgotten"
    /\ UNCHANGED <<boot, shutdownVars, exit, server, conn, mongo, work>>

-----------------------------------------------------------------------------
(* shutdown: each wait ends with what it waits for or with its bound.      *)

\* stopNotificationWorker closes the worker the process holds, if any.
CloseBackgroundJobs ==
    /\ down' = "jobs"
    /\ worker' = IF worker = "running" THEN "closing" ELSE worker

\* A second signal finds shuttingDown set.
Signal ==
    /\ Alive /\ down = "no"
    /\ boot = "up" \/ "early" \in Faults
    /\ early' = (boot # "up")
    /\ IF server = "listening"
       THEN down' = "http" /\ server' = "closing" /\ UNCHANGED worker
       ELSE CloseBackgroundJobs /\ UNCHANGED server
    /\ UNCHANGED <<boot, late, exit, conn, mongo, work>>

\* Mutant: server.close is not awaited.
DrainedAtOnce == server = "closing"

\* The callback of server.close.
Drained == server = "closing" /\ \A c \in Conns : conn[c] = "none"

HttpClosed ==
    /\ Alive /\ down = "http" /\ Drained
    /\ CloseBackgroundJobs
    /\ UNCHANGED <<boot, early, late, exit, server, conn, mongo, work>>

HttpBound ==
    /\ Alive /\ down = "http"
    /\ conn' = [c \in Conns |-> "none"]
    /\ work' = [t \in Tasks |-> IF t \in Conns /\ Running(t)
                                THEN [work[t] EXCEPT !.lost = TRUE] ELSE work[t]]
    /\ late' = late \cup {"http"}
    /\ CloseBackgroundJobs
    /\ UNCHANGED <<boot, early, exit, server, mongo>>

\* Mutant: worker.close is not awaited.
WorkerStoppedAtOnce == down = "jobs"

\* worker.close waits for the jobs under way; without a worker there is
\* nothing to wait for.
WorkerStopped == worker = "closing" => \A j \in Jobs : ~Running(j)

JobsClosed ==
    /\ Alive /\ down = "jobs" /\ WorkerStopped
    /\ down' = "mongo" /\ mongo' = "down"
    /\ worker' = IF worker = "closing" THEN "closed" ELSE worker
    /\ UNCHANGED <<boot, early, late, exit, server, conn, work>>

\* Mutant: no bound on the jobs.
JobsBoundWaiting ==
    /\ Alive /\ down = "jobs" /\ WorkerStopped
    /\ down' = "mongo" /\ mongo' = "down"
    /\ late' = late \cup {"jobs"}
    /\ UNCHANGED <<boot, early, exit, server, conn, worker, work>>

JobsBound ==
    /\ Alive /\ down = "jobs"
    /\ down' = "mongo" /\ mongo' = "down"
    /\ late' = late \cup {"jobs"}
    /\ UNCHANGED <<boot, early, exit, server, conn, worker, work>>

\* mongoose.disconnect returns, throws or reaches its bound.
MongoClosed ==
    /\ Alive /\ down = "mongo"
    /\ down' = "redis"
    /\ UNCHANGED <<boot, early, late, exit, server, conn, worker, mongo, work>>

\* So does redisClient.quit, and the process exits.
RedisClosed ==
    /\ Alive /\ down = "redis"
    /\ exit' = "success"
    /\ UNCHANGED <<boot, shutdownVars, server, conn, worker, mongo, work>>

Startup == \/ StartupFails \/ SeedRolesAndPermissions \/ EnsureIndexes
           \/ ServerError \/ StartWorker

Next ==
    \/ Startup \/ WorkerError \/ StartSweep
    \/ \E c \in Conns : Request(c) \/ Disconnect(c)
    \/ \E j \in Jobs : TakeJob(j)
    \/ \E t \in Tasks : Write(t) \/ Finish(t)
    \/ Signal
    \/ HttpClosed \/ HttpBound \/ JobsClosed \/ JobsBound \/ MongoClosed \/ RedisClosed

Spec == Init /\ [][Next]_vars

\* Timers fire and awaited steps resume; no task need ever end.
Fairness ==
    /\ WF_vars(HttpBound) /\ WF_vars(JobsBound)
    /\ WF_vars(MongoClosed) /\ WF_vars(RedisClosed)

FairSpec == Spec /\ Fairness
-----------------------------------------------------------------------------
(* Properties.                                                             *)

TypeOK ==
    /\ boot \in {"seed", "indexes", "worker", "up"}
    /\ down \in {"no", "http", "jobs", "mongo", "redis"}
    /\ early \in BOOLEAN /\ late \subseteq {"http", "jobs"}
    /\ exit \in {"no", "failure", "success"}
    /\ server \in {"none", "listening", "closing"}
    /\ conn \in [Conns -> {"none", "idle", "busy"}]
    /\ worker \in {"off", "running", "forgotten", "closing", "closed"}
    /\ mongo \in {"up", "down"}
    /\ work \in [Tasks -> Work]
    /\ \A c \in Conns : conn[c] = "busy" => Running(c)

\* What the disconnect or the exit stopped half-way.
Interrupted(t) == work[t].pc = "cut" \/ (exit = "success" /\ Running(t))

\* A signal after the startup interrupts no request, on whichever connection
\* and however late it came, unless its client left or was disconnected at the
\* bound (index.js:120-134, SC-019).
RequestsComplete == ~early => \A c \in Conns : Interrupted(c) => work[c].lost

\* It interrupts no job either, unless the bound elapsed or the worker had been
\* forgotten after an error (index.js:82-88, 136-137, SC-019).
JobsComplete ==
    ~early => \A j \in Jobs : Interrupted(j) => "jobs" \in late \/ worker = "forgotten"

\* Whatever hangs, and whenever the signal comes, the process exits
\* (withBound, index.js:97-101, 129).
ExitsOnSignal == (down # "no") ~> (exit # "no")
=============================================================================
