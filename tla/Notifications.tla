---------------------------- MODULE Notifications ----------------------------
(***************************************************************************)
(* Notifications from the request that causes one to the stored document:  *)
(* service/comment.service.js (and follow and like, which publish the same *)
(* way), service/notification.queue.js, workers/notification.worker.js,    *)
(* service/notification.service.js and its repository.                     *)
(*                                                                         *)
(* An event is one interaction: a comment, follow or like to be stored,    *)
(* its dedupeKey, and the queue job of that id.  BullMQ is modelled by     *)
(* what the worker relies on: one live job per id, an attempt count, and   *)
(* at-least-once delivery.  Runners are the worker slots and the requests, *)
(* which deliver inline when there is no queue.                            *)
(***************************************************************************)
EXTENDS Naturals, Sequences, FiniteSets, Functions

CONSTANTS
    Events,             \* interactions
    Keyed,              \* comments that carry an idempotencyKey
    Users,
    Actor, Recipient,   \* of each event: users
    Reqs,               \* requests in flight at once
    Workers,            \* worker slots
    MAX_ATTEMPTS,
    DEAD_LETTER_CAPACITY,
    Faults,             \* what may go wrong: see the uses
    None

ASSUME EventAssumption ==
    /\ Keyed \subseteq Events /\ None \notin Events
    /\ Actor \in [Events -> Users] /\ Recipient \in [Events -> Users]
ASSUME LimitAssumption ==
    MAX_ATTEMPTS \in Nat \ {0} /\ DEAD_LETTER_CAPACITY \in Nat \ {0}
ASSUME FaultAssumption ==
    Faults \subseteq {"insert", "deliver", "add", "dlq", "crash", "stall", "error", "erase"}

ASSUME RunnerAssumption == Workers \cap Reqs = {}

Runners == Workers \cup Reqs

VARIABLES
    users,      \* accounts that exist
    created,    \* events whose document is stored
    published,  \* those handed to notificationQueue.publish
    answered,   \* those whose request was answered with success
    mode,       \* what the process has: no queue yet, a queue, or only a
                \* worker whose queue it has forgotten
    jobs,       \* BullMQ: the state and attempt count of each job id
    dlq,        \* the durable dead-letter queue
    deadLetters, \* the in-process one, oldest first
    lost,       \* events a fault took out of the program's hands: it is told
                \* of an insert that happened that it failed, dies holding
                \* them, is refused by the queue, or runs out of room
    failing,    \* "failed" handlers under way
    run,        \* what each runner is doing
    stored,     \* how many notifications there are of each event
    read,       \* events whose notification the recipient has read
    dropped     \* events nobody is to be notified of

vars == <<users, created, published, answered, mode, jobs, dlq, deadLetters,
          lost, failing, run, stored, read, dropped>>
requests == <<created, published, answered>>
letters == <<dlq, deadLetters, lost>>

Job == [state : {"none", "waiting", "active", "failed"}, tries : 0..MAX_ATTEMPTS]
Handler == [ev : Events, step : {"letter", "remove"}, terminal : BOOLEAN]
Run == [pc : {"idle", "lookup", "insert", "publish", "users", "find", "create", "letter"},
        ev : Events \cup {None}, attempt : 0..MAX_ATTEMPTS, lock : BOOLEAN]

Idle == [pc |-> "idle", ev |-> None, attempt |-> 0, lock |-> FALSE]
NoJob == [state |-> "none", tries |-> 0]

Init ==
    /\ users = Users
    /\ created = {} /\ published = {} /\ answered = {} /\ read = {} /\ dropped = {}
    /\ mode = "boot"
    /\ jobs = [e \in Events |-> NoJob]
    /\ dlq = {} /\ deadLetters = << >> /\ lost = {}
    /\ failing = {}
    /\ run = [x \in Runners |-> Idle]
    /\ stored = [e \in Events |-> 0]

At(x, pc) == run[x].pc = pc
Goto(x, pc) == run' = [run EXCEPT ![x].pc = pc]
Stop(x) == run' = [run EXCEPT ![x] = Idle]

-----------------------------------------------------------------------------
(* The request that causes the event.                                      *)

\* A comment with a key is first looked up; everything else is inserted.
Submit(r, e) ==
    /\ At(r, "idle")
    /\ Actor[e] \in users
    /\ run' = [run EXCEPT ![r] = [Idle EXCEPT !.ev = e,
                 !.pc = IF e \in Keyed THEN "lookup" ELSE "insert"]]
    /\ UNCHANGED <<users, read, requests, mode, jobs, letters, failing, stored, dropped>>

\* A replay is answered with the comment of the first request.
Lookup(r) ==
    /\ At(r, "lookup")
    /\ IF run[r].ev \in created
       THEN Stop(r) /\ answered' = answered \cup {run[r].ev}
       ELSE Goto(r, "insert") /\ UNCHANGED answered
    /\ UNCHANGED <<users, read, created, published, mode, jobs, letters, failing, stored, dropped>>

\* The unique index decides a race; the loser of a follow or like conflicts.
Insert(r) ==
    /\ At(r, "insert")
    /\ LET e == run[r].ev IN
       IF e \in created
       THEN /\ Stop(r)
            /\ answered' = IF e \in Keyed THEN answered \cup {e} ELSE answered
            /\ UNCHANGED created
       ELSE Goto(r, "publish") /\ created' = created \cup {e} /\ UNCHANGED answered
    /\ UNCHANGED <<users, read, published, mode, jobs, letters, failing, stored, dropped>>

\* Mongo rejects a call of the request, which answers with the error and
\* publishes nothing; a rejected insert may have happened.  (A process that
\* dies with an insert under way takes this step and then crashes.)
SubmitFails(r) ==
    /\ "insert" \in Faults
    /\ At(r, "lookup") \/ At(r, "insert")
    /\ Stop(r)
    /\ \/ UNCHANGED <<created, lost>>
       \/ /\ At(r, "insert") /\ run[r].ev \notin created
          /\ created' = created \cup {run[r].ev}
          /\ lost' = lost \cup {run[r].ev}
    /\ UNCHANGED <<users, read, published, answered, mode, jobs, dlq, deadLetters, failing, stored,
                   dropped>>

\* BullMQ ignores a job whose id it already has.
Added(e) == IF jobs[e].state = "none"
            THEN [jobs EXCEPT ![e] = [state |-> "waiting", tries |-> 0]] ELSE jobs

\* Mutant: without a queue the request is answered and the job forgotten.
PublishQueued(r) ==
    /\ At(r, "publish")
    /\ LET e == run[r].ev IN
       /\ Stop(r)
       /\ answered' = answered \cup {e}
       /\ IF mode = "queue" THEN jobs' = Added(e) /\ published' = published \cup {e}
                           ELSE UNCHANGED <<jobs, published>>
    /\ UNCHANGED <<users, read, created, mode, letters, failing, stored, dropped>>

\* publish and dispatchNotification.  A rejected add is logged and swallowed;
\* without a queue the job runs within the request.
Publish(r) ==
    /\ At(r, "publish")
    /\ LET e == run[r].ev IN
       /\ published' = published \cup {e}
       /\ IF mode = "queue"
          THEN /\ Stop(r)
               /\ answered' = answered \cup {e}
               /\ \/ jobs' = Added(e) /\ UNCHANGED lost
                  \/ "add" \in Faults /\ lost' = lost \cup {e} /\ UNCHANGED jobs
          ELSE /\ run' = [run EXCEPT ![r].pc = "users", ![r].attempt = 1]
               /\ UNCHANGED <<answered, jobs, lost>>
    /\ UNCHANGED <<users, read, created, mode, dlq, deadLetters, failing, stored, dropped>>

-----------------------------------------------------------------------------
(* Delivery: one attempt, by a worker slot or by a request.                *)

\* The attempt of x is over and needs no other.  BullMQ ignores the outcome of
\* a worker that has lost the job's lock.
Delivered(x) ==
    /\ Stop(x)
    /\ IF x \in Workers
       THEN /\ jobs' = IF run[x].lock THEN [jobs EXCEPT ![run[x].ev] = NoJob] ELSE jobs
            /\ UNCHANGED answered
       ELSE answered' = answered \cup {run[x].ev} /\ UNCHANGED jobs

\* Mutant: the retry budget is compared with the attempts before this one.
ExhaustedLate(tries) == tries > MAX_ATTEMPTS

Exhausted(tries) == tries >= MAX_ATTEMPTS

\* Mutants: one attempt more than the budget; no count of the attempts.
FailedJobLate(x) ==
    LET tries == jobs[run[x].ev].tries + 1 IN
    [state |-> IF tries > MAX_ATTEMPTS THEN "failed" ELSE "waiting", tries |-> tries]
FailedJobUncounted(x) == [state |-> "waiting", tries |-> 0]

\* The job after a failed attempt: back in the queue, or kept as failed.
FailedJob(x) ==
    LET tries == jobs[run[x].ev].tries + 1 IN
    [state |-> IF tries >= MAX_ATTEMPTS THEN "failed" ELSE "waiting", tries |-> tries]

\* The attempt of x threw.  BullMQ counts it and emits "failed", whose handler
\* acts on the last attempt and on terminal errors; runInline tries again.
Threw(x, terminal) ==
    /\ IF x \in Workers /\ ~run[x].lock
       THEN Stop(x) /\ UNCHANGED <<jobs, failing>>
       ELSE IF x \in Workers
       THEN LET e == run[x].ev IN
            /\ Stop(x)
            /\ jobs' = [jobs EXCEPT ![e] = FailedJob(x)]
            /\ failing' = IF Exhausted(FailedJob(x).tries) \/ terminal
                          THEN failing \cup {[ev |-> e, step |-> "letter",
                                              terminal |-> terminal]}
                          ELSE failing
       ELSE /\ run' = IF terminal \/ run[x].attempt = MAX_ATTEMPTS
                      THEN [run EXCEPT ![x].pc = "letter"]
                      ELSE [run EXCEPT ![x].pc = "users", ![x].attempt = @ + 1]
            /\ UNCHANGED <<jobs, failing>>
    /\ UNCHANGED answered

Take(w) ==
    /\ At(w, "idle") /\ mode # "boot"
    /\ \E e \in Events :
          /\ jobs[e].state = "waiting"
          /\ jobs' = [jobs EXCEPT ![e].state = "active"]
          /\ run' = [run EXCEPT ![w] = [Idle EXCEPT !.pc = "users", !.ev = e, !.lock = TRUE]]
    /\ UNCHANGED <<users, read, requests, mode, letters, failing, stored, dropped>>

\* The reads of deliverNotification: nobody is told of their own doing, a
\* vanished actor is a terminal error, a vanished recipient ends the job.
ReadUsers(x) ==
    /\ At(x, "users")
    /\ LET e == run[x].ev
           nobody == Actor[e] = Recipient[e]
                     \/ (Actor[e] \in users /\ Recipient[e] \notin users)
       IN \/ nobody /\ Delivered(x) /\ dropped' = dropped \cup {e} /\ UNCHANGED failing
          \/ /\ ~nobody /\ Actor[e] \notin users
             /\ Threw(x, TRUE) /\ UNCHANGED dropped
          \/ /\ ~nobody /\ Actor[e] \in users
             /\ Goto(x, "find") /\ UNCHANGED <<jobs, failing, answered, dropped>>
    /\ UNCHANGED <<users, read, created, published, mode, letters, stored>>

FindExisting(x) ==
    /\ At(x, "find")
    /\ IF stored[run[x].ev] > 0 THEN Delivered(x)
       ELSE Goto(x, "create") /\ UNCHANGED <<jobs, answered>>
    /\ UNCHANGED <<users, read, created, published, mode, letters, failing, stored, dropped>>

\* Mutant: without the unique index the insert always succeeds.
AcceptsAny(e) == TRUE

\* The unique index on dedupeKey.
Accepts(e) == stored[e] = 0

Create(x) ==
    /\ At(x, "create")
    /\ LET e == run[x].ev IN
       stored' = IF Accepts(e) THEN [stored EXCEPT ![e] = @ + 1] ELSE stored
    /\ Delivered(x)
    /\ UNCHANGED <<users, read, created, published, mode, letters, failing, dropped>>

\* Mongo rejects a call of the attempt; a rejected insert may have happened.
AttemptFails(x) ==
    /\ "deliver" \in Faults
    /\ run[x].pc \in {"users", "find", "create"}
    /\ Threw(x, FALSE)
    /\ \/ UNCHANGED stored
       \/ At(x, "create") /\ Accepts(run[x].ev)
          /\ stored' = [stored EXCEPT ![run[x].ev] = @ + 1]
    /\ UNCHANGED <<users, read, created, published, mode, letters, dropped>>

\* markNotificationRead: one update whose filter names the recipient.
MarkRead(e) ==
    /\ stored[e] > 0 /\ Recipient[e] \in users
    /\ read' = read \cup {e}
    /\ UNCHANGED <<users, requests, mode, jobs, letters, failing, run, stored, dropped>>

-----------------------------------------------------------------------------
(* Dead letters.                                                           *)

\* recordDeadLetter: the durable queue if there is one and it accepts the
\* letter, else the in-process buffer, whose oldest entry makes room.
RecordDeadLetter(e) ==
    \/ mode = "queue" /\ dlq' = dlq \cup {e} /\ UNCHANGED <<deadLetters, lost>>
    \/ /\ mode # "queue" \/ "dlq" \in Faults
       /\ IF Len(deadLetters) < DEAD_LETTER_CAPACITY
          THEN deadLetters' = Append(deadLetters, e) /\ UNCHANGED lost
          ELSE /\ deadLetters' = Append(Tail(deadLetters), e)
               /\ lost' = lost \cup {Head(deadLetters)}
       /\ UNCHANGED dlq

\* runInline gives up; the request is answered all the same.
InlineLetter(r) ==
    /\ At(r, "letter")
    /\ RecordDeadLetter(run[r].ev)
    /\ Stop(r)
    /\ answered' = answered \cup {run[r].ev}
    /\ UNCHANGED <<users, read, created, published, mode, jobs, failing, stored, dropped>>

\* The "failed" handler: the dead letter, then for a terminal error the
\* removal of the job, which fails while a worker holds it again.
HandleFailed(h) ==
    /\ h \in failing
    /\ \/ /\ h.step = "letter"
          /\ RecordDeadLetter(h.ev)
          /\ failing' = (failing \ {h}) \cup
                (IF h.terminal THEN {[h EXCEPT !.step = "remove"]} ELSE {})
          /\ UNCHANGED jobs
       \/ /\ h.step = "remove"
          /\ jobs' = IF jobs[h.ev].state = "active" THEN jobs
                     ELSE [jobs EXCEPT ![h.ev] = NoJob]
          /\ failing' = failing \ {h}
          /\ UNCHANGED letters
    /\ UNCHANGED <<users, read, requests, mode, run, stored, dropped>>

-----------------------------------------------------------------------------
(* The process and its surroundings.                                       *)

StartNotificationWorker ==
    /\ mode = "boot"
    /\ mode' = "queue"
    /\ UNCHANGED <<users, read, requests, jobs, letters, failing, run, stored, dropped>>

\* The worker's "error" event: the process forgets the queue, the worker goes on.
WorkerError ==
    /\ "error" \in Faults
    /\ mode = "queue"
    /\ mode' = "worker"
    /\ UNCHANGED <<users, read, requests, jobs, letters, failing, run, stored, dropped>>

\* Held by this process only: a document it has not published yet, a delivery
\* within a request, a dead letter to be written or in the buffer.
InMemory(e) ==
    \/ \E r \in Reqs : run[r].ev = e /\ run[r].pc \notin {"lookup", "insert"}
    \/ \E h \in failing : h.ev = e /\ h.step = "letter"
    \/ e \in Range(deadLetters)

\* The process dies: jobs being worked on return to the queue.
Crash ==
    /\ "crash" \in Faults
    /\ run' = [x \in Runners |-> Idle]
    /\ jobs' = [e \in Events |-> IF jobs[e].state = "active"
                                 THEN [jobs[e] EXCEPT !.state = "waiting"] ELSE jobs[e]]
    /\ failing' = {} /\ deadLetters' = << >>
    /\ mode' = "boot"
    /\ lost' = lost \cup {e \in Events : InMemory(e) /\ jobs'[e].state # "waiting"}
    /\ UNCHANGED <<users, read, requests, dlq, stored, dropped>>

\* A worker is late to renew its lock: BullMQ hands the job to another one, or
\* gives it up if that happened before, while the first works on.
Stall(w) ==
    /\ "stall" \in Faults
    /\ run[w].lock
    /\ run' = [run EXCEPT ![w].lock = FALSE]
    /\ \/ jobs' = [jobs EXCEPT ![run[w].ev].state = "waiting"] /\ UNCHANGED lost
       \/ jobs' = [jobs EXCEPT ![run[w].ev].state = "failed"] /\ lost' = lost \cup {run[w].ev}
    /\ UNCHANGED <<users, read, requests, mode, dlq, deadLetters, failing, stored, dropped>>

EraseUser(u) ==
    /\ "erase" \in Faults
    /\ users' = users \ {u}
    /\ UNCHANGED <<read, requests, mode, jobs, letters, failing, run, stored, dropped>>

Deliver(x) == ReadUsers(x) \/ FindExisting(x) \/ Create(x) \/ AttemptFails(x)
Continue(r) == Lookup(r) \/ Insert(r) \/ SubmitFails(r) \/ Publish(r) \/ InlineLetter(r)

Next ==
    \/ \E r \in Reqs : Continue(r) \/ \E e \in Events : Submit(r, e)
    \/ \E w \in Workers : Take(w) \/ Stall(w)
    \/ \E x \in Runners : Deliver(x)
    \/ \E e \in Events : MarkRead(e)
    \/ \E h \in failing : HandleFailed(h)
    \/ StartNotificationWorker \/ WorkerError \/ Crash
    \/ \E u \in Users : EraseUser(u)

Spec == Init /\ [][Next]_vars

\* The event loop resumes every awaiting function, the worker keeps taking
\* jobs, and every emitted event is handled.
Fairness ==
    /\ WF_vars(StartNotificationWorker)
    /\ \A r \in Reqs : WF_vars(Continue(r))
    /\ \A w \in Workers : WF_vars(Take(w))
    /\ \A x \in Runners : WF_vars(Deliver(x))
    /\ \A h \in Handler : WF_vars(HandleFailed(h))

FairSpec == Spec /\ Fairness
-----------------------------------------------------------------------------
(* Properties.                                                             *)

TypeOK ==
    /\ users \subseteq Users
    /\ created \subseteq Events /\ published \subseteq created
    /\ answered \subseteq created /\ dropped \subseteq Events
    /\ mode \in {"boot", "queue", "worker"}
    /\ jobs \in [Events -> Job]
    /\ dlq \subseteq Events
    /\ deadLetters \in Seq(Events) /\ Len(deadLetters) <= DEAD_LETTER_CAPACITY
    /\ lost \subseteq created
    /\ failing \subseteq Handler
    /\ run \in [Runners -> Run]
    /\ stored \in [Events -> Nat] /\ read \subseteq {e \in Events : stored[e] > 0}

\* The queue is at-least-once and an insert may have happened although it
\* failed, yet an event leads to one notification at most
\* (createIfAbsent, notification.repository.js:12-27).
AtMostOneNotification == \A e \in Events : stored[e] <= 1

\* Where an event is once it needs no more work.
Settled(e) == \/ stored[e] > 0 \/ e \in dropped
              \/ e \in dlq \/ e \in Range(deadLetters)

Underway(e) == \/ jobs[e].state \in {"waiting", "active"}
               \/ \E x \in Runners : run[x].ev = e /\ run[x].pc \notin {"lookup", "insert"}
               \/ \E h \in failing : h.ev = e /\ h.step = "letter"

\* Whatever fails, a published event is never forgotten by the way the parts
\* hand it over: it is being worked on, was delivered or dropped, or is a dead
\* letter, unless a fault took it at one of the places "lost" names
\* (README.md:105, SC-017).
NothingLost == \A e \in published : Settled(e) \/ Underway(e) \/ e \in lost

\* Retrying ends: every published event is settled sooner or later, though
\* every attempt may fail (MAX_ATTEMPTS, FR-027), or a fault took it.
EventuallySettled == \A e \in Events : e \in published ~> Settled(e) \/ e \in lost

\* A replayed comment is answered without publishing, on the strength of the
\* request that inserted it.  Once some request for an event was answered, the
\* event is published, the one request that inserted it is about to publish
\* it, or that request was told that its insert failed or died with its
\* process: then no other ever publishes it
\* (comment.service.js:53-56, 74-97).
AnsweredIsPublished ==
    /\ \A e \in answered : \/ e \in published \cup lost
                          \/ \E r \in Reqs : At(r, "publish") /\ run[r].ev = e
    /\ \A r \in Reqs : At(r, "publish") => run[r].ev \notin published \cup lost
=============================================================================
