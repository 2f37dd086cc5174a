------------------------- MODULE NotificationsProofs -------------------------
(***************************************************************************)
(* For any number of events, requests, worker slots and attempts: how many *)
(* notifications an event leads to, and where it is until then.            *)
(***************************************************************************)
EXTENDS Notifications, TLAPS

-----------------------------------------------------------------------------
(* The invariant, whatever the faults.                                     *)

Delivering == {"users", "find", "create"}

\* What runner x, doing q, may count on.
RunOK(x, q) ==
    /\ q.pc = "idle" => q.ev = None
    /\ q.pc # "idle" => q.ev \in Events
    /\ x \in Workers => q.pc \in {"idle"} \cup Delivering
    /\ x \in Reqs /\ q.pc \in {"publish", "letter"} \cup Delivering => q.ev \in created
    /\ q.pc = "publish" => q.ev \notin published
    /\ q.pc \in {"letter"} \cup Delivering => q.ev \in published
    /\ x \in Workers /\ q.lock => q.pc \in Delivering /\ jobs[q.ev].state = "active"

\* One request publishes an event; one worker holds the lock of a job.
Exclusive ==
    /\ \A x, y \in Reqs : run[x].pc = "publish" /\ run[y].pc = "publish" /\ run[x].ev = run[y].ev
                          => x = y
    /\ \A x, y \in Workers : run[x].lock /\ run[y].lock /\ run[x].ev = run[y].ev => x = y

RunsOK ==
    /\ run \in [Runners -> Run]
    /\ \A x \in Runners : RunOK(x, run[x])
    /\ Exclusive

JobsOK ==
    /\ jobs \in [Events -> Job]
    /\ \A e \in Events : /\ jobs[e].state \in {"waiting", "active"} => jobs[e].tries < MAX_ATTEMPTS
                         /\ jobs[e].state # "none" => e \in published

LettersOK == /\ dlq \subseteq Events
             /\ deadLetters \in Seq(published) /\ Len(deadLetters) <= DEAD_LETTER_CAPACITY
             /\ lost \subseteq created

SetsOK ==
    /\ users \subseteq Users
    /\ created \subseteq Events /\ published \subseteq created
    /\ answered \subseteq created /\ dropped \subseteq Events
    /\ mode \in {"boot", "queue", "worker"}

StoredOK == stored \in [Events -> 0..1] /\ read \subseteq {e \in Events : stored[e] > 0}

HandlersOK == failing \subseteq Handler /\ \A h \in failing : h.ev \in published

IInv == RunsOK /\ JobsOK /\ LettersOK /\ SetsOK /\ StoredOK /\ HandlersOK

LEMMA IdleFields ==
    /\ Idle \in Run /\ Idle.pc = "idle" /\ Idle.ev = None /\ ~Idle.lock /\ Idle.attempt = 0
<1>1. PICK b \in BOOLEAN : b = FALSE
  OBVIOUS
<1>2. Idle = [pc |-> "idle", ev |-> None, attempt |-> 0, lock |-> b]
  BY <1>1, Zenon DEF Idle
<1>3. Idle \in Run /\ Idle.pc = "idle" /\ Idle.ev = None /\ Idle.lock = b /\ Idle.attempt = 0
  BY <1>2, LimitAssumption DEF Run
<1> QED BY <1>1, <1>3

LEMMA SeqGrows == ASSUME NEW S, NEW T, S \subseteq T, NEW s \in Seq(S) PROVE s \in Seq(T)
<1>1. s \in [1..Len(s) -> S] /\ Len(s) \in Nat
  OBVIOUS
<1> QED BY <1>1

LEMMA NoJobFields == NoJob \in Job /\ NoJob.state = "none"
  BY LimitAssumption DEF NoJob, Job

\* A step of one runner.
LEMMA OneRun ==
    ASSUME IInv, NEW x \in Runners, NEW q \in Run, run' = [run EXCEPT ![x] = q],
           RunOK(x, q)', created \subseteq created', published \subseteq published',
           \A y \in Runners \ {x} : run[y].pc = "publish" => run[y].ev \notin published',
           \A y \in Workers \ {x} : run[y].lock => jobs'[run[y].ev].state = "active",
           x \in Reqs /\ q.pc = "publish" =>
              \A y \in Reqs \ {x} : run[y].pc = "publish" => run[y].ev # q.ev,
           x \in Workers /\ q.lock =>
              \A y \in Workers \ {x} : run[y].lock => run[y].ev # q.ev
    PROVE  RunsOK'
<1>1. run' \in [Runners -> Run] /\ run'[x] = q /\ \A y \in Runners \ {x} : run'[y] = run[y]
  BY DEF IInv, RunsOK
<1>2. ASSUME NEW y \in Runners PROVE RunOK(y, run[y])'
  <2>1. CASE y = x
    BY <1>1, <2>1 DEF RunOK
  <2>2. CASE y # x
    BY <1>1, <2>2 DEF RunOK, IInv, RunsOK
  <2> QED BY <2>1, <2>2
<1>3. Exclusive'
  BY <1>1 DEF Exclusive, IInv, RunsOK, Runners
<1> QED BY <1>1, <1>2, <1>3 DEF RunsOK

\* What is known of a runner.
LEMMA Known ==
    ASSUME IInv, NEW x \in Runners
    PROVE  /\ run[x] \in Run /\ RunOK(x, run[x]) /\ None \notin Events
           /\ run[x].pc # "idle" => run[x].ev \in Events
  BY EventAssumption DEF IInv, RunsOK, RunOK

LEMMA Stops ==
    ASSUME IInv, NEW x \in Runners, Stop(x), UNCHANGED <<created, published>>,
           \A y \in Workers \ {x} : run[y].lock => jobs'[run[y].ev].state = "active"
    PROVE  RunsOK'
<1>1. RunOK(x, Idle)'
  BY IdleFields DEF RunOK, Delivering
<1>2. \A y \in Runners \ {x} : run[y].pc = "publish" => run[y].ev \notin published'
  BY Known DEF RunOK
<1> QED BY <1>1, <1>2, IdleFields, OneRun DEF Stop

LEMMA Goes ==
    ASSUME IInv, NEW x \in Runners, NEW pc \in {"insert", "publish", "find", "create"}, Goto(x, pc)
    PROVE  \E q \in Run : /\ run' = [run EXCEPT ![x] = q] /\ q.pc = pc /\ q.ev = run[x].ev
                          /\ q.lock = run[x].lock
<1>1. PICK q : q = [run[x] EXCEPT !.pc = pc]
  OBVIOUS
<1>2. q \in Run /\ q.pc = pc /\ q.ev = run[x].ev /\ q.lock = run[x].lock
  BY <1>1, Known DEF Run
<1>3. run' = [run EXCEPT ![x] = q]
  BY <1>1 DEF Goto, IInv, RunsOK
<1> QED BY <1>2, <1>3

LEMMA JobsSame == ASSUME IInv, UNCHANGED jobs, published \subseteq published'
                  PROVE  /\ JobsOK'
                         /\ \A y \in Workers : run[y].lock => jobs'[run[y].ev].state = "active"
  BY Known DEF IInv, JobsOK, RunOK, Runners

-----------------------------------------------------------------------------
(* Requests.                                                               *)

LEMMA SubmitKeeps == ASSUME IInv, NEW r \in Reqs, NEW e \in Events, Submit(r, e) PROVE IInv'
<1>0. r \in Runners /\ r \notin Workers
  BY RunnerAssumption DEF Runners
<1>1. PICK pc \in {"lookup", "insert"} : pc = IF e \in Keyed THEN "lookup" ELSE "insert"
  OBVIOUS
<1>2. PICK q : q = [Idle EXCEPT !.ev = e, !.pc = pc]
  OBVIOUS
<1>3. q \in Run /\ q.pc = pc /\ q.ev = e
  BY <1>2, IdleFields DEF Run
<1>4. /\ run' = [run EXCEPT ![r] = q]
      /\ UNCHANGED <<users, read, created, published, answered, mode, jobs, dlq, deadLetters, lost,
                     failing, stored, dropped>>
  BY <1>1, <1>2 DEF Submit, requests, letters
<1>5. RunsOK'
  <2>1. RunOK(r, q)'
    BY <1>0, <1>3 DEF RunOK, Delivering
  <2>2. \A y \in Runners \ {r} : run[y].pc = "publish" => run[y].ev \notin published'
    BY <1>4, Known DEF RunOK
  <2> QED BY <1>0, <1>3, <1>4, <2>1, <2>2, JobsSame, OneRun
<1> QED BY <1>4, <1>5, JobsSame DEF IInv, LettersOK, SetsOK, StoredOK, HandlersOK

LEMMA LookupKeeps == ASSUME IInv, NEW r \in Reqs, Lookup(r) PROVE IInv'
<1>0. r \in Runners /\ r \notin Workers /\ run[r].pc = "lookup"
  BY RunnerAssumption DEF Runners, Lookup, At
<1>1. UNCHANGED <<users, read, created, published, mode, jobs, dlq, deadLetters, lost,
                  failing, stored, dropped>>
  BY DEF Lookup, letters
<1>2. RunsOK'
  <2>1. CASE run[r].ev \in created
    BY <1>0, <1>1, <2>1, JobsSame, Stops DEF Lookup
  <2>2. CASE run[r].ev \notin created
    <3>1. PICK q \in Run : run' = [run EXCEPT ![r] = q] /\ q.pc = "insert" /\ q.ev = run[r].ev
      BY <1>0, <2>2, Goes DEF Lookup
    <3>2. RunOK(r, q)'
      BY <1>0, <3>1, Known DEF RunOK, Delivering
    <3>3. \A y \in Runners \ {r} : run[y].pc = "publish" => run[y].ev \notin published'
      BY <1>1, Known DEF RunOK
    <3> QED BY <1>0, <1>1, <3>1, <3>2, <3>3, JobsSame, OneRun
  <2> QED BY <2>1, <2>2
<1>3. answered' \subseteq created
  BY DEF Lookup, IInv, SetsOK
<1> QED BY <1>1, <1>2, <1>3, JobsSame DEF IInv, LettersOK, SetsOK, StoredOK, HandlersOK

LEMMA InsertKeeps == ASSUME IInv, NEW r \in Reqs, Insert(r) PROVE IInv'
<1>0. /\ r \in Runners /\ r \notin Workers /\ run[r].pc = "insert" /\ run[r].ev \in Events
  BY RunnerAssumption, Known DEF Runners, Insert, At
<1>1. UNCHANGED <<users, read, published, mode, jobs, dlq, deadLetters, lost, failing, stored, dropped>>
  BY DEF Insert, letters
<1>2. CASE run[r].ev \in created
  <2>1. Stop(r) /\ UNCHANGED created /\ answered' \subseteq created
    BY <1>2 DEF Insert, IInv, SetsOK
  <2>2. RunsOK'
    BY <1>0, <1>1, <2>1, JobsSame, Stops
  <2> QED BY <1>1, <2>1, <2>2, JobsSame DEF IInv, LettersOK, SetsOK, StoredOK, HandlersOK
<1>3. CASE run[r].ev \notin created
  <2>1. Goto(r, "publish") /\ created' = created \cup {run[r].ev} /\ UNCHANGED answered
    BY <1>3 DEF Insert
  <2>2. PICK q \in Run : run' = [run EXCEPT ![r] = q] /\ q.pc = "publish" /\ q.ev = run[r].ev
    BY <1>0, <2>1, Goes
  <2>3. RunOK(r, q)'
    BY <1>0, <1>1, <1>3, <2>1, <2>2 DEF RunOK, Delivering, IInv, SetsOK
  <2>4. \A y \in Runners \ {r} : run[y].pc = "publish" => run[y].ev \notin published'
    BY <1>1, Known DEF RunOK
  <2>5. \A y \in Reqs \ {r} : run[y].pc = "publish" => run[y].ev # q.ev
    BY <1>3, <2>2, Known DEF RunOK, Runners
  <2>6. RunsOK'
    BY <1>0, <1>1, <2>1, <2>2, <2>3, <2>4, <2>5, JobsSame, OneRun
  <2> QED BY <1>0, <1>1, <2>1, <2>6, JobsSame DEF IInv, LettersOK, SetsOK, StoredOK, HandlersOK
<1> QED BY <1>2, <1>3

LEMMA SubmitFailsKeeps == ASSUME IInv, NEW r \in Reqs, SubmitFails(r) PROVE IInv'
<1>0. /\ r \in Runners /\ r \notin Workers /\ run[r].pc \in {"lookup", "insert"}
      /\ run[r].ev \in Events
  BY RunnerAssumption, Known DEF Runners, SubmitFails, At
<1>1. /\ UNCHANGED <<users, read, published, answered, mode, jobs, dlq, deadLetters, failing,
                     stored, dropped>>
      /\ Stop(r)
      /\ \/ UNCHANGED <<created, lost>>
         \/ created' = created \cup {run[r].ev} /\ lost' = lost \cup {run[r].ev}
  BY DEF SubmitFails
<1>2. RunOK(r, Idle)'
  BY IdleFields DEF RunOK, Delivering
<1>3. \A y \in Runners \ {r} : run[y].pc = "publish" => run[y].ev \notin published'
  BY <1>1, Known DEF RunOK
<1>4. RunsOK'
  BY <1>0, <1>1, <1>2, <1>3, IdleFields, JobsSame, OneRun DEF Stop
<1> QED BY <1>0, <1>1, <1>4, JobsSame DEF IInv, LettersOK, SetsOK, StoredOK, HandlersOK

\* Adding a job changes none that a worker holds.
LEMMA Adding ==
    ASSUME IInv, NEW e \in Events, published' = published \cup {e}, jobs' \in {jobs, Added(e)}
    PROVE  /\ JobsOK'
           /\ \A y \in Workers : run[y].lock => jobs'[run[y].ev].state = "active"
<1>1. PICK new : new = [state |-> "waiting", tries |-> 0]
  OBVIOUS
<1>2. new \in Job /\ new.state = "waiting" /\ new.tries = 0
  BY <1>1, LimitAssumption DEF Job
<1>3. jobs' = jobs \/ (jobs[e].state = "none" /\ jobs' = [jobs EXCEPT ![e] = new])
  BY <1>1 DEF Added
<1>4. JobsOK'
  BY <1>2, <1>3, LimitAssumption DEF IInv, JobsOK
<1>5. ASSUME NEW y \in Workers, run[y].lock PROVE jobs'[run[y].ev].state = "active"
  <2>1. run[y].ev \in Events /\ jobs[run[y].ev].state = "active"
    BY <1>5, Known DEF RunOK, Runners, Delivering
  <2> QED BY <1>3, <2>1 DEF IInv, JobsOK
<1> QED BY <1>4, <1>5

LEMMA PublishKeeps == ASSUME IInv, NEW r \in Reqs, Publish(r) PROVE IInv'
<1> DEFINE e == run[r].ev
<1>0. /\ r \in Runners /\ r \notin Workers /\ run[r].pc = "publish"
      /\ e \in Events /\ e \in created /\ e \notin published
  BY RunnerAssumption, Known DEF Runners, Publish, At, RunOK
<1>1. /\ UNCHANGED <<users, read, created, mode, dlq, deadLetters, failing, stored, dropped>>
      /\ published' = published \cup {e} /\ answered' \in {answered, answered \cup {e}}
      /\ lost' \in {lost, lost \cup {e}}
  BY DEF Publish
<1>2. jobs' \in {jobs, Added(e)}
  BY DEF Publish
<1>3. JobsOK' /\ \A y \in Workers : run[y].lock => jobs'[run[y].ev].state = "active"
  <2> HIDE DEF e
  <2> QED BY <1>0, <1>1, <1>2, Adding
<1>4. \E q \in Run : run' = [run EXCEPT ![r] = q] /\ (q = Idle \/ (q.pc = "users" /\ q.ev = e))
  <2>1. CASE mode = "queue"
    BY <2>1, IdleFields DEF Publish, Stop
  <2>2. CASE mode # "queue"
    <3>1. PICK q : q = [run[r] EXCEPT !.pc = "users", !.attempt = 1]
      OBVIOUS
    <3>2. q \in Run /\ q.pc = "users" /\ q.ev = e
      <4>1. 1 \in 0..MAX_ATTEMPTS
        BY LimitAssumption
      <4> QED BY <1>0, <3>1, <4>1, Known DEF Run
    <3>3. run' = [run EXCEPT ![r].pc = "users", ![r].attempt = 1]
      BY <2>2 DEF Publish
    <3>4. run' = [run EXCEPT ![r] = q]
      BY <1>0, <3>1, <3>3, Known DEF Run, IInv, RunsOK
    <3> QED BY <3>2, <3>4
  <2> QED BY <2>1, <2>2
<1>5. PICK q \in Run : run' = [run EXCEPT ![r] = q] /\ (q = Idle \/ (q.pc = "users" /\ q.ev = e))
  BY <1>4
<1>6. RunOK(r, q)'
  BY <1>0, <1>1, <1>5, IdleFields DEF RunOK, Delivering
<1>7. \A y \in Runners \ {r} : run[y].pc = "publish" => run[y].ev \notin published'
  BY <1>0, <1>1, Known, RunnerAssumption DEF RunOK, Runners, IInv, RunsOK, Exclusive, Delivering
<1>8. RunsOK'
  BY <1>0, <1>1, <1>3, <1>5, <1>6, <1>7, IdleFields, OneRun
<1>9. LettersOK'
  <2>1. deadLetters \in Seq(published')
    BY <1>1, SeqGrows DEF IInv, LettersOK
  <2> QED BY <1>0, <1>1, <2>1 DEF IInv, LettersOK
<1> QED BY <1>0, <1>1, <1>3, <1>8, <1>9 DEF IInv, SetsOK, StoredOK, HandlersOK

-----------------------------------------------------------------------------
(* Delivery.                                                               *)

\* The job of a worker that holds the lock is its own.
LEMMA Owned ==
    ASSUME IInv, NEW x \in Workers, run[x].lock
    PROVE  /\ run[x].ev \in Events /\ run[x].ev \in published
           /\ jobs[run[x].ev].state = "active"
           /\ \A y \in Workers \ {x} : run[y].lock => run[y].ev # run[x].ev
  BY Known DEF RunOK, Delivering, Runners, IInv, RunsOK, Exclusive

\* A job not worked on by another may be replaced.
LEMMA JobReplaced ==
    ASSUME IInv, NEW e \in Events, NEW job \in Job, NEW x,
           jobs' = [jobs EXCEPT ![e] = job], UNCHANGED published,
           job.state \in {"waiting", "active"} => job.tries < MAX_ATTEMPTS,
           job.state # "none" => e \in published,
           \A y \in Workers \ {x} : run[y].lock => run[y].ev # e
    PROVE  /\ JobsOK'
           /\ \A y \in Workers \ {x} : run[y].lock => jobs'[run[y].ev].state = "active"
<1>1. JobsOK'
  BY DEF IInv, JobsOK
<1>2. ASSUME NEW y \in Workers \ {x}, run[y].lock PROVE jobs'[run[y].ev].state = "active"
  BY <1>2, Owned DEF IInv, JobsOK
<1> QED BY <1>1, <1>2

LEMMA DeliveredKeeps ==
    ASSUME IInv, NEW x \in Runners, run[x].pc \in Delivering, Delivered(x),
           UNCHANGED <<created, published>>
    PROVE  RunsOK' /\ JobsOK' /\ answered' \subseteq created
<1> DEFINE e == run[x].ev
<1>1. CASE x \in Workers /\ run[x].lock
  <2>1. jobs' = [jobs EXCEPT ![e] = NoJob] /\ Stop(x) /\ UNCHANGED answered
    BY <1>1 DEF Delivered
  <2>2. JobsOK' /\ \A y \in Workers \ {x} : run[y].lock => jobs'[run[y].ev].state = "active"
    <3>1. PICK ev \in Events : ev = e
      BY <1>1, Owned
    <3>2. \A y \in Workers \ {x} : run[y].lock => run[y].ev # ev
      BY <1>1, <3>1, Owned
    <3> HIDE DEF e
    <3> QED BY ZenonT(60), <2>1, <3>1, <3>2, NoJobFields, JobReplaced
  <2>3. RunsOK'
    BY <2>1, <2>2, Stops
  <2> QED BY <2>1, <2>2, <2>3 DEF IInv, SetsOK
<1>2. CASE ~(x \in Workers /\ run[x].lock)
  <2>1. UNCHANGED jobs /\ Stop(x)
    BY <1>2 DEF Delivered
  <2>2. JobsOK' /\ RunsOK'
    BY <2>1, JobsSame, Stops
  <2>3. answered' \subseteq created
    BY <1>2, Known DEF Delivered, IInv, SetsOK, RunOK, Runners
  <2> QED BY <2>2, <2>3
<1> QED BY <1>1, <1>2

LEMMA FailedJobFields ==
    ASSUME IInv, NEW x \in Workers, run[x].lock
    PROVE  /\ FailedJob(x) \in Job /\ FailedJob(x).state \in {"waiting", "failed"}
           /\ FailedJob(x).state = "waiting" => FailedJob(x).tries < MAX_ATTEMPTS
           /\ FailedJob(x).state = "failed" => FailedJob(x).tries >= MAX_ATTEMPTS
<1> DEFINE t == jobs[run[x].ev].tries + 1
<1>1. PICK tries : tries = t
  OBVIOUS
<1>2. tries \in 0..MAX_ATTEMPTS
  BY <1>1, Owned, LimitAssumption DEF IInv, JobsOK, Job
<1>3. PICK state : state = IF tries >= MAX_ATTEMPTS THEN "failed" ELSE "waiting"
  OBVIOUS
<1>4. FailedJob(x) = [state |-> state, tries |-> tries]
  BY <1>1, <1>3 DEF FailedJob
<1> QED BY <1>2, <1>3, <1>4, LimitAssumption DEF Job

LEMMA ThrewKeeps ==
    ASSUME IInv, NEW x \in Runners, run[x].pc \in Delivering, NEW terminal \in BOOLEAN,
           Threw(x, terminal), UNCHANGED <<created, published>>
    PROVE  RunsOK' /\ JobsOK' /\ HandlersOK' /\ UNCHANGED answered
<1>0. UNCHANGED answered /\ run[x].ev \in Events /\ run[x].ev \in published
  BY Known DEF Threw, RunOK, Delivering
<1>1. CASE x \in Workers /\ ~run[x].lock
  <2>1. Stop(x) /\ UNCHANGED <<jobs, failing>>
    BY <1>1 DEF Threw
  <2> QED BY <1>0, <2>1, JobsSame, Stops DEF IInv, HandlersOK
<1>2. CASE x \in Workers /\ run[x].lock
  <2>1. /\ Stop(x) /\ jobs' = [jobs EXCEPT ![run[x].ev] = FailedJob(x)]
        /\ failing' \in {failing, failing \cup {[ev |-> run[x].ev, step |-> "letter",
                                                 terminal |-> terminal]}}
    BY <1>2 DEF Threw
  <2>2. JobsOK' /\ \A y \in Workers \ {x} : run[y].lock => jobs'[run[y].ev].state = "active"
    <3>1. PICK ev \in Events : ev = run[x].ev
      BY <1>0
    <3>2. PICK job : job = FailedJob(x)
      OBVIOUS
    <3>3. job \in Job /\ job.state \in {"waiting", "failed"}
          /\ (job.state = "waiting" => job.tries < MAX_ATTEMPTS)
      BY <1>2, <3>2, FailedJobFields
    <3>4. \A y \in Workers \ {x} : run[y].lock => run[y].ev # ev
      BY <1>2, <3>1, Owned
    <3>5. ev \in published /\ jobs' = [jobs EXCEPT ![ev] = job]
      BY <1>0, <2>1, <3>1, <3>2
    <3> QED BY ZenonT(60), <3>3, <3>4, <3>5, JobReplaced
  <2>3. RunsOK'
    BY <2>1, <2>2, Stops
  <2>4. HandlersOK'
    <3>1. PICK h : h = [ev |-> run[x].ev, step |-> "letter", terminal |-> terminal]
      OBVIOUS
    <3>2. h \in Handler /\ h.ev = run[x].ev
      BY <1>0, <3>1 DEF Handler
    <3> QED BY <1>0, <2>1, <3>1, <3>2 DEF IInv, HandlersOK
  <2> QED BY <1>0, <2>2, <2>3, <2>4
<1>3. CASE x \notin Workers
  <2>1. UNCHANGED <<jobs, failing>> /\ x \in Reqs
    BY <1>3 DEF Threw, Runners
  <2>2. \E q \in Run : /\ run' = [run EXCEPT ![x] = q] /\ q.ev = run[x].ev
                       /\ q.pc \in {"letter", "users"}
    <3>1. CASE run' = [run EXCEPT ![x].pc = "letter"]
      <4>1. PICK q : q = [run[x] EXCEPT !.pc = "letter"]
        OBVIOUS
      <4>2. q \in Run /\ q.ev = run[x].ev /\ q.pc = "letter"
        BY <4>1, Known DEF Run
      <4> QED BY <3>1, <4>1, <4>2, Known DEF Run, IInv, RunsOK
    <3>2. CASE /\ run[x].attempt # MAX_ATTEMPTS
               /\ run' = [run EXCEPT ![x].pc = "users", ![x].attempt = @ + 1]
      <4>1. PICK n : n = run[x].attempt + 1
        OBVIOUS
      <4>2. n \in 0..MAX_ATTEMPTS
        BY <3>2, <4>1, Known, LimitAssumption DEF Run
      <4>3. PICK q : q = [run[x] EXCEPT !.pc = "users", !.attempt = n]
        OBVIOUS
      <4>4. q \in Run /\ q.ev = run[x].ev /\ q.pc = "users"
        BY <4>2, <4>3, Known DEF Run
      <4>5. run' = [run EXCEPT ![x] = q]
        BY <3>2, <4>1, <4>3, Known DEF Run, IInv, RunsOK
      <4> QED BY <4>4, <4>5
    <3> QED BY <1>3, <3>1, <3>2 DEF Threw
  <2>3. PICK q \in Run : /\ run' = [run EXCEPT ![x] = q] /\ q.ev = run[x].ev
                         /\ q.pc \in {"letter", "users"}
    BY <2>2
  <2>4. RunOK(x, q)'
    BY <1>0, <1>3, <2>1, <2>3, Known DEF RunOK, Delivering
  <2>5. RunsOK' /\ JobsOK'
    BY <1>3, <2>1, <2>3, <2>4, JobsSame, OneRun, Known DEF RunOK
  <2> QED BY <1>0, <2>1, <2>5 DEF IInv, HandlersOK
<1> QED BY <1>1, <1>2, <1>3

LEMMA TakeKeeps == ASSUME IInv, NEW w \in Workers, Take(w) PROVE IInv'
<1>0. w \in Runners /\ w \notin Reqs /\ run[w].pc = "idle"
  BY RunnerAssumption DEF Runners, Take, At
<1>1. UNCHANGED <<users, read, created, published, answered, mode, dlq, deadLetters, lost, failing,
                  stored, dropped>>
  BY DEF Take, requests, letters
<1>2. PICK e \in Events :
        /\ jobs[e].state = "waiting"
        /\ jobs' = [jobs EXCEPT ![e].state = "active"]
        /\ run' = [run EXCEPT ![w] = [Idle EXCEPT !.pc = "users", !.ev = e, !.lock = TRUE]]
  BY DEF Take
<1>3. PICK job : job = [jobs[e] EXCEPT !.state = "active"]
  OBVIOUS
<1>4. /\ job \in Job /\ job.state = "active" /\ job.tries < MAX_ATTEMPTS
      /\ jobs' = [jobs EXCEPT ![e] = job] /\ e \in published
  BY <1>2, <1>3 DEF IInv, JobsOK, Job
<1>5. \A y \in Workers : run[y].lock => run[y].ev # e
  BY <1>2, Owned
<1>6. JobsOK' /\ \A y \in Workers \ {w} : run[y].lock => jobs'[run[y].ev].state = "active"
  BY ZenonT(60), <1>1, <1>4, <1>5, JobReplaced
<1>7. PICK b \in BOOLEAN : b = TRUE
  OBVIOUS
<1>8. PICK q : q = [Idle EXCEPT !.pc = "users", !.ev = e, !.lock = b]
  OBVIOUS
<1>9. q \in Run /\ q.pc = "users" /\ q.ev = e
  BY <1>8, IdleFields DEF Run
<1>10. run' = [run EXCEPT ![w] = q]
  <2>1. q = [Idle EXCEPT !.pc = "users", !.ev = e, !.lock = TRUE]
    BY <1>7, <1>8, Zenon
  <2> QED BY <1>2, <2>1
<1>11. RunOK(w, q)'
  <2>1. jobs'[e].state = "active"
    BY <1>4 DEF IInv, JobsOK
  <2> QED BY <1>0, <1>1, <1>4, <1>9, <2>1 DEF RunOK, Delivering
<1>12. \A y \in Runners \ {w} : run[y].pc = "publish" => run[y].ev \notin published'
  BY <1>1, Known DEF RunOK
<1>13. RunsOK'
  BY <1>0, <1>1, <1>5, <1>6, <1>9, <1>10, <1>11, <1>12, OneRun
<1> QED BY <1>1, <1>4, <1>6, <1>13 DEF IInv, LettersOK, SetsOK, StoredOK, HandlersOK

LEMMA ReadUsersKeeps == ASSUME IInv, NEW x \in Runners, ReadUsers(x) PROVE IInv'
<1>0. /\ run[x].pc = "users" /\ run[x].pc \in Delivering
      /\ UNCHANGED <<users, read, created, published, mode, dlq, deadLetters, lost, stored>>
  BY DEF ReadUsers, At, Delivering, letters
<1>1. CASE Delivered(x) /\ dropped' = dropped \cup {run[x].ev} /\ UNCHANGED failing
  <2>1. run[x].ev \in Events
    BY <1>0, Known
  <2> QED BY <1>0, <1>1, <2>1, DeliveredKeeps DEF IInv, LettersOK, SetsOK, StoredOK, HandlersOK
<1>2. CASE Threw(x, TRUE) /\ UNCHANGED dropped
  <2>1. RunsOK' /\ JobsOK' /\ HandlersOK' /\ UNCHANGED answered
    BY <1>0, <1>2, ThrewKeeps
  <2> QED BY <1>0, <1>2, <2>1 DEF IInv, LettersOK, SetsOK, StoredOK
<1>3. CASE Goto(x, "find") /\ UNCHANGED <<jobs, failing, answered, dropped>>
  <2>1. PICK q \in Run : /\ run' = [run EXCEPT ![x] = q] /\ q.pc = "find" /\ q.ev = run[x].ev
                         /\ q.lock = run[x].lock
    BY <1>3, Goes
  <2>2. RunOK(x, q)'
    BY <1>0, <1>3, <2>1, Known DEF RunOK, Delivering
  <2>3. \A y \in Runners \ {x} : run[y].pc = "publish" => run[y].ev \notin published'
    BY <1>0, Known DEF RunOK
  <2>4. x \in Workers /\ q.lock => \A y \in Workers \ {x} : run[y].lock => run[y].ev # q.ev
    BY <2>1, Owned
  <2>5. RunsOK'
    BY <1>0, <1>3, <2>1, <2>2, <2>3, <2>4, JobsSame, OneRun
  <2> QED BY <1>0, <1>3, <2>5, JobsSame DEF IInv, LettersOK, SetsOK, StoredOK, HandlersOK
<1> QED BY <1>1, <1>2, <1>3 DEF ReadUsers

LEMMA FindExistingKeeps == ASSUME IInv, NEW x \in Runners, FindExisting(x) PROVE IInv'
<1>0. /\ run[x].pc = "find" /\ run[x].pc \in Delivering
      /\ UNCHANGED <<users, read, created, published, mode, dlq, deadLetters, lost, failing, stored, dropped>>
  BY DEF FindExisting, At, Delivering, letters
<1>1. CASE Delivered(x)
  BY <1>0, <1>1, DeliveredKeeps DEF IInv, LettersOK, SetsOK, StoredOK, HandlersOK
<1>2. CASE Goto(x, "create") /\ UNCHANGED <<jobs, answered>>
  <2>1. PICK q \in Run : /\ run' = [run EXCEPT ![x] = q] /\ q.pc = "create" /\ q.ev = run[x].ev
                         /\ q.lock = run[x].lock
    BY <1>2, Goes
  <2>2. RunOK(x, q)'
    BY <1>0, <1>2, <2>1, Known DEF RunOK, Delivering
  <2>3. \A y \in Runners \ {x} : run[y].pc = "publish" => run[y].ev \notin published'
    BY <1>0, Known DEF RunOK
  <2>4. x \in Workers /\ q.lock => \A y \in Workers \ {x} : run[y].lock => run[y].ev # q.ev
    BY <2>1, Owned
  <2>5. RunsOK'
    BY <1>0, <1>2, <2>1, <2>2, <2>3, <2>4, JobsSame, OneRun
  <2> QED BY <1>0, <1>2, <2>5, JobsSame DEF IInv, LettersOK, SetsOK, StoredOK, HandlersOK
<1> QED BY <1>1, <1>2 DEF FindExisting

\* The unique index: an insert raises a count from 0 to 1 only.
LEMMA Inserting ==
    ASSUME IInv, NEW e \in Events, UNCHANGED read,
           \/ UNCHANGED stored
           \/ Accepts(e) /\ stored' = [stored EXCEPT ![e] = @ + 1]
    PROVE  StoredOK' /\ \A d \in Events : stored[d] > 0 => stored'[d] > 0
  BY DEF IInv, StoredOK, Accepts

LEMMA CreateKeeps == ASSUME IInv, NEW x \in Runners, Create(x) PROVE IInv'
<1>0. /\ run[x].pc \in Delivering /\ run[x].ev \in Events /\ Delivered(x)
      /\ UNCHANGED <<users, read, created, published, mode, dlq, deadLetters, lost, failing, dropped>>
  BY Known DEF Create, At, Delivering, letters
<1>1. StoredOK'
  BY <1>0, Inserting DEF Create
<1> QED BY <1>0, <1>1, DeliveredKeeps DEF IInv, LettersOK, SetsOK, HandlersOK

LEMMA AttemptFailsKeeps == ASSUME IInv, NEW x \in Runners, AttemptFails(x) PROVE IInv'
<1>0. /\ run[x].pc \in Delivering /\ run[x].ev \in Events /\ Threw(x, FALSE)
      /\ UNCHANGED <<users, read, created, published, mode, dlq, deadLetters, lost, dropped>>
  BY Known DEF AttemptFails, Delivering, letters
<1>1. StoredOK'
  BY <1>0, Inserting DEF AttemptFails
<1>2. RunsOK' /\ JobsOK' /\ HandlersOK' /\ UNCHANGED answered
  BY <1>0, ThrewKeeps
<1> QED BY <1>0, <1>1, <1>2 DEF IInv, LettersOK, SetsOK

-----------------------------------------------------------------------------
(* Dead letters and the process.                                           *)

\* The buffer keeps its bound, and only published events are in it.
LEMMA Recording ==
    ASSUME IInv, NEW e \in published, RecordDeadLetter(e), UNCHANGED <<created, published>>
    PROVE  LettersOK'
<1>0. /\ Len(deadLetters) \in Nat /\ DEAD_LETTER_CAPACITY \in Nat \ {0}
      /\ deadLetters \in Seq(published) /\ published \subseteq created /\ created \subseteq Events
  BY LimitAssumption DEF IInv, LettersOK, SetsOK
<1>1. CASE dlq' = dlq \cup {e} /\ UNCHANGED <<deadLetters, lost>>
  BY <1>0, <1>1 DEF IInv, LettersOK
<1>2. ASSUME UNCHANGED dlq, lost' \subseteq created, NEW s \in Seq(published),
             Len(s) < DEAD_LETTER_CAPACITY, deadLetters' = Append(s, e)
      PROVE  LettersOK'
  BY <1>0, <1>2 DEF IInv, LettersOK
<1>3. CASE UNCHANGED <<dlq, lost>> /\ Len(deadLetters) < DEAD_LETTER_CAPACITY
           /\ deadLetters' = Append(deadLetters, e)
  BY <1>0, <1>2, <1>3 DEF IInv, LettersOK
<1>4. CASE UNCHANGED dlq /\ Len(deadLetters) >= DEAD_LETTER_CAPACITY
           /\ deadLetters' = Append(Tail(deadLetters), e) /\ lost' = lost \cup {Head(deadLetters)}
  <2>1. /\ Tail(deadLetters) \in Seq(published) /\ Len(Tail(deadLetters)) < DEAD_LETTER_CAPACITY
        /\ Head(deadLetters) \in published
    BY <1>0, <1>4 DEF IInv, LettersOK
  <2>2. lost' \subseteq created
    BY <1>0, <1>4, <2>1 DEF IInv, LettersOK
  <2> QED BY <1>2, <1>4, <2>1, <2>2
<1> QED BY <1>0, <1>1, <1>3, <1>4 DEF RecordDeadLetter

LEMMA InlineLetterKeeps == ASSUME IInv, NEW r \in Reqs, InlineLetter(r) PROVE IInv'
<1>0. /\ r \in Runners /\ r \notin Workers /\ run[r].pc = "letter" /\ run[r].ev \in Events
      /\ run[r].ev \in published
  BY RunnerAssumption, Known DEF Runners, InlineLetter, At, RunOK
<1>1. /\ UNCHANGED <<users, read, created, published, mode, jobs, failing, stored, dropped>>
      /\ Stop(r) /\ RecordDeadLetter(run[r].ev) /\ answered' = answered \cup {run[r].ev}
  BY DEF InlineLetter
<1>2. RunsOK'
  BY <1>0, <1>1, JobsSame, Stops
<1>3. answered' \subseteq created
  BY <1>0, <1>1, Known DEF RunOK, IInv, SetsOK
<1>4. LettersOK'
  BY <1>0, <1>1, Recording
<1> QED BY <1>1, <1>2, <1>3, <1>4, JobsSame DEF IInv, SetsOK, StoredOK, HandlersOK

\* Nothing of the runners changes, and the jobs they hold stay active.
LEMMA RunsSame ==
    ASSUME IInv, UNCHANGED <<run, created, published>>,
           \A y \in Workers : run[y].lock => jobs'[run[y].ev].state = "active"
    PROVE  RunsOK'
<1>1. \A x \in Runners : RunOK(x, run[x])'
  BY Known DEF RunOK
<1> QED BY <1>1 DEF RunsOK, Exclusive, IInv

LEMMA HandleFailedKeeps == ASSUME IInv, NEW h \in failing, HandleFailed(h) PROVE IInv'
<1>0. h \in Handler /\ h.ev \in published /\ h.ev \in Events
  BY DEF IInv, HandlersOK, Handler
<1>1. UNCHANGED <<users, read, created, published, answered, mode, run, stored, dropped>>
  BY DEF HandleFailed, requests
<1>2. CASE /\ h.step = "letter" /\ RecordDeadLetter(h.ev) /\ UNCHANGED jobs
           /\ failing' = (failing \ {h}) \cup
                (IF h.terminal THEN {[h EXCEPT !.step = "remove"]} ELSE {})
  <2>1. PICK g : g = [h EXCEPT !.step = "remove"]
    OBVIOUS
  <2>2. g \in Handler /\ g.ev = h.ev
    BY <1>0, <2>1 DEF Handler
  <2>3. HandlersOK'
    BY <1>0, <1>1, <1>2, <2>1, <2>2 DEF IInv, HandlersOK
  <2>4. RunsOK' /\ JobsOK'
    BY <1>1, <1>2, JobsSame, RunsSame
  <2>5. LettersOK'
    BY <1>0, <1>1, <1>2, Recording
  <2> QED BY <1>1, <2>3, <2>4, <2>5 DEF IInv, SetsOK, StoredOK
<1>3. CASE /\ jobs' = IF jobs[h.ev].state = "active" THEN jobs ELSE [jobs EXCEPT ![h.ev] = NoJob]
           /\ failing' = failing \ {h} /\ UNCHANGED letters
  <2>1. RunsOK' /\ JobsOK'
    <3>1. CASE UNCHANGED jobs
      BY <1>1, <3>1, JobsSame, RunsSame
    <3>2. CASE jobs[h.ev].state # "active" /\ jobs' = [jobs EXCEPT ![h.ev] = NoJob]
      <4>1. \A y \in Workers : run[y].lock => run[y].ev # h.ev
        BY <3>2, Owned
      <4>2. PICK ev \in Events : ev = h.ev
        BY <1>0
      <4>3. JobsOK' /\ \A y \in Workers : run[y].lock => jobs'[run[y].ev].state = "active"
        <5>1. JobsOK'
          BY <1>1, <3>2, <4>1, <4>2, NoJobFields, JobReplaced
        <5>2. ASSUME NEW y \in Workers, run[y].lock PROVE jobs'[run[y].ev].state = "active"
          BY <3>2, <4>1, <5>2, Owned DEF IInv, JobsOK
        <5> QED BY <5>1, <5>2
      <4> QED BY <1>1, <4>3, RunsSame
    <3> QED BY <1>3, <3>1, <3>2
  <2> QED BY <1>1, <1>3, <2>1 DEF IInv, LettersOK, SetsOK, StoredOK, HandlersOK, letters
<1> QED BY <1>2, <1>3 DEF HandleFailed

LEMMA CrashKeeps == ASSUME IInv, Crash PROVE IInv'
<1>1. /\ UNCHANGED <<users, read, created, published, answered, dlq, stored, dropped>>
      /\ run' = [x \in Runners |-> Idle] /\ failing' = {} /\ deadLetters' = << >> /\ mode' = "boot"
      /\ lost' \subseteq lost \cup {e \in Events : InMemory(e)}
  BY DEF Crash, requests
<1>2. RunsOK'
  BY <1>1, IdleFields DEF RunsOK, RunOK, Exclusive, Delivering, Runners
<1>3. JobsOK'
  <2>1. ASSUME NEW e \in Events
        PROVE  /\ jobs'[e] \in Job /\ jobs'[e].tries = jobs[e].tries
               /\ jobs'[e].state = IF jobs[e].state = "active" THEN "waiting" ELSE jobs[e].state
    BY DEF Crash, IInv, JobsOK, Job
  <2>2. jobs' = [e \in Events |-> jobs'[e]]
    BY DEF Crash
  <2>3. jobs' \in [Events -> Job]
    BY <2>1, <2>2
  <2> QED BY <1>1, <2>1, <2>3 DEF JobsOK, IInv
<1>4. ASSUME NEW e \in Events, InMemory(e) PROVE e \in created
  <2>1. ASSUME NEW r \in Reqs, run[r].ev = e, run[r].pc \notin {"lookup", "insert"}
        PROVE  e \in created
    BY <2>1, Known, EventAssumption DEF RunOK, Run, Delivering, Runners
  <2>2. ASSUME NEW h \in failing, h.ev = e PROVE e \in created
    BY <2>2 DEF IInv, HandlersOK, SetsOK
  <2>3. CASE e \in Range(deadLetters)
    BY <2>3 DEF IInv, LettersOK, SetsOK, Range
  <2> QED BY <1>4, <2>1, <2>2, <2>3 DEF InMemory
<1>5. LettersOK'
  BY <1>1, <1>4, LimitAssumption DEF IInv, LettersOK
<1> QED BY <1>1, <1>2, <1>3, <1>5 DEF IInv, SetsOK, StoredOK, HandlersOK

LEMMA StallKeeps == ASSUME IInv, NEW w \in Workers, Stall(w) PROVE IInv'
<1>0. w \in Runners /\ run[w].lock /\ run[w].ev \in Events
  BY Owned DEF Stall, Runners
<1>1. /\ UNCHANGED <<users, read, created, published, answered, mode, dlq, deadLetters, failing,
                     stored, dropped>>
      /\ lost' \subseteq lost \cup {run[w].ev}
  BY DEF Stall, requests
<1>2. PICK state \in {"waiting", "failed"} : jobs' = [jobs EXCEPT ![run[w].ev].state = state]
  BY DEF Stall
<1>3. PICK b \in BOOLEAN : b = FALSE
  OBVIOUS
<1>4. PICK q : q = [run[w] EXCEPT !.lock = b]
  OBVIOUS
<1>5. q \in Run /\ q.pc = run[w].pc /\ q.ev = run[w].ev /\ ~q.lock
  BY <1>0, <1>3, <1>4, Known DEF Run
<1>6. run' = [run EXCEPT ![w] = q]
  <2>1. run' = [run EXCEPT ![w].lock = b]
    BY <1>3, Zenon DEF Stall
  <2> QED BY <1>0, <1>4, <2>1 DEF IInv, RunsOK
<1>7. PICK ev \in Events : ev = run[w].ev
  BY <1>0
<1>8. PICK job : job = [jobs[ev] EXCEPT !.state = state]
  OBVIOUS
<1>9. /\ job \in Job /\ job.tries < MAX_ATTEMPTS /\ ev \in published
      /\ jobs' = [jobs EXCEPT ![ev] = job]
  BY <1>0, <1>2, <1>7, <1>8, Owned DEF IInv, JobsOK, Job
<1>10. \A y \in Workers \ {w} : run[y].lock => run[y].ev # ev
  BY <1>0, <1>7, Owned
<1>11. JobsOK' /\ \A y \in Workers \ {w} : run[y].lock => jobs'[run[y].ev].state = "active"
  BY ZenonT(60), <1>1, <1>9, <1>10, JobReplaced
<1>12. RunOK(w, q)'
  BY <1>0, <1>1, <1>5, Known DEF RunOK, Delivering
<1>13. \A y \in Runners \ {w} : run[y].pc = "publish" => run[y].ev \notin published'
  BY <1>1, Known DEF RunOK
<1>14. RunsOK'
  BY <1>0, <1>1, <1>5, <1>6, <1>11, <1>12, <1>13, OneRun, Known, RunnerAssumption DEF RunOK
<1> QED BY <1>1, <1>7, <1>9, <1>11, <1>14 DEF IInv, LettersOK, SetsOK, StoredOK, HandlersOK

\* Starting the worker, losing its queue, erasing an account, reading.
LEMMA QuietKeeps ==
    ASSUME IInv, \/ StartNotificationWorker \/ WorkerError
                 \/ \E u \in Users : EraseUser(u)
                 \/ \E e \in Events : MarkRead(e)
    PROVE  IInv'
<1>1. UNCHANGED <<created, published, answered, jobs, dlq, deadLetters, lost, failing, run, stored, dropped>>
  BY DEF StartNotificationWorker, WorkerError, EraseUser, MarkRead, requests, letters
<1>2. users' \subseteq users /\ mode' \in {"boot", "queue", "worker"}
  BY DEF StartNotificationWorker, WorkerError, EraseUser, MarkRead, requests, letters, IInv, SetsOK
<1>3. read' \subseteq {e \in Events : stored[e] > 0}
  BY DEF StartNotificationWorker, WorkerError, EraseUser, MarkRead, requests, letters, IInv, StoredOK
<1> QED BY <1>1, <1>2, <1>3, JobsSame, RunsSame DEF IInv, LettersOK, SetsOK, StoredOK, HandlersOK

-----------------------------------------------------------------------------
(* The first theorems.                                                     *)

LEMMA InitInv == Init => IInv
<1> SUFFICES ASSUME Init PROVE IInv
  OBVIOUS
<1>1. RunsOK
  BY IdleFields DEF Init, RunsOK, RunOK, Exclusive, Delivering, Runners
<1>2. JobsOK
  BY NoJobFields DEF Init, JobsOK
<1>3. LettersOK /\ SetsOK /\ StoredOK /\ HandlersOK
  BY LimitAssumption DEF Init, LettersOK, SetsOK, StoredOK, HandlersOK
<1> QED BY <1>1, <1>2, <1>3 DEF IInv

LEMMA NextInv == IInv /\ [Next]_vars => IInv'
<1> SUFFICES ASSUME IInv, [Next]_vars PROVE IInv'
  OBVIOUS
<1>1. CASE UNCHANGED vars
  BY <1>1, JobsSame, RunsSame
  DEF vars, IInv, LettersOK, SetsOK, StoredOK, HandlersOK
<1>2. ASSUME NEW r \in Reqs, NEW e \in Events, Submit(r, e) PROVE IInv'
  BY <1>2, SubmitKeeps
<1>3. ASSUME NEW r \in Reqs, Continue(r) PROVE IInv'
  BY <1>3, LookupKeeps, InsertKeeps, SubmitFailsKeeps, PublishKeeps, InlineLetterKeeps
  DEF Continue
<1>4. ASSUME NEW w \in Workers, Take(w) \/ Stall(w) PROVE IInv'
  BY <1>4, TakeKeeps, StallKeeps
<1>5. ASSUME NEW x \in Runners, Deliver(x) PROVE IInv'
  BY <1>5, ReadUsersKeeps, FindExistingKeeps, CreateKeeps, AttemptFailsKeeps DEF Deliver
<1>6. ASSUME NEW h \in failing, HandleFailed(h) PROVE IInv'
  BY <1>6, HandleFailedKeeps
<1>7. CASE Crash
  BY <1>7, CrashKeeps
<1>8. CASE \/ StartNotificationWorker \/ WorkerError
           \/ \E u \in Users : EraseUser(u)
           \/ \E e \in Events : MarkRead(e)
  BY <1>8, QuietKeeps
<1> QED BY <1>1, <1>2, <1>3, <1>4, <1>5, <1>6, <1>7, <1>8 DEF Next

LEMMA Invariance == Spec => []IInv
  BY InitInv, NextInv, PTL DEF Spec

\* Whatever fails, the state of the notifications is well formed.
THEOREM NotificationsTyped == Spec => []TypeOK
<1>1. IInv => TypeOK
  <2> SUFFICES ASSUME IInv PROVE TypeOK
    OBVIOUS
  <2>1. deadLetters \in Seq(Events)
    BY SeqGrows DEF IInv, LettersOK, SetsOK
  <2> QED BY <2>1 DEF IInv, TypeOK, RunsOK, JobsOK, LettersOK, SetsOK, StoredOK, HandlersOK
<1> QED BY <1>1, Invariance, PTL

\* Whatever fails, an event leads to one notification at most: the unique
\* index on dedupeKey makes at-least-once delivery idempotent.
THEOREM NotifiedOnce == Spec => []AtMostOneNotification
<1>1. IInv => AtMostOneNotification
  BY DEF IInv, StoredOK, AtMostOneNotification
<1> QED BY <1>1, Invariance, PTL

-----------------------------------------------------------------------------
(* What was answered is published, about to be, or lost with its insert.    *)

\* Every stored event is published, lost, or at its first request's hands,
\* which are the only ones that hold it.
Accounted ==
    \A e \in created : \/ e \in published \cup lost
                       \/ \E r \in Reqs : run[r].pc = "publish" /\ run[r].ev = e
Unspent == \A r \in Reqs : run[r].pc = "publish" => run[r].ev \notin published \cup lost

\* A step of x leaves the others where they are.
LEMMA OthersStay ==
    ASSUME IInv, NEW x \in Runners,
           \/ Delivered(x) \/ Threw(x, TRUE) \/ Threw(x, FALSE)
           \/ \E pc \in {"insert", "publish", "find", "create"} : Goto(x, pc)
           \/ Stop(x)
    PROVE  \A y \in Runners \ {x} : run'[y] = run[y]
  BY DEF IInv, RunsOK, Delivered, Threw, Goto, Stop

LEMMA PublishersStay ==
    ASSUME IInv, [Next]_vars, NEW r \in Reqs, run[r].pc = "publish"
    PROVE  run'[r] = run[r] \/ Publish(r) \/ Crash
<1>0. r \in Runners /\ r \notin Workers
  BY RunnerAssumption DEF Runners
<1>1. CASE UNCHANGED run
  BY <1>1
<1>2. ASSUME NEW q \in Reqs, Lookup(q) \/ Insert(q) \/ SubmitFails(q) \/ InlineLetter(q)
      PROVE  run'[r] = run[r]
  <2>1. q # r /\ q \in Runners /\ (Stop(q) \/ Goto(q, "insert") \/ Goto(q, "publish"))
    BY <1>2 DEF Lookup, Insert, SubmitFails, InlineLetter, At, Runners
  <2> QED BY <1>0, <2>1, OthersStay
<1>3. ASSUME NEW q \in Reqs, Publish(q) PROVE run'[r] = run[r] \/ Publish(r)
  <2>1. run' = [run EXCEPT ![q] = Idle]
        \/ run' = [run EXCEPT ![q].pc = "users", ![q].attempt = 1]
    BY <1>3 DEF Publish, Stop
  <2> QED BY <1>0, <1>3, <2>1 DEF IInv, RunsOK
<1>4. ASSUME NEW q \in Reqs, NEW e \in Events, Submit(q, e) PROVE run'[r] = run[r]
  <2>1. q # r
    BY <1>4 DEF Submit, At
  <2> QED BY <1>0, <1>4, <2>1 DEF Submit, IInv, RunsOK
<1>5. ASSUME NEW w \in Workers, Take(w) \/ Stall(w) PROVE run'[r] = run[r]
  BY <1>0, <1>5 DEF Take, Stall, IInv, RunsOK
<1>6. ASSUME NEW x \in Runners, Deliver(x) PROVE run'[r] = run[r]
  <2>1. x # r
    BY <1>6 DEF Deliver, ReadUsers, FindExisting, Create, AttemptFails, At
  <2>2. Delivered(x) \/ Threw(x, TRUE) \/ Threw(x, FALSE) \/ Goto(x, "find") \/ Goto(x, "create")
    BY <1>6 DEF Deliver, ReadUsers, FindExisting, Create, AttemptFails
  <2> QED BY <1>0, <2>1, <2>2, OthersStay
<1>7. ASSUME NEW h \in failing, HandleFailed(h) PROVE UNCHANGED run
  BY <1>7 DEF HandleFailed
<1>8. CASE \/ StartNotificationWorker \/ WorkerError
           \/ \E u \in Users : EraseUser(u)
           \/ \E e \in Events : MarkRead(e)
  BY <1>8 DEF StartNotificationWorker, WorkerError, EraseUser, MarkRead
<1> QED BY <1>1, <1>2, <1>3, <1>4, <1>5, <1>6, <1>7, <1>8 DEF Next, vars, Continue

\* A document is added by the insert that leads to publishing it, or by one
\* that was rejected.
LEMMA CreatedBy ==
    ASSUME IInv, [Next]_vars
    PROVE  /\ published \subseteq published' /\ lost \subseteq lost'
           /\ \/ created' = created
              \/ \E r \in Reqs : /\ created' = created \cup {run[r].ev}
                                 /\ \/ Insert(r) /\ Goto(r, "publish") /\ run[r].ev \notin created
                                    \/ run[r].ev \in lost'
  BY DEF Next, vars, Continue, Submit, Lookup, Insert, SubmitFails, Publish, InlineLetter, Take,
         Stall, Deliver, ReadUsers, FindExisting, Create, AttemptFails, RecordDeadLetter,
         HandleFailed, StartNotificationWorker, WorkerError, Crash, EraseUser, MarkRead, requests,
         letters

\* A crash leaves nobody at an event that was to be published, and counts it.
LEMMA CrashLoses ==
    ASSUME IInv, Crash
    PROVE  /\ \A r \in Reqs : run[r].pc = "publish" => run[r].ev \in published \cup lost'
           /\ \A r \in Reqs : run'[r].pc = "idle"
<1>1. ASSUME NEW r \in Reqs, run[r].pc = "publish" PROVE run[r].ev \in lost'
  <2>1. run[r].ev \in Events /\ run[r].ev \notin published
    BY <1>1, Known DEF RunOK, Runners
  <2>2. jobs[run[r].ev].state = "none"
    BY <2>1 DEF IInv, JobsOK, Job
  <2>3. jobs'[run[r].ev] = jobs[run[r].ev]
    BY <2>1, <2>2 DEF Crash
  <2>4. InMemory(run[r].ev)
    BY <1>1 DEF InMemory
  <2>5. jobs'[run[r].ev].state # "waiting"
    BY <2>2, <2>3
  <2> QED BY <2>1, <2>4, <2>5 DEF Crash
<1> QED BY <1>1, IdleFields DEF Crash, Runners

LEMMA AccountedKeeps == ASSUME IInv, Accounted, [Next]_vars PROVE Accounted'
<1>1. ASSUME NEW e \in created
      PROVE  \/ e \in published' \cup lost'
             \/ \E r \in Reqs : run'[r].pc = "publish" /\ run'[r].ev = e
  <2>1. CASE e \in published \cup lost
    BY <2>1, CreatedBy
  <2>2. ASSUME NEW r \in Reqs, run[r].pc = "publish", run[r].ev = e
        PROVE  e \in published' \cup lost' \/ (run'[r].pc = "publish" /\ run'[r].ev = e)
    <3>1. CASE run'[r] = run[r]
      BY <2>2, <3>1
    <3>2. CASE Publish(r)
      BY <2>2, <3>2 DEF Publish
    <3>3. CASE Crash
      BY <2>2, <3>3, CrashLoses, CreatedBy
    <3> QED BY <2>2, <3>1, <3>2, <3>3, PublishersStay
  <2> QED BY <2>1, <2>2 DEF Accounted
<1>2. ASSUME NEW r \in Reqs, Insert(r), Goto(r, "publish")
      PROVE  run'[r].pc = "publish" /\ run'[r].ev = run[r].ev
  <2>1. r \in Runners
    BY DEF Runners
  <2>2. PICK q \in Run : run' = [run EXCEPT ![r] = q] /\ q.pc = "publish" /\ q.ev = run[r].ev
    BY <1>2, <2>1, Goes
  <2> QED BY <2>1, <2>2 DEF IInv, RunsOK
<1> QED BY <1>1, <1>2, CreatedBy DEF Accounted

\* What a step adds to the lost is published, or in nobody's hands after it.
LEMMA LostBy ==
    ASSUME IInv, [Next]_vars, ~Crash, NEW e \in lost', e \notin lost
    PROVE  \/ e \in published'
           \/ e \notin created
<1>0. created \subseteq Events /\ deadLetters \in Seq(published)
  BY DEF IInv, SetsOK, LettersOK
<1>1. ASSUME NEW r \in Reqs, SubmitFails(r) PROVE e \notin created
  BY <1>1 DEF SubmitFails
<1>2. ASSUME NEW r \in Reqs, Publish(r) PROVE e \in published'
  BY <1>2 DEF Publish
<1>3. ASSUME NEW d, RecordDeadLetter(d), UNCHANGED published PROVE e \in published'
  <2>1. Len(deadLetters) >= DEAD_LETTER_CAPACITY /\ e = Head(deadLetters)
    BY <1>0, <1>3, LimitAssumption DEF RecordDeadLetter
  <2> QED BY <1>0, <1>3, <2>1, LimitAssumption
<1>4. ASSUME NEW w \in Workers, Stall(w) PROVE e \in published'
  BY <1>4, Owned DEF Stall, requests
<1>5. ASSUME NEW r \in Reqs, InlineLetter(r) PROVE e \in published'
  BY <1>3, <1>5 DEF InlineLetter
<1>6. ASSUME NEW h \in failing, HandleFailed(h) PROVE e \in published'
  BY <1>3, <1>6 DEF HandleFailed, letters, requests
<1>7. CASE UNCHANGED lost
  BY <1>7
<1> QED BY <1>1, <1>2, <1>4, <1>5, <1>6, <1>7
  DEF Next, vars, Continue, Submit, Lookup, Insert, Take, Deliver, ReadUsers, FindExisting, Create,
      AttemptFails, StartNotificationWorker, WorkerError, EraseUser, MarkRead, letters

\* Who comes to publish inserted the document in that very step.
LEMMA PublisherFrom ==
    ASSUME IInv, [Next]_vars, NEW r \in Reqs, run'[r].pc = "publish"
    PROVE  \/ run[r].pc = "publish" /\ run'[r] = run[r]
           \/ Insert(r) /\ run[r].ev \notin created /\ run'[r].ev = run[r].ev
<1>0. r \in Runners /\ r \notin Workers
  BY RunnerAssumption DEF Runners
<1>1. CASE run'[r] = run[r]
  BY <1>1
<1>2. CASE Insert(r)
  <2>1. CASE run[r].ev \in created
    BY <1>0, <1>2, <2>1, IdleFields DEF Insert, Stop, IInv, RunsOK
  <2>2. CASE run[r].ev \notin created
    <3>1. PICK q \in Run : run' = [run EXCEPT ![r] = q] /\ q.pc = "publish" /\ q.ev = run[r].ev
      BY <1>0, <1>2, <2>2, Goes DEF Insert
    <3> QED BY <1>0, <1>2, <2>2, <3>1 DEF IInv, RunsOK
  <2> QED BY <2>1, <2>2
<1>3. ASSUME Stop(r) PROVE FALSE
  BY <1>0, <1>3, IdleFields DEF Stop, IInv, RunsOK
<1>4. ASSUME NEW q \in Reqs, NEW e \in Events, Submit(q, e) PROVE run'[r] = run[r]
  <2>1. PICK pc \in {"lookup", "insert"} : pc = IF e \in Keyed THEN "lookup" ELSE "insert"
    OBVIOUS
  <2>2. PICK p : p = [Idle EXCEPT !.ev = e, !.pc = pc]
    OBVIOUS
  <2>3. p.pc = pc
    BY <2>2, IdleFields DEF Run
  <2>4. run' = [run EXCEPT ![q] = p]
    BY <1>4, <2>1, <2>2 DEF Submit
  <2> QED BY <1>0, <2>3, <2>4 DEF IInv, RunsOK
<1>5. ASSUME NEW q \in Reqs, Lookup(q) \/ Insert(q) \/ SubmitFails(q) \/ InlineLetter(q), q # r
      PROVE  run'[r] = run[r]
  <2>1. q \in Runners /\ (Stop(q) \/ Goto(q, "insert") \/ Goto(q, "publish"))
    BY <1>5 DEF Lookup, Insert, SubmitFails, InlineLetter, Runners
  <2> QED BY <1>0, <1>5, <2>1, OthersStay
<1>6. ~(Lookup(r) \/ SubmitFails(r) \/ InlineLetter(r))
  <2>1. ASSUME Goto(r, "insert") PROVE FALSE
    BY <1>0, <2>1, Goes DEF IInv, RunsOK
  <2> QED BY <1>3, <2>1 DEF Lookup, SubmitFails, InlineLetter
<1>7. ASSUME NEW q \in Reqs, Publish(q) PROVE run'[r] = run[r]
  <2>1. run' = [run EXCEPT ![q] = Idle]
        \/ run' = [run EXCEPT ![q].pc = "users", ![q].attempt = 1]
    BY <1>7 DEF Publish, Stop
  <2> QED BY <1>0, <2>1, IdleFields, Known DEF IInv, RunsOK, Run
<1>8. ASSUME NEW w \in Workers, Take(w) \/ Stall(w) PROVE run'[r] = run[r]
  BY <1>0, <1>8 DEF Take, Stall, IInv, RunsOK
<1>9. ASSUME NEW x \in Runners, Deliver(x) PROVE run'[r] = run[r]
  <2>1. Delivered(x) \/ Threw(x, TRUE) \/ Threw(x, FALSE) \/ Goto(x, "find") \/ Goto(x, "create")
    BY <1>9 DEF Deliver, ReadUsers, FindExisting, Create, AttemptFails
  <2>2. CASE x # r
    BY <1>0, <2>1, <2>2, OthersStay
  <2>3. CASE x = r
    <3>1. ASSUME NEW pc \in {"find", "create"}, Goto(r, pc) PROVE FALSE
      BY <1>0, <3>1, Goes DEF IInv, RunsOK
    <3>2. ASSUME NEW terminal \in BOOLEAN, Threw(r, terminal) PROVE FALSE
      BY <1>0, <3>2, Known DEF Threw, Run, IInv, RunsOK
    <3> QED BY <1>3, <2>1, <2>3, <3>1, <3>2 DEF Delivered
  <2> QED BY <2>2, <2>3
<1>10. ASSUME NEW h \in failing, HandleFailed(h) PROVE UNCHANGED run
  BY <1>10 DEF HandleFailed
<1>11. ~Crash
  BY <1>0, IdleFields DEF Crash
<1>12. CASE \/ StartNotificationWorker \/ WorkerError
            \/ \E u \in Users : EraseUser(u)
            \/ \E e \in Events : MarkRead(e)
  BY <1>12 DEF StartNotificationWorker, WorkerError, EraseUser, MarkRead
<1> QED BY <1>1, <1>2, <1>4, <1>5, <1>6, <1>7, <1>8, <1>9, <1>10, <1>11, <1>12
  DEF Next, vars, Continue

LEMMA UnspentKeeps == ASSUME IInv, Unspent, [Next]_vars PROVE Unspent'
<1> SUFFICES ASSUME NEW r \in Reqs, run'[r].pc = "publish"
             PROVE  run'[r].ev \notin published' \cup lost'
  BY DEF Unspent
<1>0. /\ IInv' /\ r \in Runners
      /\ run'[r].ev \notin published'
  <2>1. IInv' /\ r \in Runners
    BY NextInv DEF Runners
  <2>2. RunOK(r, run[r])'
    BY <2>1 DEF IInv, RunsOK
  <2> QED BY <2>1, <2>2 DEF RunOK
<1>1. ~Crash
  BY CrashLoses
<1>2. CASE run[r].pc = "publish" /\ run'[r] = run[r]
  <2>1. run[r].ev \in created /\ run[r].ev \notin lost
    BY <1>0, <1>2, Known, RunnerAssumption DEF Unspent, RunOK
  <2> QED BY <1>0, <1>1, <1>2, <2>1, LostBy
<1>3. CASE Insert(r) /\ run[r].ev \notin created /\ run'[r].ev = run[r].ev
  BY <1>0, <1>3 DEF Insert, letters, IInv, LettersOK
<1> QED BY <1>2, <1>3, PublisherFrom

\* Whatever fails, a request answered with success stands for an event that is
\* published, about to be, or lost with the insert or the process of the one
\* request that was to publish it: a replay answered on the strength of the
\* stored comment hides no other, and no event is published by two requests.
THEOREM AnsweredPublished == Spec => []AnsweredIsPublished
<1>1. Init => Accounted /\ Unspent
  BY IdleFields DEF Init, Accounted, Unspent, Runners
<1>2. IInv /\ Accounted /\ Unspent /\ [Next]_vars => Accounted' /\ Unspent'
  BY AccountedKeeps, UnspentKeeps
<1>3. IInv /\ Accounted /\ Unspent => AnsweredIsPublished
  BY DEF IInv, SetsOK, Accounted, Unspent, AnsweredIsPublished, At
<1> QED BY <1>1, <1>2, <1>3, Invariance, PTL DEF Spec

-----------------------------------------------------------------------------
(* A published event is kept until it is settled, or a fault takes it.     *)

\* Where an unsettled event is.  A worker without its lock keeps nothing: the
\* job it works on is back in the queue, or lost.
Kept(e) == Settled(e) \/ e \in lost
Queued(e) == jobs[e].state \in {"waiting", "active"}
Inline(e) == \E r \in Reqs : run[r].ev = e /\ run[r].pc \in {"letter"} \cup Delivering
Failing(e) == \E h \in failing : h.ev = e /\ h.step = "letter"
Tracked == \A e \in published : Kept(e) \/ Queued(e) \/ Inline(e) \/ Failing(e)

\* A job is removed only when its letter is written.
Removing == \A h \in failing : h.step = "remove" => Kept(h.ev)

LInv == Tracked /\ Removing

\* What settles an event is never taken back, but by a fault that counts it.
Grows == /\ \A e \in Events : stored[e] > 0 => stored'[e] > 0
         /\ dropped \subseteq dropped' /\ dlq \subseteq dlq' /\ lost \subseteq lost'
         /\ Range(deadLetters) \subseteq Range(deadLetters') \cup lost'

LEMMA KeptStays == ASSUME IInv, Grows, NEW e \in Events, Kept(e) PROVE Kept(e)'
  BY DEF Grows, Settled, Kept

\* The letter is in, and the one that made room for it is counted as lost.
LEMMA LetterSettles ==
    ASSUME IInv, NEW e \in published, RecordDeadLetter(e)
    PROVE  /\ e \in dlq' \/ e \in Range(deadLetters')
           /\ dlq \subseteq dlq' /\ lost \subseteq lost'
           /\ Range(deadLetters) \subseteq Range(deadLetters') \cup lost'
<1>0. deadLetters \in Seq(published) /\ DEAD_LETTER_CAPACITY \in Nat \ {0}
  BY LimitAssumption DEF IInv, LettersOK
<1>1. CASE dlq' = dlq \cup {e} /\ UNCHANGED <<deadLetters, lost>>
  BY <1>1
<1>2. ASSUME NEW s \in Seq(published), deadLetters' = Append(s, e)
      PROVE  e \in Range(deadLetters') /\ Range(s) \subseteq Range(deadLetters')
  <2>1. /\ DOMAIN deadLetters' = 1..(Len(s) + 1) /\ deadLetters'[Len(s) + 1] = e
        /\ \A i \in 1..Len(s) : deadLetters'[i] = s[i]
    BY <1>2
  <2>2. Len(s) \in Nat /\ DOMAIN s = 1..Len(s)
    OBVIOUS
  <2> QED BY <2>1, <2>2 DEF Range
<1>3. CASE UNCHANGED <<dlq, lost>> /\ deadLetters' = Append(deadLetters, e)
  BY <1>0, <1>2, <1>3
<1>4. CASE /\ Len(deadLetters) >= DEAD_LETTER_CAPACITY /\ UNCHANGED dlq
           /\ deadLetters' = Append(Tail(deadLetters), e) /\ lost' = lost \cup {Head(deadLetters)}
  <2>0. Tail(deadLetters) \in Seq(published)
    BY <1>0, <1>4
  <2>1. PICK t : t = Tail(deadLetters) /\ t \in Seq(published)
    BY <2>0
  <2>2. /\ Len(deadLetters) \in Nat \ {0} /\ DOMAIN deadLetters = 1..Len(deadLetters)
        /\ Len(t) = Len(deadLetters) - 1 /\ DOMAIN t = 1..Len(t)
        /\ \A i \in 1..Len(t) : t[i] = deadLetters[i + 1]
        /\ Head(deadLetters) = deadLetters[1]
    BY <1>0, <1>4, <2>1
  <2>3. \A i \in 1..Len(deadLetters) : i = 1 \/ (i - 1 \in 1..Len(t) /\ deadLetters[i] = t[i - 1])
    BY <2>2
  <2>4. \A d \in Range(deadLetters) : d \in Range(t) \/ d = Head(deadLetters)
    <3> SUFFICES ASSUME NEW i \in 1..Len(deadLetters)
                 PROVE  deadLetters[i] \in Range(t) \/ deadLetters[i] = Head(deadLetters)
      BY <2>2 DEF Range
    <3>1. CASE i = 1
      BY <2>2, <3>1
    <3>2. CASE i # 1
      <4>1. i - 1 \in DOMAIN t /\ deadLetters[i] = t[i - 1]
        BY <2>2, <2>3, <3>2
      <4> QED BY <4>1 DEF Range
    <3> QED BY <3>1, <3>2
  <2>5. e \in Range(deadLetters') /\ Range(t) \subseteq Range(deadLetters')
    BY <1>2, <1>4, <2>1
  <2> QED BY <1>4, <2>4, <2>5
<1> QED BY <1>0, <1>1, <1>3, <1>4 DEF RecordDeadLetter

\* Nothing that settles an event is touched.
LEMMA GrowsSame ==
    ASSUME UNCHANGED <<stored, dropped, dlq, deadLetters, lost>> PROVE Grows
  BY DEF Grows

\* An attempt of x ends with its event settled.
LEMMA DeliveredTracks ==
    ASSUME IInv, LInv, Grows, NEW x \in Runners, run[x].pc \in Delivering, Delivered(x),
           NEW ev \in Events, run[x].ev = ev, Kept(ev)', UNCHANGED <<published, failing>>
    PROVE  LInv'
<1>0. \A y \in Runners \ {x} : run'[y] = run[y]
  BY Known, OthersStay DEF Delivering
<1>1. \A e \in Events \ {ev} : jobs'[e] = jobs[e]
  BY DEF Delivered, IInv, JobsOK
<1>2. ASSUME NEW e \in published, e # ev
      PROVE  (Kept(e) \/ Queued(e) \/ Inline(e) \/ Failing(e))'
  <2>0. e \in Events
    BY DEF IInv, SetsOK
  <2>1. CASE Kept(e)
    BY <2>0, <2>1, KeptStays
  <2>2. CASE Queued(e)
    BY <1>1, <1>2, <2>0, <2>2 DEF Queued
  <2>3. CASE Inline(e)
    BY <1>0, <1>2, <2>3 DEF Inline, Runners
  <2>4. CASE Failing(e)
    BY <2>4 DEF Failing
  <2> QED BY <2>1, <2>2, <2>3, <2>4 DEF LInv, Tracked
<1>3. Tracked'
  BY <1>2 DEF Tracked
<1>4. Removing'
  BY KeptStays DEF LInv, Removing, IInv, HandlersOK, Handler
<1> QED BY <1>3, <1>4 DEF LInv

LEMMA ThrewTracks ==
    ASSUME IInv, LInv, Grows, NEW x \in Runners, run[x].pc \in Delivering,
           NEW terminal \in BOOLEAN, Threw(x, terminal), UNCHANGED published
    PROVE  LInv'
<1>0. run[x].ev \in Events /\ run[x].ev \in published
  BY Known DEF RunOK, Delivering
<1>1. CASE x \in Workers /\ run[x].lock
  <2>1. run[x].lock
    BY <1>1
  <2>2. PICK h : h = [ev |-> run[x].ev, step |-> "letter", terminal |-> terminal]
    OBVIOUS
  <2>3. PICK job : job = FailedJob(x)
    OBVIOUS
  <2>4. /\ Stop(x) /\ jobs' = [jobs EXCEPT ![run[x].ev] = job]
        /\ failing' = IF Exhausted(job.tries) \/ terminal THEN failing \cup {h} ELSE failing
    BY <1>1, <2>1, <2>2, <2>3 DEF Threw
  <2>5. /\ h.ev = run[x].ev /\ h.step = "letter"
        /\ job.state \in {"waiting", "failed"}
        /\ job.state = "failed" => Exhausted(job.tries)
    BY <1>1, <2>1, <2>2, <2>3, FailedJobFields DEF Exhausted
  <2>6. run'[x] = Idle /\ \A y \in Runners \ {x} : run'[y] = run[y]
    BY <2>4 DEF Stop, IInv, RunsOK
  <2>7. jobs'[run[x].ev] = job /\ \A e \in Events \ {run[x].ev} : jobs'[e] = jobs[e]
    BY <1>0, <2>4 DEF IInv, JobsOK
  <2>8. ASSUME NEW e \in published
        PROVE  (Kept(e) \/ Queued(e) \/ Inline(e) \/ Failing(e))'
    <3>0. e \in Events /\ x \notin Reqs
      BY <1>1, RunnerAssumption DEF IInv, SetsOK
    <3>1. CASE e = run[x].ev
      BY <2>4, <2>5, <2>7, <3>1 DEF Queued, Failing
    <3>2. CASE e # run[x].ev /\ Kept(e)
      BY <3>0, <3>2, KeptStays
    <3>3. CASE e # run[x].ev /\ Queued(e)
      BY <2>7, <3>0, <3>3 DEF Queued
    <3>4. CASE e # run[x].ev /\ Inline(e)
      BY <2>6, <3>0, <3>4 DEF Inline, Runners
    <3>5. CASE e # run[x].ev /\ Failing(e)
      BY <2>4, <3>5 DEF Failing
    <3> QED BY <3>1, <3>2, <3>3, <3>4, <3>5 DEF LInv, Tracked
  <2>9. Removing'
    BY <2>4, <2>5, KeptStays DEF LInv, Removing, IInv, HandlersOK, Handler
  <2> QED BY <2>8, <2>9 DEF LInv, Tracked
<1>2. CASE ~(x \in Workers /\ run[x].lock)
  <2>1. UNCHANGED <<jobs, failing>>
    BY <1>2 DEF Threw
  <2>2. /\ x \notin Workers => run'[x].ev = run[x].ev /\ run'[x].pc \in {"letter", "users"}
        /\ \A y \in Runners \ {x} : run'[y] = run[y]
    BY <1>2, Known DEF Threw, Stop, Run, IInv, RunsOK
  <2>3. ASSUME NEW e \in published
        PROVE  (Kept(e) \/ Queued(e) \/ Inline(e) \/ Failing(e))'
    <3>0. e \in Events
      BY DEF IInv, SetsOK
    <3>1. CASE Kept(e)
      BY <3>0, <3>1, KeptStays
    <3>2. CASE Queued(e)
      BY <2>1, <3>2 DEF Queued
    <3>3. CASE Inline(e)
      BY <2>2, <3>3, RunnerAssumption DEF Inline, Runners, Delivering
    <3>4. CASE Failing(e)
      BY <2>1, <3>4 DEF Failing
    <3> QED BY <3>1, <3>2, <3>3, <3>4 DEF LInv, Tracked
  <2>4. Removing'
    BY <2>1, KeptStays DEF LInv, Removing, IInv, HandlersOK, Handler
  <2> QED BY <2>3, <2>4 DEF LInv, Tracked
<1> QED BY <1>1, <1>2

LEMMA DeliverTracks ==
    ASSUME IInv, LInv, NEW x \in Runners, Deliver(x) PROVE LInv'
<1>0. /\ run[x].pc \in Delivering /\ run[x].ev \in Events
      /\ UNCHANGED <<published, dlq, deadLetters, lost>>
  BY Known DEF Deliver, ReadUsers, FindExisting, Create, AttemptFails, At, Delivering, letters
<1> PICK ev \in Events : run[x].ev = ev
  BY <1>0
<1>1. Grows
  <2>1. \A e \in Events : stored[e] > 0 => stored'[e] > 0
    BY <1>0, Inserting DEF Deliver, ReadUsers, FindExisting, Create, AttemptFails
  <2>2. dropped \subseteq dropped'
    BY DEF Deliver, ReadUsers, FindExisting, Create, AttemptFails
  <2> QED BY <1>0, <2>1, <2>2 DEF Grows
<1>2. CASE Delivered(x) /\ UNCHANGED failing /\ Settled(ev)'
  BY <1>0, <1>1, <1>2, DeliveredTracks DEF Kept
<1>3. CASE Threw(x, TRUE) \/ Threw(x, FALSE)
  BY <1>0, <1>1, <1>3, ThrewTracks
<1>4. ASSUME NEW pc \in {"find", "create"}, Goto(x, pc), UNCHANGED <<jobs, failing>>
      PROVE  LInv'
  <2>1. PICK q \in Run : /\ run' = [run EXCEPT ![x] = q] /\ q.pc = pc /\ q.ev = run[x].ev
                         /\ q.lock = run[x].lock
    BY <1>4, Goes
  <2>2. run'[x] = q /\ \A y \in Runners \ {x} : run'[y] = run[y]
    BY <2>1 DEF IInv, RunsOK
  <2>3. ASSUME NEW e \in published
        PROVE  (Kept(e) \/ Queued(e) \/ Inline(e) \/ Failing(e))'
    <3>0. e \in Events
      BY DEF IInv, SetsOK
    <3>1. CASE Kept(e)
      BY <1>1, <3>0, <3>1, KeptStays
    <3>2. CASE Queued(e)
      BY <1>4, <3>2 DEF Queued
    <3>3. CASE Inline(e)
      BY <2>1, <2>2, <3>3 DEF Inline, Runners, Delivering
    <3>4. CASE Failing(e)
      BY <1>4, <3>4 DEF Failing
    <3> QED BY <3>1, <3>2, <3>3, <3>4 DEF LInv, Tracked
  <2>4. Removing'
    BY <1>1, <1>4, KeptStays DEF LInv, Removing, IInv, HandlersOK, Handler
  <2> QED BY <1>0, <2>3, <2>4 DEF LInv, Tracked
<1>5. CASE ReadUsers(x)
  BY <1>2, <1>3, <1>4, <1>5 DEF ReadUsers, Settled
<1>6. CASE FindExisting(x)
  <2>1. CASE stored[run[x].ev] > 0
    BY <1>2, <1>6, <2>1 DEF FindExisting, Settled
  <2>2. CASE ~(stored[run[x].ev] > 0)
    BY <1>4, <1>6, <2>2 DEF FindExisting
  <2> QED BY <2>1, <2>2
<1>7. CASE Create(x)
  <2>1. stored'[run[x].ev] > 0
    BY <1>0, <1>7 DEF Create, Accepts, IInv, StoredOK
  <2> QED BY <1>2, <1>7, <2>1 DEF Create, Settled
<1>8. CASE AttemptFails(x)
  BY <1>3, <1>8 DEF AttemptFails
<1> QED BY <1>5, <1>6, <1>7, <1>8 DEF Deliver

\* A step that takes no event's work away.
LEMMA QuietTracks ==
    ASSUME IInv, LInv, UNCHANGED <<published, failing, stored, dropped, dlq, deadLetters, lost>>,
           \A e \in Events : Queued(e) => Queued(e)',
           \A r \in Reqs : run[r].pc \in {"letter"} \cup Delivering => run'[r] = run[r]
    PROVE  LInv'
<1>1. ASSUME NEW e \in published
      PROVE  (Kept(e) \/ Queued(e) \/ Inline(e) \/ Failing(e))'
  <2>0. e \in Events
    BY DEF IInv, SetsOK
  <2>1. CASE Kept(e)
    BY <2>0, <2>1, GrowsSame, KeptStays
  <2>2. CASE Queued(e)
    BY <2>0, <2>2
  <2>3. CASE Inline(e)
    BY <2>3 DEF Inline
  <2>4. CASE Failing(e)
    BY <2>4 DEF Failing
  <2> QED BY <2>1, <2>2, <2>3, <2>4 DEF LInv, Tracked
<1>2. Removing'
  BY GrowsSame, KeptStays DEF LInv, Removing, IInv, HandlersOK, Handler
<1> QED BY <1>1, <1>2 DEF LInv, Tracked

\* A step of a request that has published nothing.
LEMMA SubmitTracks ==
    ASSUME IInv, LInv, NEW r \in Reqs,
           (\E e \in Events : Submit(r, e)) \/ Lookup(r) \/ Insert(r)
    PROVE  LInv'
<1>0. /\ r \in Runners /\ run[r].pc \notin {"letter"} \cup Delivering
      /\ UNCHANGED <<published, jobs, failing, stored, dropped, dlq, deadLetters, lost>>
  BY DEF Submit, Lookup, Insert, At, Runners, Delivering, requests, letters
<1>1. CASE \E e \in Events : Submit(r, e)
  <2>1. \A y \in Runners \ {r} : run'[y] = run[y]
    BY <1>1 DEF Submit, IInv, RunsOK
  <2> QED BY <1>0, <2>1, QuietTracks DEF Runners, Queued
<1>2. CASE Lookup(r) \/ Insert(r)
  <2>1. Stop(r) \/ Goto(r, "insert") \/ Goto(r, "publish")
    BY <1>2 DEF Lookup, Insert
  <2>2. \A y \in Runners \ {r} : run'[y] = run[y]
    BY <1>0, <2>1, OthersStay
  <2> QED BY <1>0, <2>2, QuietTracks DEF Runners, Queued
<1> QED BY <1>1, <1>2

LEMMA SubmitFailsTracks == ASSUME IInv, LInv, NEW r \in Reqs, SubmitFails(r) PROVE LInv'
<1>0. /\ r \in Runners /\ run[r].pc \notin {"letter"} \cup Delivering /\ Stop(r)
      /\ UNCHANGED <<published, jobs, failing, stored, dropped, dlq, deadLetters>>
      /\ lost \subseteq lost'
  BY DEF SubmitFails, At, Runners, Delivering
<1>1. Grows
  BY <1>0 DEF Grows
<1>2. \A y \in Runners \ {r} : run'[y] = run[y]
  BY <1>0, OthersStay
<1>3. ASSUME NEW e \in published
      PROVE  (Kept(e) \/ Queued(e) \/ Inline(e) \/ Failing(e))'
  <2>0. e \in Events
    BY DEF IInv, SetsOK
  <2>1. CASE Kept(e)
    BY <1>1, <2>0, <2>1, KeptStays
  <2>2. CASE Queued(e)
    BY <1>0, <2>2 DEF Queued
  <2>3. CASE Inline(e)
    BY <1>0, <1>2, <2>3 DEF Inline, Runners
  <2>4. CASE Failing(e)
    BY <1>0, <2>4 DEF Failing
  <2> QED BY <2>1, <2>2, <2>3, <2>4 DEF LInv, Tracked
<1>4. Removing'
  BY <1>0, <1>1, KeptStays DEF LInv, Removing, IInv, HandlersOK, Handler
<1> QED BY <1>0, <1>3, <1>4 DEF LInv, Tracked

LEMMA TakeTracks == ASSUME IInv, LInv, NEW w \in Workers, Take(w) PROVE LInv'
<1>0. /\ w \in Runners /\ w \notin Reqs
      /\ UNCHANGED <<published, failing, stored, dropped, dlq, deadLetters, lost>>
  BY RunnerAssumption DEF Take, Runners, requests, letters
<1>1. PICK e \in Events :
        /\ jobs' = [jobs EXCEPT ![e].state = "active"]
        /\ run' = [run EXCEPT ![w] = [Idle EXCEPT !.pc = "users", !.ev = e, !.lock = TRUE]]
  BY DEF Take
<1>2. \A d \in Events : Queued(d) => Queued(d)'
  BY <1>1 DEF Queued, IInv, JobsOK, Job
<1>3. \A y \in Runners \ {w} : run'[y] = run[y]
  BY <1>0, <1>1 DEF IInv, RunsOK
<1> QED BY <1>0, <1>2, <1>3, QuietTracks DEF Runners

\* A published event has its job, runs inline, or was refused by the queue.
LEMMA PublishTracks == ASSUME IInv, LInv, NEW r \in Reqs, Publish(r) PROVE LInv'
<1>0. /\ r \in Runners /\ r \notin Workers /\ run[r].pc = "publish"
      /\ run[r].ev \in Events /\ run[r].ev \notin published
  BY RunnerAssumption, Known DEF Runners, Publish, At, RunOK
<1> PICK ev \in Events : ev = run[r].ev
  BY <1>0
<1>1. /\ UNCHANGED <<dlq, deadLetters, failing, stored, dropped>>
      /\ published' = published \cup {ev} /\ lost \subseteq lost' /\ Grows
  BY DEF Publish, Grows
<1>2. \A y \in Runners \ {r} : run'[y] = run[y]
  BY <1>0 DEF Publish, Stop, IInv, RunsOK
<1>3. Queued(ev)' \/ Inline(ev)' \/ Kept(ev)'
  <2>1. CASE mode = "queue"
    <3>1. jobs[ev].state = "none"
      BY <1>0 DEF IInv, JobsOK, Job
    <3>2. CASE jobs' = Added(ev)
      BY <3>1, <3>2 DEF Added, Queued, IInv, JobsOK
    <3>3. CASE lost' = lost \cup {ev}
      BY <3>3 DEF Kept
    <3> QED BY <2>1, <3>2, <3>3 DEF Publish
  <2>2. CASE mode # "queue"
    <3>1. run' = [run EXCEPT ![r].pc = "users", ![r].attempt = 1]
      BY <2>2 DEF Publish
    <3>2. run'[r].ev = ev /\ run'[r].pc = "users"
      BY <1>0, <3>1, Known DEF Run, IInv, RunsOK
    <3> QED BY <3>2 DEF Inline, Delivering
  <2> QED BY <2>1, <2>2
<1>4. \A e \in Events : Queued(e) => Queued(e)'
  BY DEF Publish, Added, Queued, IInv, JobsOK
<1>5. ASSUME NEW e \in published
      PROVE  (Kept(e) \/ Queued(e) \/ Inline(e) \/ Failing(e))'
  <2>0. e \in Events
    BY DEF IInv, SetsOK
  <2>1. CASE Kept(e)
    BY <1>1, <2>0, <2>1, KeptStays
  <2>2. CASE Queued(e)
    BY <1>4, <2>0, <2>2
  <2>3. CASE Inline(e)
    BY <1>0, <1>2, <2>3 DEF Inline, Runners, Delivering
  <2>4. CASE Failing(e)
    BY <1>1, <2>4 DEF Failing
  <2> QED BY <2>1, <2>2, <2>3, <2>4 DEF LInv, Tracked
<1>6. Tracked'
  BY <1>1, <1>3, <1>5 DEF Tracked
<1>7. Removing'
  BY <1>1, KeptStays DEF LInv, Removing, IInv, HandlersOK, Handler
<1> QED BY <1>6, <1>7 DEF LInv

LEMMA InlineLetterTracks ==
    ASSUME IInv, LInv, NEW r \in Reqs, InlineLetter(r) PROVE LInv'
<1>0. /\ r \in Runners /\ run[r].ev \in Events /\ run[r].ev \in published
      /\ RecordDeadLetter(run[r].ev) /\ UNCHANGED <<published, jobs, failing, stored, dropped>>
  BY Known DEF Runners, InlineLetter, At, RunOK
<1> PICK ev \in Events : ev = run[r].ev
  BY <1>0
<1>1. Grows /\ Kept(ev)'
  BY <1>0, LetterSettles DEF Grows, Settled, Kept
<1>2. \A y \in Runners \ {r} : run'[y] = run[y]
  BY <1>0 DEF InlineLetter, Stop, IInv, RunsOK
<1>3. ASSUME NEW e \in published
      PROVE  (Kept(e) \/ Queued(e) \/ Inline(e) \/ Failing(e))'
  <2>0. e \in Events
    BY DEF IInv, SetsOK
  <2>1. CASE e = ev \/ Kept(e)
    BY <1>1, <2>0, <2>1, KeptStays
  <2>2. CASE Queued(e)
    BY <1>0, <2>2 DEF Queued
  <2>3. CASE e # ev /\ Inline(e)
    BY <1>2, <2>3 DEF Inline, Runners
  <2>4. CASE Failing(e)
    BY <1>0, <2>4 DEF Failing
  <2> QED BY <2>1, <2>2, <2>3, <2>4 DEF LInv, Tracked
<1>4. Removing'
  BY <1>0, <1>1, KeptStays DEF LInv, Removing, IInv, HandlersOK, Handler
<1> QED BY <1>0, <1>3, <1>4 DEF LInv, Tracked

LEMMA HandleFailedTracks ==
    ASSUME IInv, LInv, NEW h \in failing, HandleFailed(h) PROVE LInv'
<1>0. /\ h \in Handler /\ h.ev \in Events /\ h.ev \in published
      /\ UNCHANGED <<published, run, stored, dropped>>
  BY DEF HandleFailed, requests, IInv, HandlersOK, Handler
<1>1. Grows /\ Kept(h.ev)'
  <2>1. CASE RecordDeadLetter(h.ev)
    BY <1>0, <2>1, LetterSettles DEF Grows, Settled, Kept
  <2>2. CASE h.step = "remove" /\ UNCHANGED letters
    BY <1>0, <2>2, GrowsSame, KeptStays DEF letters, LInv, Removing
  <2> QED BY <2>1, <2>2 DEF HandleFailed
<1>2. \A e \in Events \ {h.ev} : jobs'[e] = jobs[e]
  BY DEF HandleFailed, IInv, JobsOK
<1>3. \A g \in failing \ {h} : g \in failing'
  BY DEF HandleFailed
<1>4. \A g \in failing' : g \in failing \/ g.ev = h.ev
  <2>1. [h EXCEPT !.step = "remove"].ev = h.ev
    BY <1>0 DEF Handler
  <2> QED BY <2>1 DEF HandleFailed
<1>5. ASSUME NEW e \in published
      PROVE  (Kept(e) \/ Queued(e) \/ Inline(e) \/ Failing(e))'
  <2>0. e \in Events
    BY DEF IInv, SetsOK
  <2>1. CASE e = h.ev \/ Kept(e)
    BY <1>1, <2>0, <2>1, KeptStays
  <2>2. CASE e # h.ev /\ Queued(e)
    BY <1>2, <2>0, <2>2 DEF Queued
  <2>3. CASE Inline(e)
    BY <1>0, <2>3 DEF Inline
  <2>4. CASE e # h.ev /\ Failing(e)
    BY <1>3, <2>4 DEF Failing
  <2> QED BY <2>1, <2>2, <2>3, <2>4 DEF LInv, Tracked
<1>6. Removing'
  <2> SUFFICES ASSUME NEW g \in failing', g.step = "remove" PROVE Kept(g.ev)'
    BY DEF Removing
  <2>1. CASE g.ev = h.ev
    BY <1>1, <2>1
  <2>2. CASE g \in failing
    BY <1>1, <2>2, KeptStays DEF LInv, Removing, IInv, HandlersOK, Handler
  <2> QED BY <1>4, <2>1, <2>2
<1> QED BY <1>0, <1>5, <1>6 DEF LInv, Tracked

\* A death loses what only the process held, and that is what it counts.
LEMMA CrashTracks == ASSUME IInv, LInv, Crash PROVE LInv'
<1>0. /\ UNCHANGED <<published, dlq, stored, dropped>> /\ failing' = {}
      /\ lost' = lost \cup {e \in Events : InMemory(e) /\ jobs'[e].state # "waiting"}
  BY DEF Crash, requests
<1>1. ASSUME NEW e \in Events, InMemory(e) PROVE Queued(e)' \/ Kept(e)'
  BY <1>0, <1>1 DEF Queued, Kept
<1>2. ASSUME NEW e \in published
      PROVE  (Kept(e) \/ Queued(e))'
  <2>0. e \in Events
    BY DEF IInv, SetsOK
  <2>1. CASE e \in Range(deadLetters)
    BY <1>1, <2>0, <2>1 DEF InMemory
  <2>2. CASE Kept(e) /\ e \notin Range(deadLetters)
    BY <1>0, <2>2 DEF Kept, Settled
  <2>3. CASE Queued(e)
    BY <2>0, <2>3 DEF Queued, Crash, IInv, JobsOK, Job
  <2>4. CASE Inline(e)
    BY <1>1, <2>0, <2>4 DEF InMemory, Inline, Delivering
  <2>5. CASE Failing(e)
    BY <1>1, <2>0, <2>5 DEF InMemory, Failing
  <2> QED BY <2>1, <2>2, <2>3, <2>4, <2>5 DEF LInv, Tracked
<1> QED BY <1>0, <1>2 DEF LInv, Tracked, Removing

\* A job taken from its worker is back in the queue, or given up.
LEMMA StallTracks == ASSUME IInv, LInv, NEW w \in Workers, Stall(w) PROVE LInv'
<1>0. /\ UNCHANGED <<published, failing, stored, dropped, dlq, deadLetters>>
      /\ lost \subseteq lost' /\ run[w].ev \in Events /\ w \notin Reqs /\ w \in Runners
  BY Owned, RunnerAssumption DEF Stall, Runners, requests
<1>1. Grows
  BY <1>0 DEF Grows
<1>2. \A y \in Runners \ {w} : run'[y] = run[y]
  BY DEF Stall, IInv, RunsOK
<1> PICK ev \in Events : ev = run[w].ev
  BY <1>0
<1>3. Queued(ev)' \/ Kept(ev)'
  BY <1>0 DEF Stall, Queued, Kept, IInv, JobsOK, Job
<1>4. \A e \in Events \ {ev} : jobs'[e] = jobs[e]
  BY DEF Stall, IInv, JobsOK
<1>5. ASSUME NEW e \in published
      PROVE  (Kept(e) \/ Queued(e) \/ Inline(e) \/ Failing(e))'
  <2>0. e \in Events
    BY DEF IInv, SetsOK
  <2>1. CASE e = ev
    BY <1>3, <2>1
  <2>2. CASE Kept(e)
    BY <1>1, <2>0, <2>2, KeptStays
  <2>3. CASE e # ev /\ Queued(e)
    BY <1>4, <2>0, <2>3 DEF Queued
  <2>4. CASE Inline(e)
    BY <1>0, <1>2, <2>4 DEF Inline, Runners
  <2>5. CASE Failing(e)
    BY <1>0, <2>5 DEF Failing
  <2> QED BY <2>1, <2>2, <2>3, <2>4, <2>5 DEF LInv, Tracked
<1>6. Removing'
  BY <1>0, <1>1, KeptStays DEF LInv, Removing, IInv, HandlersOK, Handler
<1> QED BY <1>0, <1>5, <1>6 DEF LInv, Tracked

LEMMA NextTracks == ASSUME IInv, LInv, [Next]_vars PROVE LInv'
<1>1. CASE UNCHANGED vars
  BY <1>1, QuietTracks DEF vars, Queued
<1>2. ASSUME NEW r \in Reqs, Continue(r) \/ \E e \in Events : Submit(r, e) PROVE LInv'
  BY <1>2, SubmitTracks, SubmitFailsTracks, PublishTracks, InlineLetterTracks DEF Continue
<1>3. ASSUME NEW w \in Workers, Take(w) \/ Stall(w) PROVE LInv'
  BY <1>3, TakeTracks, StallTracks
<1>4. ASSUME NEW x \in Runners, Deliver(x) PROVE LInv'
  BY <1>4, DeliverTracks
<1>5. ASSUME NEW h \in failing, HandleFailed(h) PROVE LInv'
  BY <1>5, HandleFailedTracks
<1>6. CASE Crash
  BY <1>6, CrashTracks
<1>7. CASE \/ StartNotificationWorker \/ WorkerError
           \/ \E u \in Users : EraseUser(u)
           \/ \E e \in Events : MarkRead(e)
  <2>1. UNCHANGED <<published, jobs, failing, run, stored, dropped, dlq, deadLetters, lost>>
    BY <1>7 DEF StartNotificationWorker, WorkerError, EraseUser, MarkRead, requests, letters
  <2> QED BY <2>1, QuietTracks DEF Queued
<1> QED BY <1>1, <1>2, <1>3, <1>4, <1>5, <1>6, <1>7 DEF Next

\* Whatever attempts fail, whichever accounts vanish, whenever the worker loses
\* its queue or its lock and the process dies: a published event is kept by the
\* queue, a delivery, a handler or a letter, or was taken by one of the faults
\* that "lost" counts.  The failure that uses up the budget writes the letter.
THEOREM PublishedIsKept == Spec => []NothingLost
<1>1. Init => LInv
  BY DEF Init, LInv, Tracked, Removing
<1>2. IInv /\ LInv /\ [Next]_vars => LInv'
  BY NextTracks
<1>3. IInv /\ LInv => NothingLost
  <2> SUFFICES ASSUME IInv, LInv, NEW e \in published
               PROVE  Settled(e) \/ Underway(e) \/ e \in lost
    BY DEF NothingLost
  <2>1. CASE Inline(e)
    BY <2>1 DEF Inline, Underway, Runners, Delivering
  <2> QED BY <2>1 DEF LInv, Tracked, Kept, Queued, Failing, Underway
<1> QED BY <1>1, <1>2, <1>3, Invariance, PTL DEF Spec
=============================================================================
