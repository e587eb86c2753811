------------------------------- MODULE AIRuns -------------------------------
(***************************************************************************)
(* An AI run: an administrator launches it, the API fans one Celery task   *)
(* out per patent, workers call the provider through the artifact cache,   *)
(* denormalise the answer onto the patent, and account for themselves on   *)
(* the shared ai_runs row, which turns final once enough tasks are counted. *)
(*                                                                         *)
(* Actors: the API request that launches a run, the worker processes, the  *)
(* LLM provider, the broker (at-least-once: acks_late) and the environment *)
(* that ingests patents.  A step is what one actor does between two        *)
(* interactions with the database, the broker or the provider.             *)
(***************************************************************************)
EXTENDS Integers, FiniteSets

CONSTANTS
  Runs,             \* ai_runs rows that may be created
  Patents,          \* patent_publications
  Late,             \* patents ingested only after the model has started
  Gone,             \* patents whose row is removed between dispatch and task
  Blank,            \* patents with neither title nor abstract
  SkipsDone,        \* TRUE for task_type "summary", which skips what is done
  Keys,             \* cache keys (prompt_hash, input_hash, artifact_type)
  Key,              \* the cache key of each patent: equal inputs, equal keys
  Workers,          \* Celery worker processes
  ProviderOutcomes, \* what a live call may do
  MaxRetries,       \* autoretry_for ... max_retries
  MaxFaults,        \* bound on crashes and redeliveries
  None              \* no artifact, no message

ASSUME FiniteAssumption ==
  /\ IsFiniteSet(Patents)
  /\ IsFiniteSet(Keys)
ASSUME PatentsAssumption ==
  /\ Late \subseteq Patents
  /\ Gone \subseteq Patents
  /\ Blank \subseteq Patents
ASSUME KeyAssumption == Key \in [Patents -> Keys]
ASSUME BoundsAssumption ==
  /\ MaxRetries \in Nat
  /\ MaxFaults \in Nat
  /\ SkipsDone \in BOOLEAN
ASSUME OutcomesAssumption ==
  ProviderOutcomes \subseteq {"good", "unusable", "api_error", "other_error"}

VARIABLES
  runs,       \* the ai_runs rows
  launch,     \* progress of the create_run request of each run
  todo,       \* patents that request has still to enqueue
  sent,       \* patents it has enqueued
  stock,      \* patents in the table
  done,       \* patents that carry the denormalised result
  cache,      \* complete artifacts: the partial unique index allows one a key
  failures,   \* failed artifacts of each run
  queue,      \* messages waiting at the broker
  pc,         \* where each worker is
  msg,        \* the message it holds unacknowledged
  outcome,    \* what it will record
  counted,    \* TRUE while its counter increment is uncommitted: row lock held
  seen,       \* the ai_runs row as recompute_run_aggregates would write it
  faults,     \* crashes and redeliveries so far
  recorded,   \* history: patents with a committed record, per run
  records,    \* history: how often each outcome was recorded, per run
  ended,      \* history: patents with an acknowledged task, per run
  relaunched  \* history: runs whose final status create_run overwrote

launchVars == <<launch, todo, sent>>
dataVars   == <<stock, done, cache, failures>>
workerVars == <<pc, msg, outcome, counted, seen>>
history    == <<recorded, records, ended, relaunched>>
vars == <<runs, launchVars, dataVars, queue, workerVars, faults, history>>
-----------------------------------------------------------------------------
Final    == {"succeeded", "failed", "cancelled"}
Statuses == {"absent", "pending", "running"} \cup Final

Row == [status : Statuses, cohort_size : Nat, completed_count : Nat,
        failed_count : Nat, actual_cost : Nat]

Outcomes == {"completed", "failed"}

NoRow == [status |-> "absent", cohort_size |-> 0, completed_count |-> 0,
          failed_count |-> 0, actual_cost |-> 0]

\* A delivery of the task of one patent of one run.  Deliveries restored by
\* the broker while the first is still held get a copy number of their own.
Messages == [run : Runs, patent : Patents, retries : 0..MaxRetries,
             copy : 0..MaxFaults]

Artifacts == [run : Runs, usable : BOOLEAN]

ASSUME NoneAssumption == None \notin Artifacts

\* Complete artifacts linked to run r; each live call costs one unit.
Produced(r) == {k \in Keys : cache[k] # None /\ cache[k].run = r}

\* What _resolve_cohort selects: for summaries, only what is worth doing.
Cohort == IF SkipsDone THEN stock \ (done \cup Blank) ELSE stock

\* Mutant: the counter UPDATE takes no row lock.
NoRowLock(r, w) == TRUE

\* The row lock the counter UPDATE takes is held until its transaction ends.
RowFree(r, w) == \A v \in Workers \ {w} : counted[v] => msg[v].run # r

Greater(a, b) == IF a >= b THEN a ELSE b
-----------------------------------------------------------------------------
Init ==
  /\ runs = [r \in Runs |-> NoRow]
  /\ launch = [r \in Runs |-> "none"]
  /\ todo = [r \in Runs |-> {}]
  /\ sent = [r \in Runs |-> {}]
  /\ stock = Patents \ Late
  /\ done = {}
  /\ cache = [k \in Keys |-> None]
  /\ failures = [r \in Runs |-> 0]
  /\ queue = {}
  /\ pc = [w \in Workers |-> "idle"]
  /\ msg = [w \in Workers |-> None]
  /\ outcome = [w \in Workers |-> "completed"]
  /\ counted = [w \in Workers |-> FALSE]
  /\ seen = [w \in Workers |-> NoRow]
  /\ faults = 0
  /\ recorded = [r \in Runs |-> {}]
  /\ records = [r \in Runs |-> [o \in Outcomes |-> 0]]
  /\ ended = [r \in Runs |-> {}]
  /\ relaunched = [r \in Runs |-> FALSE]
-----------------------------------------------------------------------------
(* The create_run request.                                                 *)

\* Estimate, insert the row with the estimated cohort size, commit.
CreateRun(r, enqueue) ==
  /\ runs[r].status = "absent"
  /\ runs' = [runs EXCEPT ![r] = [NoRow EXCEPT !.status = "pending",
                                    !.cohort_size = Cardinality(Cohort)]]
  /\ launch' = [launch EXCEPT ![r] = IF enqueue THEN "created" ELSE "closed"]
  /\ UNCHANGED <<todo, sent, dataVars, queue, workerVars, faults, history>>

\* The cohort is resolved a second time for the dispatch.
ResolveCohort(r) ==
  /\ launch[r] = "created"
  /\ todo' = [todo EXCEPT ![r] = Cohort]
  /\ launch' = [launch EXCEPT ![r] = "dispatching"]
  /\ UNCHANGED <<runs, sent, dataVars, queue, workerVars, faults, history>>

\* One task.delay(): workers may take the task while others are being sent.
Dispatch(r, p) ==
  /\ launch[r] = "dispatching"
  /\ p \in todo[r]
  /\ queue' = queue \cup {[run |-> r, patent |-> p, retries |-> 0, copy |-> 0]}
  /\ todo' = [todo EXCEPT ![r] = @ \ {p}]
  /\ sent' = [sent EXCEPT ![r] = @ \cup {p}]
  /\ UNCHANGED <<runs, launch, dataVars, workerVars, faults, history>>

\* run.status = ...; commit.  The UPDATE does not look at the status the
\* workers may have given the row meanwhile.
FinishLaunch(r) ==
  /\ launch[r] = "dispatching"
  /\ todo[r] = {}
  /\ \A w \in Workers : counted[w] => msg[w].run # r
  /\ runs' = [runs EXCEPT ![r].status = IF sent[r] = {} THEN "succeeded"
                                                         ELSE "running"]
  /\ launch' = [launch EXCEPT ![r] = "closed"]
  /\ relaunched' = [relaunched EXCEPT ![r] = runs[r].status \in Final]
  /\ UNCHANGED <<todo, sent, dataVars, queue, workerVars, faults,
                 recorded, records, ended>>

\* The request dies half-way (broker unreachable in delay(), API restart).
AbandonLaunch(r) ==
  /\ launch[r] \in {"created", "dispatching"}
  /\ faults < MaxFaults
  /\ faults' = faults + 1
  /\ launch' = [launch EXCEPT ![r] = "abandoned"]
  /\ todo' = [todo EXCEPT ![r] = {}]
  /\ UNCHANGED <<runs, sent, dataVars, queue, workerVars, history>>

\* Ingestion commits a patent while runs are being launched.
Ingest(p) ==
  /\ p \notin stock
  /\ stock' = stock \cup {p}
  /\ UNCHANGED <<runs, launchVars, done, cache, failures, queue, workerVars,
                 faults, history>>
-----------------------------------------------------------------------------
(* A worker executes a task.                                               *)

Goto(w, step) == pc' = [pc EXCEPT ![w] = step]

\* The worker forgets the task: acknowledged, or its process gone.
Forget(w) ==
  /\ Goto(w, "idle")
  /\ msg' = [msg EXCEPT ![w] = None]
  /\ outcome' = [outcome EXCEPT ![w] = "completed"]
  /\ counted' = [counted EXCEPT ![w] = FALSE]
  /\ seen' = [seen EXCEPT ![w] = NoRow]

\* Take a message without acknowledging it (acks_late) and read the patent.
Take(w, m) ==
  /\ pc[w] = "idle"
  /\ m \in queue
  /\ queue' = queue \ {m}
  /\ msg' = [msg EXCEPT ![w] = m]
  /\ LET skip == m.patent \in Blank \/ (SkipsDone /\ m.patent \in done)
     IN /\ Goto(w, IF m.patent \in Gone \/ skip THEN "record" ELSE "lookup")
        /\ outcome' = [outcome EXCEPT ![w] =
                         IF m.patent \in Gone THEN "failed" ELSE "completed"]
  /\ UNCHANGED <<runs, launchVars, dataVars, counted, seen, faults, history>>

\* Mutant: any cached artifact is taken for a result.
LookupAnyHit(w) ==
  /\ pc[w] = "lookup"
  /\ Goto(w, IF cache[Key[msg[w].patent]] = None THEN "calling"
                                               ELSE "denormalise")
  /\ UNCHANGED <<runs, launchVars, dataVars, queue, msg, outcome, counted,
                 seen, faults, history>>

\* _find_cached: a hit short-circuits, even one that cannot be used.
Lookup(w) ==
  /\ pc[w] = "lookup"
  /\ LET a == cache[Key[msg[w].patent]]
     IN Goto(w, IF a = None THEN "calling"
                ELSE IF a.usable THEN "denormalise" ELSE "retry")
  /\ UNCHANGED <<runs, launchVars, dataVars, queue, msg, outcome, counted,
                 seen, faults, history>>

\* The provider answers; the artifact is stored complete whether or not its
\* content parses.  If another worker stored the key first, the unique index
\* rejects the insert: IntegrityError, not retried, nothing recorded.
ProviderAnswers(w) ==
  /\ pc[w] = "calling"
  /\ \E usable \in BOOLEAN :
       LET k == Key[msg[w].patent]
       IN /\ (IF usable THEN "good" ELSE "unusable") \in ProviderOutcomes
          /\ IF cache[k] = None
             THEN /\ cache' = [cache EXCEPT ![k] = [run |-> msg[w].run,
                                                    usable |-> usable]]
                  /\ Goto(w, IF usable THEN "denormalise" ELSE "retry")
             ELSE /\ cache' = cache
                  /\ Goto(w, "ack")
  /\ UNCHANGED <<runs, launchVars, stock, done, failures, queue, msg, outcome,
                 counted, seen, faults, history>>

\* The call fails: a failed artifact is committed and the error re-raised.
\* Only what becomes a SummarizationError is retried.
ProviderFails(w) ==
  /\ pc[w] = "calling"
  /\ \E error \in ProviderOutcomes \cap {"api_error", "other_error"} :
       Goto(w, IF error = "api_error" THEN "retry" ELSE "ack")
  /\ failures' = [failures EXCEPT ![msg[w].run] = @ + 1]
  /\ UNCHANGED <<runs, launchVars, stock, done, cache, queue, msg, outcome,
                 counted, seen, faults, history>>

\* Mutant: the retry limit is not looked at.
RetryUnlimited(w) ==
  /\ pc[w] = "retry"
  /\ queue' = queue \cup {[msg[w] EXCEPT !.retries = @ + 1]}
  /\ Goto(w, "ack")
  /\ UNCHANGED <<runs, launchVars, dataVars, msg, outcome, counted, seen,
                 faults, history>>

\* autoretry: publish the task again, or give up once retries are exhausted.
\* Neither path records anything on the run.
Retry(w) ==
  /\ pc[w] = "retry"
  /\ queue' = IF msg[w].retries < MaxRetries
              THEN queue \cup {[msg[w] EXCEPT !.retries = @ + 1]}
              ELSE queue
  /\ Goto(w, "ack")
  /\ UNCHANGED <<runs, launchVars, dataVars, msg, outcome, counted, seen,
                 faults, history>>

Denormalise(w) ==
  /\ pc[w] = "denormalise"
  /\ done' = done \cup {msg[w].patent}
  /\ Goto(w, "record")
  /\ UNCHANGED <<runs, launchVars, stock, cache, failures, queue, msg, outcome,
                 counted, seen, faults, history>>

\* record_run_task_completion / _failure: UPDATE ... SET count = count + 1
\* WHERE status NOT IN final.  It waits for the row lock and then holds it;
\* on a final row it matches nothing and locks nothing.
Record(w) ==
  /\ pc[w] = "record"
  /\ LET r == msg[w].run
     IN /\ RowFree(r, w)
        /\ counted' = [counted EXCEPT ![w] = runs[r].status \notin Final]
  /\ Goto(w, "recompute")
  /\ UNCHANGED <<runs, launchVars, dataVars, queue, msg, outcome, seen, faults,
                 history>>

\* Mutant: one count too many is awaited.
AggregateOffByOne(r, completed, failed) ==
  LET c == Greater(Cardinality(Produced(r)), completed)
      f == Greater(failures[r], failed)
      size == runs[r].cohort_size
  IN [status |-> IF c + f <= size THEN runs[r].status
                 ELSE IF c > 0 \/ size = 0 THEN "succeeded" ELSE "failed",
      cohort_size |-> size, completed_count |-> c, failed_count |-> f,
      actual_cost |-> Cardinality(Produced(r))]

\* The row recompute_run_aggregates writes, from the row and artifacts it reads.
Aggregate(r, completed, failed) ==
  LET c == Greater(Cardinality(Produced(r)), completed)
      f == Greater(failures[r], failed)
      size == runs[r].cohort_size
  IN [status |-> IF c + f < size THEN runs[r].status
                 ELSE IF c > 0 \/ size = 0 THEN "succeeded" ELSE "failed",
      cohort_size |-> size, completed_count |-> c, failed_count |-> f,
      actual_cost |-> Cardinality(Produced(r))]

\* Mutant: a final run is recomputed like any other.
RecomputeFinal(w) ==
  /\ pc[w] = "recompute"
  /\ LET r == msg[w].run
         add(kind) == IF counted[w] /\ outcome[w] = kind THEN 1 ELSE 0
     IN /\ Goto(w, "commit")
        /\ seen' = [seen EXCEPT ![w] =
                      Aggregate(r, runs[r].completed_count + add("completed"),
                                   runs[r].failed_count + add("failed"))]
  /\ UNCHANGED <<runs, launchVars, dataVars, queue, msg, outcome, counted,
                 faults, history>>

\* SELECT the run and its artifacts; a final run ends the task here.  The
\* worker sees its own uncommitted increment.
Recompute(w) ==
  /\ pc[w] = "recompute"
  /\ LET r == msg[w].run
         add(kind) == IF counted[w] /\ outcome[w] = kind THEN 1 ELSE 0
     IN IF runs[r].status \in Final
        THEN Goto(w, "ack") /\ seen' = seen
        ELSE /\ Goto(w, "commit")
             /\ seen' = [seen EXCEPT ![w] =
                           Aggregate(r, runs[r].completed_count + add("completed"),
                                        runs[r].failed_count + add("failed"))]
  /\ UNCHANGED <<runs, launchVars, dataVars, queue, msg, outcome, counted,
                 faults, history>>

\* UPDATE ai_runs SET ...; commit, which releases the row lock.
Commit(w) ==
  /\ pc[w] = "commit"
  /\ LET r == msg[w].run
     IN /\ RowFree(r, w)
        /\ runs' = [runs EXCEPT ![r] = seen[w]]
        /\ IF counted[w]
           THEN /\ recorded' = [recorded EXCEPT ![r] = @ \cup {msg[w].patent}]
                /\ records' = [records EXCEPT ![r][outcome[w]] = @ + 1]
           ELSE UNCHANGED <<recorded, records>>
  /\ counted' = [counted EXCEPT ![w] = FALSE]
  /\ Goto(w, "ack")
  /\ UNCHANGED <<launchVars, dataVars, queue, msg, outcome, seen, faults, ended,
                 relaunched>>

Ack(w) ==
  /\ pc[w] = "ack"
  /\ ended' = [ended EXCEPT ![msg[w].run] = @ \cup {msg[w].patent}]
  /\ Forget(w)
  /\ UNCHANGED <<runs, launchVars, dataVars, queue, faults, recorded, records,
                 relaunched>>

\* Mutant: the message was acknowledged on receipt, so it dies with the worker.
CrashEarlyAck(w) ==
  /\ pc[w] # "idle"
  /\ faults < MaxFaults
  /\ faults' = faults + 1
  /\ Forget(w)
  /\ UNCHANGED <<runs, launchVars, dataVars, queue, history>>

\* A worker is killed: its open transaction rolls back and the broker
\* restores the unacknowledged message.
Crash(w) ==
  /\ pc[w] # "idle"
  /\ faults < MaxFaults
  /\ faults' = faults + 1
  /\ queue' = queue \cup {msg[w]}
  /\ Forget(w)
  /\ UNCHANGED <<runs, launchVars, dataVars, history>>

\* The broker's view when only the child process dies: WorkerLostError counts
\* as a failure, so the message is acknowledged and the task is not run again.
LoseChild(w) ==
  /\ pc[w] # "idle"
  /\ faults < MaxFaults
  /\ faults' = faults + 1
  /\ ended' = [ended EXCEPT ![msg[w].run] = @ \cup {msg[w].patent}]
  /\ Forget(w)
  /\ UNCHANGED <<runs, launchVars, dataVars, queue, recorded, records, relaunched>>

\* The visibility timeout passes while the message is held: it is delivered
\* a second time although its holder is alive.
Redeliver(w) ==
  /\ pc[w] # "idle"
  /\ faults < MaxFaults
  /\ faults' = faults + 1
  /\ queue' = queue \cup {[msg[w] EXCEPT !.copy = faults + 1]}
  /\ UNCHANGED <<runs, launchVars, dataVars, workerVars, history>>
-----------------------------------------------------------------------------
LaunchStep(r) ==
  \/ ResolveCohort(r)
  \/ \E p \in Patents : Dispatch(r, p)
  \/ FinishLaunch(r)

WorkerStep(w) ==
  \/ \E m \in queue : Take(w, m)
  \/ Lookup(w)
  \/ ProviderAnswers(w)
  \/ ProviderFails(w)
  \/ Retry(w)
  \/ Denormalise(w)
  \/ Record(w)
  \/ Recompute(w)
  \/ Commit(w)
  \/ Ack(w)

Next ==
  \/ \E r \in Runs : \/ \E enqueue \in BOOLEAN : CreateRun(r, enqueue)
                     \/ LaunchStep(r)
                     \/ AbandonLaunch(r)
  \/ \E p \in Patents : Ingest(p)
  \/ \E w \in Workers : WorkerStep(w) \/ Crash(w) \/ LoseChild(w) \/ Redeliver(w)

Spec == Init /\ [][Next]_vars

\* A request handler that is running goes on, and so does a worker process.
Fairness ==
  /\ \A r \in Runs : WF_vars(LaunchStep(r))
  /\ \A w \in Workers : WF_vars(WorkerStep(w))

FairSpec == Spec /\ Fairness
-----------------------------------------------------------------------------
(* Properties.                                                             *)

\* Every variable keeps its type.
TypeOK ==
  /\ runs \in [Runs -> Row]
  /\ launch \in [Runs -> {"none", "created", "dispatching", "closed", "abandoned"}]
  /\ todo \in [Runs -> SUBSET Patents]
  /\ sent \in [Runs -> SUBSET Patents]
  /\ stock \subseteq Patents
  /\ done \subseteq Patents
  /\ cache \in [Keys -> Artifacts \cup {None}]
  /\ failures \in [Runs -> Nat]
  /\ queue \subseteq Messages
  /\ pc \in [Workers -> {"idle", "lookup", "calling", "retry", "denormalise",
                          "record", "recompute", "commit", "ack"}]
  /\ msg \in [Workers -> Messages \cup {None}]
  /\ outcome \in [Workers -> Outcomes]
  /\ counted \in [Workers -> BOOLEAN]
  /\ seen \in [Workers -> Row]
  /\ faults \in 0..MaxFaults
  /\ recorded \in [Runs -> SUBSET Patents]
  /\ records \in [Runs -> [Outcomes -> Nat]]
  /\ ended \in [Runs -> SUBSET Patents]
  /\ relaunched \in [Runs -> BOOLEAN]

\* No committed record is lost: the row lock that record_run_task_* takes and
\* recompute_run_aggregates releases serialises read-modify-write of the row,
\* unless create_run overwrote a final status in between.
CountersCoverRecords ==
  \A r \in Runs : ~relaunched[r] =>
    Cardinality(recorded[r]) <= runs[r].completed_count + runs[r].failed_count

\* A run all of whose tasks have recorded themselves has become final: the
\* last committed recompute_run_aggregates cannot miss an earlier one.
AllRecordedIsFinal ==
  \A r \in Runs :
    (/\ ~relaunched[r]
     /\ recorded[r] # {}
     /\ Cardinality(recorded[r]) >= runs[r].cohort_size)
      => runs[r].status \in Final

\* A final run is never touched again (counters, cost and status freeze), with
\* the one exception of create_run's closing UPDATE.
FinalIsFrozen ==
  [][\A r \in Runs :
       (runs[r].status \in Final /\ ~relaunched'[r]) => runs'[r] = runs[r]]_vars

\* recompute_run_aggregates takes the larger of counter and artifacts, and a
\* record adds one to what it stored: a task may count twice, as an artifact
\* and as a record, but neither an artifact nor a record does.
CountsAreBacked ==
  \A r \in Runs :
    /\ runs[r].completed_count <= records[r]["completed"] + Cardinality(Produced(r))
    /\ runs[r].failed_count <= records[r]["failed"] + failures[r]

\* So a run with tasks is not final before records, artifacts and failed calls
\* together reach its cohort size, and succeeds only with a record or an
\* artifact of a completion.  Tasks may still be queued then: NoTaskLeftBehind.
FinalIsBacked ==
  \A r \in Runs :
    (runs[r].status \in Final /\ sent[r] # {}) =>
      /\ runs[r].cohort_size <= records[r]["completed"] + Cardinality(Produced(r))
                                 + records[r]["failed"] + failures[r]
      /\ runs[r].status = "succeeded" =>
           \/ records[r]["completed"] + Cardinality(Produced(r)) > 0
           \/ runs[r].cohort_size = 0

\* Between what the workers record and what the run shows, however their
\* recomputations interleave: no record is lost, a fully recorded run is final,
\* and no count is made up, though one task may be counted twice.
CountersAddUp ==
  CountersCoverRecords /\ AllRecordedIsFinal /\ CountsAreBacked /\ FinalIsBacked

\* What "race-free" in the header of run_aggregates.py would mean: when a run
\* whose launch is over is final, none of its tasks waits at the broker.
NoTaskLeftBehind ==
  \A r \in Runs :
    (runs[r].status \in Final /\ launch[r] = "closed") =>
      \A m \in queue : m.run # r

\* At-least-once: a dispatched task that no worker has acknowledged is still
\* queued or held, through crashes, retries and redeliveries.
NoTaskLost ==
  \A r \in Runs : \A p \in sent[r] \ ended[r] :
    \/ \E m \in queue : m.run = r /\ m.patent = p
    \/ \E w \in Workers :
         pc[w] # "idle" /\ msg[w].run = r /\ msg[w].patent = p

\* A patent carries a result only if a usable complete artifact backs it,
\* whichever task, run or redelivery produced that artifact.
DoneIsUsable ==
  \A p \in done : cache[Key[p]] # None /\ cache[Key[p]].usable

\* The cost on the run never exceeds what its own artifacts cost: cache hits,
\* retries and redeliveries are not billed to it.
CostIsBacked ==
  \A r \in Runs : runs[r].actual_cost <= Cardinality(Produced(r))

\* Neither a patent's result nor a run's cost outruns the artifacts.
ArtifactsBackResults == DoneIsUsable /\ CostIsBacked

\* Every dispatched task is eventually acknowledged: retries are bounded.
EveryTaskEnds ==
  \A r \in Runs : \A p \in Patents : p \in sent[r] ~> p \in ended[r]

\* The run was dispatched to fewer patents than it was estimated for: others
\* were summarised in between.
CohortShrank(r) ==
  launch[r] = "closed" /\ Cardinality(sent[r]) < runs[r].cohort_size

\* A task of r found its key taken after its call: IntegrityError, no record.
Collided(r) ==
  \E p \in ended[r] \ recorded[r] :
    /\ cache[Key[p]] # None
    /\ \/ cache[Key[p]].run # r
       \/ \E q \in sent[r] \ {p} : Key[q] = Key[p]

\* A launched run becomes final, unless one of six things happens to it: the
\* status was overwritten by create_run, a fault, a failed call, an answer that
\* cannot be used, a cohort that shrank between estimate and dispatch, or a
\* task that lost the race for its cache key.
CleanRunsFinish ==
  \A r \in Runs :
    launch[r] = "dispatching" ~>
      \/ runs[r].status \in Final
      \/ relaunched[r]
      \/ faults > 0
      \/ failures[r] > 0
      \/ \E k \in Keys : cache[k] # None /\ ~cache[k].usable
      \/ CohortShrank(r)
      \/ Collided(r)

\* Both: no dispatched task stays unacknowledged for ever, and no run outside
\* those six cases stays open for ever.
TasksAndRunsEnd == EveryTaskEnds /\ CleanRunsFinish

=============================================================================
