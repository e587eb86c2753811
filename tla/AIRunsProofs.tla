---------------------------- MODULE AIRunsProofs ----------------------------
(***************************************************************************)
(* Proofs about AIRuns for every set of runs, patents and workers and every *)
(* bound on retries and faults.  The row lock is what the argument turns    *)
(* on: a counted worker holds its run's row, and what it has seen is the    *)
(* committed row plus its own increment.  With the types and the fact that  *)
(* a busy worker holds a message, the later sections add what becomes of    *)
(* the tasks: none is lost, a patent's result is backed by a usable         *)
(* artifact, the cost by the run's own artifacts, the counters and with     *)
(* them a final status by records and artifacts, each counted once.         *)
(***************************************************************************)
EXTENDS AIRuns, FiniteSetTheorems, TLAPS
-----------------------------------------------------------------------------
(* The inductive invariant.                                                *)

Busy(w) == pc[w] # "idle"

\* A worker that is not idle holds a message.
BusyHoldsMessage == \A w \in Workers : Busy(w) => msg[w] \in Messages

\* A row that does not exist yet has no trace anywhere.
AbsentIsUntouched ==
  \A r \in Runs : runs[r].status = "absent" =>
    /\ launch[r] = "none"
    /\ recorded[r] = {}
    /\ \A m \in queue : m.run # r
    /\ \A w \in Workers : Busy(w) => msg[w].run # r

\* create_run writes a row's status only once.
RelaunchedIsClosed == \A r \in Runs : relaunched[r] => launch[r] = "closed"

\* The lock is held only inside the record-and-recompute transaction, by one
\* worker a row, and never on a final row.
LockDiscipline ==
  \A w \in Workers : counted[w] =>
    /\ pc[w] \in {"recompute", "commit"}
    /\ runs[msg[w].run].status \notin Final
    /\ \A v \in Workers \ {w} : counted[v] => msg[v].run # msg[w].run

\* Without the lock a worker goes past its record only on a row that is final,
\* and past its read only on a row that was final and has been overwritten.
UnlockedIsStale ==
  \A w \in Workers : (~counted[w] /\ Busy(w)) =>
    /\ pc[w] = "recompute" =>
         runs[msg[w].run].status \in Final \/ relaunched[msg[w].run]
    /\ pc[w] = "commit" => relaunched[msg[w].run]

\* What a worker is about to write exists, and reaches the cohort size only
\* with a final status.
SeenIsSound ==
  \A w \in Workers : pc[w] = "commit" =>
    /\ seen[w].status # "absent"
    /\ seen[w].cohort_size = runs[msg[w].run].cohort_size
    /\ seen[w].completed_count + seen[w].failed_count >= seen[w].cohort_size
         => seen[w].status \in Final

\* What the lock holder is about to write counts one task more than the row.
SeenCountsOneMore ==
  \A w \in Workers : (pc[w] = "commit" /\ counted[w]) =>
    seen[w].completed_count + seen[w].failed_count
      >= runs[msg[w].run].completed_count + runs[msg[w].run].failed_count + 1

IInv ==
  /\ TypeOK
  /\ BusyHoldsMessage
  /\ AbsentIsUntouched
  /\ RelaunchedIsClosed
  /\ LockDiscipline
  /\ UnlockedIsStale
  /\ SeenIsSound
  /\ SeenCountsOneMore
  /\ CountersCoverRecords
  /\ AllRecordedIsFinal
-----------------------------------------------------------------------------
(* Type correctness.                                                       *)

\* The artifacts of a run are counted by a natural number.
LEMMA ProducedFinite ==
  ASSUME NEW r \in Runs
  PROVE  Cardinality(Produced(r)) \in Nat
<1>1. IsFiniteSet(Produced(r))
  BY FiniteAssumption, FS_Subset DEF Produced
<1> QED BY <1>1, FS_CardinalityType

\* What recompute_run_aggregates writes is a row: it keeps the cohort size, its
\* counters are at least those it read, it is final as soon as they reach the
\* cohort size, and it never makes a row absent.
LEMMA AggregateSound ==
  ASSUME TypeOK, NEW r \in Runs, NEW c \in Nat, NEW f \in Nat
  PROVE  /\ Aggregate(r, c, f) \in Row
         /\ Aggregate(r, c, f).cohort_size = runs[r].cohort_size
         /\ Aggregate(r, c, f).completed_count >= c
         /\ Aggregate(r, c, f).failed_count >= f
         /\ runs[r].status # "absent" => Aggregate(r, c, f).status # "absent"
         /\ Aggregate(r, c, f).completed_count + Aggregate(r, c, f).failed_count
              >= Aggregate(r, c, f).cohort_size
            => Aggregate(r, c, f).status \in Final
<1>1. Cardinality(Produced(r)) \in Nat
  BY ProducedFinite
<1>2. runs[r] \in Row /\ failures[r] \in Nat
  BY DEF TypeOK
<1> DEFINE cc == Greater(Cardinality(Produced(r)), c)
           ff == Greater(failures[r], f)
<1>3. cc \in Nat /\ cc >= c /\ ff \in Nat /\ ff >= f
  BY <1>1, <1>2 DEF Greater
<1> HIDE DEF cc, ff
<1>4. Aggregate(r, c, f) =
        [status |-> IF cc + ff < runs[r].cohort_size THEN runs[r].status
                    ELSE IF cc > 0 \/ runs[r].cohort_size = 0
                         THEN "succeeded" ELSE "failed",
         cohort_size |-> runs[r].cohort_size, completed_count |-> cc,
         failed_count |-> ff, actual_cost |-> Cardinality(Produced(r))]
  BY DEF Aggregate, cc, ff
<1> QED BY <1>1, <1>2, <1>3, <1>4 DEF Row, Statuses, Final

\* Forgetting a task leaves a worker of the right type.
LEMMA ForgetType ==
  ASSUME TypeOK, NEW w \in Workers, Forget(w)
  PROVE  /\ pc' \in [Workers -> {"idle", "lookup", "calling", "retry", "denormalise",
                                 "record", "recompute", "commit", "ack"}]
         /\ msg' \in [Workers -> Messages \cup {None}]
         /\ outcome' \in [Workers -> Outcomes]
         /\ counted' \in [Workers -> BOOLEAN]
         /\ seen' \in [Workers -> Row]
<1>1. NoRow \in Row
  BY DEF NoRow, Row, Statuses
<1> QED BY <1>1 DEF Forget, Goto, TypeOK, Outcomes

LEMMA InitType == Init => TypeOK
<1> SUFFICES ASSUME Init PROVE TypeOK
  OBVIOUS
<1>1. NoRow \in Row
  BY DEF NoRow, Row, Statuses
<1> QED BY <1>1, PatentsAssumption, BoundsAssumption DEF Init, TypeOK, Outcomes

\* A row with another status is a row; a message retried in time a message.
LEMMA RowWithStatus ==
  ASSUME NEW row \in Row, NEW s \in Statuses
  PROVE  [row EXCEPT !.status = s] \in Row
BY DEF Row

LEMMA RetriedMessage ==
  ASSUME NEW m \in Messages, m.retries < MaxRetries
  PROVE  [m EXCEPT !.retries = @ + 1] \in Messages
BY BoundsAssumption DEF Messages

\* Every action keeps the types, given that busy workers hold messages.
LEMMA NextType ==
  ASSUME TypeOK, BusyHoldsMessage, [Next]_vars
  PROVE  TypeOK'
<1> USE DEF TypeOK
<1>1. ASSUME NEW r \in Runs, NEW enqueue \in BOOLEAN, CreateRun(r, enqueue)
      PROVE  TypeOK'
  <2>1. Cohort \subseteq Patents
    BY DEF Cohort
  <2>2. Cardinality(Cohort) \in Nat
    BY <2>1, FiniteAssumption, FS_Subset, FS_CardinalityType
  <2>3. [NoRow EXCEPT !.status = "pending", !.cohort_size = Cardinality(Cohort)] \in Row
    BY <2>2 DEF NoRow, Row, Statuses
  <2> QED BY <1>1, <2>3 DEF CreateRun, launchVars, dataVars, workerVars, history
<1>2. ASSUME NEW r \in Runs, ResolveCohort(r)
      PROVE  TypeOK'
  BY <1>2 DEF ResolveCohort, Cohort, dataVars, workerVars, history
<1>3. ASSUME NEW r \in Runs, NEW p \in Patents, Dispatch(r, p)
      PROVE  TypeOK'
  <2>1. [run |-> r, patent |-> p, retries |-> 0, copy |-> 0] \in Messages
    BY BoundsAssumption DEF Messages
  <2> QED BY <1>3, <2>1 DEF Dispatch, dataVars, workerVars, history
<1>4. ASSUME NEW r \in Runs, FinishLaunch(r)
      PROVE  TypeOK'
  <2> DEFINE s == IF sent[r] = {} THEN "succeeded" ELSE "running"
  <2>1. runs[r] \in Row
    OBVIOUS
  <2>2. s \in Statuses
    BY DEF Statuses, Final
  <2>3. [runs[r] EXCEPT !.status = s] \in Row
    BY <2>1, <2>2, RowWithStatus
  <2>4. runs' = [runs EXCEPT ![r] = [runs[r] EXCEPT !.status = s]]
    BY <1>4 DEF FinishLaunch
  <2>5. runs' \in [Runs -> Row]
    BY <2>3, <2>4
  <2>6. relaunched' \in [Runs -> BOOLEAN]
    BY <1>4 DEF FinishLaunch
  <2> QED BY <1>4, <2>5, <2>6 DEF FinishLaunch, dataVars, workerVars
<1>5. ASSUME NEW r \in Runs, AbandonLaunch(r)
      PROVE  TypeOK'
  BY <1>5, BoundsAssumption DEF AbandonLaunch, dataVars, workerVars, history
<1>6. ASSUME NEW p \in Patents, Ingest(p)
      PROVE  TypeOK'
  BY <1>6 DEF Ingest, launchVars, workerVars, history
<1>7. ASSUME NEW w \in Workers, NEW m \in queue, Take(w, m)
      PROVE  TypeOK'
  BY <1>7 DEF Take, Goto, launchVars, dataVars, history, Outcomes
<1>8. ASSUME NEW w \in Workers, Lookup(w)
      PROVE  TypeOK'
  BY <1>8 DEF Lookup, Goto, launchVars, dataVars, history
<1>9. ASSUME NEW w \in Workers, ProviderAnswers(w)
      PROVE  TypeOK'
  <2>1. msg[w] \in Messages
    BY <1>9 DEF ProviderAnswers, BusyHoldsMessage, Busy
  <2>2. msg[w].run \in Runs /\ Key[msg[w].patent] \in Keys
    BY <2>1, KeyAssumption DEF Messages
  <2>3. \A u \in BOOLEAN : [run |-> msg[w].run, usable |-> u] \in Artifacts
    BY <2>2 DEF Artifacts
  <2> QED BY <1>9, <2>2, <2>3 DEF ProviderAnswers, Goto, launchVars, history
<1>10. ASSUME NEW w \in Workers, ProviderFails(w)
       PROVE  TypeOK'
  <2>1. msg[w].run \in Runs
    BY <1>10 DEF ProviderFails, BusyHoldsMessage, Busy, Messages
  <2> QED BY <1>10, <2>1 DEF ProviderFails, Goto, launchVars, history
<1>11. ASSUME NEW w \in Workers, Retry(w)
       PROVE  TypeOK'
  <2>1. msg[w] \in Messages
    BY <1>11 DEF Retry, BusyHoldsMessage, Busy
  <2>2. msg[w].retries < MaxRetries =>
          [msg[w] EXCEPT !.retries = @ + 1] \in Messages
    BY <2>1, RetriedMessage
  <2> QED BY <1>11, <2>2 DEF Retry, Goto, launchVars, dataVars, history
<1>12. ASSUME NEW w \in Workers, Denormalise(w)
       PROVE  TypeOK'
  <2>1. msg[w].patent \in Patents
    BY <1>12 DEF Denormalise, BusyHoldsMessage, Busy, Messages
  <2> QED BY <1>12, <2>1 DEF Denormalise, Goto, launchVars, history
<1>13. ASSUME NEW w \in Workers, Record(w)
       PROVE  TypeOK'
  BY <1>13 DEF Record, Goto, launchVars, dataVars, history
<1>14. ASSUME NEW w \in Workers, Recompute(w)
       PROVE  TypeOK'
  <2>1. msg[w].run \in Runs
    BY <1>14 DEF Recompute, BusyHoldsMessage, Busy, Messages
  <2>2. runs[msg[w].run].completed_count \in Nat /\ runs[msg[w].run].failed_count \in Nat
    BY <2>1 DEF Row
  <2>3. \A i, j \in {0, 1} :
          Aggregate(msg[w].run, runs[msg[w].run].completed_count + i,
                    runs[msg[w].run].failed_count + j) \in Row
    BY <2>1, <2>2, AggregateSound
  <2>4. seen' \in [Workers -> Row]
    BY <1>14, <2>3 DEF Recompute
  <2>5. pc' \in [Workers -> {"idle", "lookup", "calling", "retry", "denormalise",
                             "record", "recompute", "commit", "ack"}]
    BY <1>14 DEF Recompute, Goto
  <2> QED BY <1>14, <2>4, <2>5 DEF Recompute, launchVars, dataVars, history
<1>15. ASSUME NEW w \in Workers, Commit(w)
       PROVE  TypeOK'
  <2>1. msg[w].run \in Runs /\ msg[w].patent \in Patents
    BY <1>15 DEF Commit, BusyHoldsMessage, Busy, Messages
  <2>2. runs' \in [Runs -> Row]
    <3>1. runs' = [runs EXCEPT ![msg[w].run] = seen[w]]
      BY <1>15 DEF Commit
    <3>2. runs \in [Runs -> Row] /\ seen[w] \in Row
      OBVIOUS
    <3> QED BY <3>1, <3>2
  <2>3. recorded' \in [Runs -> SUBSET Patents]
    <3>1. \/ recorded' = recorded
          \/ recorded' = [recorded EXCEPT ![msg[w].run] = @ \cup {msg[w].patent}]
      BY <1>15 DEF Commit
    <3> QED BY <2>1, <3>1
  <2>4. records' \in [Runs -> [Outcomes -> Nat]]
    <3>1. PICK c : c = [records[msg[w].run] EXCEPT ![outcome[w]] = @ + 1]
      OBVIOUS
    <3>2. c \in [Outcomes -> Nat]
      BY <2>1, <3>1
    <3>3. records' = records \/ records' = [records EXCEPT ![msg[w].run] = c]
      BY <1>15, <3>1 DEF Commit
    <3> QED BY <3>2, <3>3
  <2> QED BY <1>15, <2>2, <2>3, <2>4 DEF Commit, Goto, launchVars, dataVars
<1>16. ASSUME NEW w \in Workers, Ack(w)
       PROVE  TypeOK'
  <2>1. msg[w].run \in Runs /\ msg[w].patent \in Patents
    BY <1>16 DEF Ack, BusyHoldsMessage, Busy, Messages
  <2>2. Forget(w)
    BY <1>16 DEF Ack
  <2>3. ended' \in [Runs -> SUBSET Patents]
    BY <1>16, <2>1 DEF Ack
  <2> QED BY <1>16, <2>2, <2>3, ForgetType DEF Ack, launchVars, dataVars
<1>17. ASSUME NEW w \in Workers, Crash(w)
       PROVE  TypeOK'
  <2>1. msg[w] \in Messages /\ Forget(w)
    BY <1>17 DEF Crash, BusyHoldsMessage, Busy
  <2>2. faults' \in 0..MaxFaults
    BY <1>17, BoundsAssumption DEF Crash
  <2> QED BY <1>17, <2>1, <2>2, ForgetType DEF Crash, launchVars, dataVars, history
<1>18. ASSUME NEW w \in Workers, LoseChild(w)
       PROVE  TypeOK'
  <2>1. msg[w].run \in Runs /\ msg[w].patent \in Patents /\ Forget(w)
    BY <1>18 DEF LoseChild, BusyHoldsMessage, Busy, Messages
  <2>2. faults' \in 0..MaxFaults
    BY <1>18, BoundsAssumption DEF LoseChild
  <2>3. ended' \in [Runs -> SUBSET Patents]
    BY <1>18, <2>1 DEF LoseChild
  <2> QED BY <1>18, <2>1, <2>2, <2>3, ForgetType DEF LoseChild, launchVars, dataVars
<1>19. ASSUME NEW w \in Workers, Redeliver(w)
       PROVE  TypeOK'
  <2>1. msg[w] \in Messages
    BY <1>19 DEF Redeliver, BusyHoldsMessage, Busy
  <2>2. faults' \in 0..MaxFaults /\ faults + 1 \in 0..MaxFaults
    BY <1>19, BoundsAssumption DEF Redeliver
  <2>3. [msg[w] EXCEPT !.copy = faults + 1] \in Messages
    BY <2>1, <2>2 DEF Messages
  <2> QED BY <1>19, <2>2, <2>3 DEF Redeliver, launchVars, dataVars, workerVars, history
<1>20. ASSUME UNCHANGED vars
       PROVE  TypeOK'
  BY <1>20 DEF vars, launchVars, dataVars, workerVars, history
<1> QED
  BY <1>1, <1>2, <1>3, <1>4, <1>5, <1>6, <1>7, <1>8, <1>9, <1>10, <1>11, <1>12,
     <1>13, <1>14, <1>15, <1>16, <1>17, <1>18, <1>19, <1>20
     DEF Next, LaunchStep, WorkerStep
-----------------------------------------------------------------------------
(* The invariant is inductive.                                             *)

\* The records of a run are counted by a natural number, and one more record
\* adds at most one.
LEMMA RecordedFinite ==
  ASSUME TypeOK, NEW r \in Runs, NEW p
  PROVE  /\ Cardinality(recorded[r]) \in Nat
         /\ Cardinality(recorded[r] \cup {p}) \in Nat
         /\ Cardinality(recorded[r] \cup {p}) <= Cardinality(recorded[r]) + 1
<1>1. IsFiniteSet(recorded[r])
  BY FiniteAssumption, FS_Subset DEF TypeOK
<1>2. Cardinality(recorded[r]) \in Nat
  BY <1>1, FS_CardinalityType
<1>3. IsFiniteSet(recorded[r] \cup {p})
  BY <1>1, FS_AddElement
<1>4. Cardinality(recorded[r] \cup {p}) \in Nat
  BY <1>3, FS_CardinalityType
<1>5. Cardinality(recorded[r] \cup {p}) =
        IF p \in recorded[r] THEN Cardinality(recorded[r])
                             ELSE Cardinality(recorded[r]) + 1
  BY <1>1, FS_AddElement
<1> QED BY <1>2, <1>4, <1>5

LEMMA InitInv == Init => IInv
<1> SUFFICES ASSUME Init PROVE IInv
  OBVIOUS
<1>1. TypeOK
  BY InitType
<1>2. \A w \in Workers : ~Busy(w) /\ ~counted[w] /\ pc[w] = "idle"
  BY DEF Init, Busy
<1>3. \A r \in Runs : /\ recorded[r] = {} /\ Cardinality(recorded[r]) = 0
                      /\ runs[r] = NoRow /\ ~relaunched[r] /\ launch[r] = "none"
  BY FS_EmptySet DEF Init
<1>4. queue = {}
  BY DEF Init
<1> QED
  BY <1>1, <1>2, <1>3, <1>4
     DEF IInv, BusyHoldsMessage, AbsentIsUntouched, RelaunchedIsClosed,
         LockDiscipline, UnlockedIsStale, SeenIsSound, SeenCountsOneMore,
         CountersCoverRecords, AllRecordedIsFinal, NoRow

\* Steps of the LLM call and of the broker do not touch the row, the lock or
\* the records: they keep the invariant.
LEMMA QuietStep ==
  ASSUME IInv, TypeOK', NEW w \in Workers, Busy(w),
         pc[w] \notin {"recompute", "commit"},
         NEW s \in {"lookup", "calling", "retry", "denormalise", "record", "ack"},
         pc' = [pc EXCEPT ![w] = s],
         UNCHANGED <<runs, launch, msg, counted, seen, recorded, relaunched>>,
         \A m \in queue' : m \in queue \/ m.run = msg[w].run
  PROVE  IInv'
<1> USE DEF IInv, Busy
<1>1. \A v \in Workers : (v # w => pc'[v] = pc[v]) /\ pc'[w] = s
  BY DEF TypeOK
<1>2. BusyHoldsMessage'
  BY <1>1 DEF BusyHoldsMessage
<1>3. AbsentIsUntouched'
  BY <1>1 DEF AbsentIsUntouched
<1>4. LockDiscipline'
  BY <1>1 DEF LockDiscipline
<1>5. UnlockedIsStale'
  BY <1>1 DEF UnlockedIsStale
<1>6. SeenIsSound' /\ SeenCountsOneMore'
  BY <1>1 DEF SeenIsSound, SeenCountsOneMore
<1>7. RelaunchedIsClosed' /\ CountersCoverRecords' /\ AllRecordedIsFinal'
  BY DEF RelaunchedIsClosed, CountersCoverRecords, AllRecordedIsFinal
<1> QED BY <1>2, <1>3, <1>4, <1>5, <1>6, <1>7

\* A worker that forgets its task, by acknowledging it or by dying, gives up
\* the lock; what it had not committed is gone.
LEMMA ForgetStep ==
  ASSUME IInv, TypeOK', NEW w \in Workers, Busy(w), Forget(w),
         UNCHANGED <<runs, launch, recorded, relaunched>>,
         \A m \in queue' : m \in queue \/ m.run = msg[w].run
  PROVE  IInv'
<1> USE DEF IInv, Busy
<1>1. \A v \in Workers : v # w => /\ pc'[v] = pc[v] /\ msg'[v] = msg[v]
                                 /\ counted'[v] = counted[v] /\ seen'[v] = seen[v]
  BY DEF TypeOK, Forget, Goto
<1>2. pc'[w] = "idle" /\ ~counted'[w]
  BY DEF TypeOK, Forget, Goto
<1>3. BusyHoldsMessage'
  BY <1>1, <1>2 DEF BusyHoldsMessage
<1>4. AbsentIsUntouched'
  BY <1>1, <1>2 DEF AbsentIsUntouched
<1>5. LockDiscipline'
  BY <1>1, <1>2 DEF LockDiscipline
<1>6. UnlockedIsStale'
  BY <1>1, <1>2 DEF UnlockedIsStale
<1>7. SeenIsSound' /\ SeenCountsOneMore'
  BY <1>1, <1>2 DEF SeenIsSound, SeenCountsOneMore
<1>8. RelaunchedIsClosed' /\ CountersCoverRecords' /\ AllRecordedIsFinal'
  BY DEF RelaunchedIsClosed, CountersCoverRecords, AllRecordedIsFinal
<1> QED BY <1>3, <1>4, <1>5, <1>6, <1>7, <1>8

\* The create_run request keeps the invariant.
LEMMA LaunchInv ==
  ASSUME IInv, TypeOK', NEW r \in Runs,
         (\E enqueue \in BOOLEAN : CreateRun(r, enqueue)) \/ LaunchStep(r)
           \/ AbandonLaunch(r)
  PROVE  IInv'
<1> USE DEF IInv, Busy
<1>1. ASSUME NEW enqueue \in BOOLEAN, CreateRun(r, enqueue)
      PROVE  IInv'
  <2> USE <1>1 DEF CreateRun, dataVars, workerVars, history
  <2>1. \A q \in Runs : q # r => runs'[q] = runs[q] /\ launch'[q] = launch[q]
    BY DEF TypeOK
  <2>2. /\ runs'[r].status = "pending"
        /\ runs'[r].completed_count = 0 /\ runs'[r].failed_count = 0
    BY DEF TypeOK, NoRow
  <2>3. /\ recorded[r] = {} /\ ~relaunched[r] /\ runs[r].status = "absent"
        /\ \A w \in Workers : Busy(w) => msg[w].run # r
    BY DEF AbsentIsUntouched, RelaunchedIsClosed, TypeOK
  <2>4. BusyHoldsMessage'
    BY DEF BusyHoldsMessage
  <2>5. AbsentIsUntouched'
    BY <2>1, <2>2 DEF AbsentIsUntouched
  <2>6. RelaunchedIsClosed'
    BY <2>1, <2>3 DEF RelaunchedIsClosed
  <2>7. \A w \in Workers : Busy(w) => /\ msg[w].run \in Runs
                                      /\ runs'[msg[w].run] = runs[msg[w].run]
    BY <2>1, <2>3 DEF BusyHoldsMessage, Messages
  <2>8. LockDiscipline'
    BY <2>7 DEF LockDiscipline
  <2>9. UnlockedIsStale'
    BY <2>7 DEF UnlockedIsStale
  <2>10. SeenIsSound' /\ SeenCountsOneMore'
    BY <2>7 DEF SeenIsSound, SeenCountsOneMore
  <2>11. Cardinality(recorded[r]) = 0
    BY <2>3, FS_EmptySet
  <2>12. \A q \in Runs : recorded'[q] = recorded[q] /\ relaunched'[q] = relaunched[q]
    OBVIOUS
  <2>13. CountersCoverRecords'
    <3> SUFFICES ASSUME NEW q \in Runs, ~relaunched'[q]
                 PROVE  Cardinality(recorded'[q])
                          <= runs'[q].completed_count + runs'[q].failed_count
      BY DEF CountersCoverRecords
    <3>1. CASE q = r
      BY <3>1, <2>2, <2>11, <2>12
    <3>2. CASE q # r
      BY <3>2, <2>1, <2>12 DEF CountersCoverRecords
    <3> QED BY <3>1, <3>2
  <2>14. AllRecordedIsFinal'
    <3> SUFFICES ASSUME NEW q \in Runs, ~relaunched'[q], recorded'[q] # {},
                        Cardinality(recorded'[q]) >= runs'[q].cohort_size
                 PROVE  runs'[q].status \in Final
      BY DEF AllRecordedIsFinal
    <3>1. q # r
      BY <2>3, <2>12
    <3> QED BY <3>1, <2>1, <2>12 DEF AllRecordedIsFinal
  <2> QED BY <2>4, <2>5, <2>6, <2>8, <2>9, <2>10, <2>13, <2>14
<1>2. ASSUME ResolveCohort(r) \/ AbandonLaunch(r)
      PROVE  IInv'
  <2>1. /\ UNCHANGED <<runs, queue, pc, msg, counted, seen, recorded, relaunched>>
        /\ launch[r] \notin {"none", "closed"}
        /\ \A q \in Runs : q # r => launch'[q] = launch[q]
    BY <1>2 DEF ResolveCohort, AbandonLaunch, dataVars, workerVars, history, TypeOK
  <2>2. AbsentIsUntouched'
    BY <2>1 DEF AbsentIsUntouched
  <2>3. RelaunchedIsClosed'
    BY <2>1 DEF RelaunchedIsClosed
  <2> QED
    BY <2>1, <2>2, <2>3
       DEF BusyHoldsMessage, LockDiscipline, UnlockedIsStale, SeenIsSound,
           SeenCountsOneMore, CountersCoverRecords, AllRecordedIsFinal
<1>3. ASSUME NEW p \in Patents, Dispatch(r, p)
      PROVE  IInv'
  <2>1. /\ UNCHANGED <<runs, launch, pc, msg, counted, seen, recorded, relaunched>>
        /\ launch[r] = "dispatching"
        /\ \A m \in queue' : m \in queue \/ m.run = r
    BY <1>3 DEF Dispatch, dataVars, workerVars, history
  <2>2. AbsentIsUntouched'
    BY <2>1 DEF AbsentIsUntouched
  <2> QED
    BY <2>1, <2>2
       DEF BusyHoldsMessage, RelaunchedIsClosed, LockDiscipline, UnlockedIsStale,
           SeenIsSound, SeenCountsOneMore, CountersCoverRecords, AllRecordedIsFinal
<1>4. ASSUME FinishLaunch(r)
      PROVE  IInv'
  <2>1. /\ UNCHANGED <<queue, pc, msg, counted, seen, recorded>>
        /\ launch[r] = "dispatching" /\ launch'[r] = "closed"
        /\ relaunched'[r] <=> runs[r].status \in Final
        /\ \A w \in Workers : counted[w] => msg[w].run # r
        /\ \A q \in Runs : q # r => /\ launch'[q] = launch[q]
                                     /\ runs'[q] = runs[q]
                                     /\ relaunched'[q] = relaunched[q]
    <3>1. UNCHANGED <<queue, pc, msg, counted, seen, recorded>>
      BY <1>4 DEF FinishLaunch, dataVars, workerVars
    <3>2. launch[r] = "dispatching" /\ launch'[r] = "closed"
      BY <1>4 DEF FinishLaunch, TypeOK
    <3>3. relaunched'[r] <=> runs[r].status \in Final
      BY <1>4, Zenon DEF FinishLaunch, TypeOK
    <3>4. \A w \in Workers : counted[w] => msg[w].run # r
      BY <1>4 DEF FinishLaunch
    <3>5. \A q \in Runs : q # r => launch'[q] = launch[q] /\ runs'[q] = runs[q]
      BY <1>4 DEF FinishLaunch, TypeOK
    <3>6. \A q \in Runs : q # r => relaunched'[q] = relaunched[q]
      BY <1>4 DEF FinishLaunch, TypeOK
    <3> QED BY <3>1, <3>2, <3>3, <3>4, <3>5, <3>6
  <2>2. /\ runs'[r].status \in {"succeeded", "running"}
        /\ runs'[r].cohort_size = runs[r].cohort_size
        /\ runs'[r].completed_count = runs[r].completed_count
        /\ runs'[r].failed_count = runs[r].failed_count
    BY <1>4 DEF FinishLaunch, TypeOK, Row
  <2>3. ~relaunched[r]
    BY <2>1 DEF RelaunchedIsClosed
  <2>4. \A w \in Workers : Busy(w) => msg[w].run \in Runs
    BY DEF BusyHoldsMessage, Messages
  <2>5. BusyHoldsMessage'
    BY <2>1 DEF BusyHoldsMessage
  <2>6. AbsentIsUntouched'
    BY <2>1, <2>2 DEF AbsentIsUntouched
  <2>7. RelaunchedIsClosed'
    BY <2>1 DEF RelaunchedIsClosed
  <2>8. LockDiscipline'
    BY <2>1, <2>4 DEF LockDiscipline
  <2>9. UnlockedIsStale'
    BY <2>1, <2>2, <2>3, <2>4 DEF UnlockedIsStale
  <2>10. \A q \in Runs : /\ runs'[q].cohort_size = runs[q].cohort_size
                         /\ runs'[q].completed_count = runs[q].completed_count
                         /\ runs'[q].failed_count = runs[q].failed_count
    BY <2>1, <2>2
  <2>11. SeenIsSound' /\ SeenCountsOneMore'
    BY <2>1, <2>4, <2>10 DEF SeenIsSound, SeenCountsOneMore
  <2>12. CountersCoverRecords'
    BY <2>1, <2>3, <2>10 DEF CountersCoverRecords
  <2>13. AllRecordedIsFinal'
    BY <2>1, <2>3, <2>10 DEF AllRecordedIsFinal
  <2> QED BY <2>5, <2>6, <2>7, <2>8, <2>9, <2>11, <2>12, <2>13
<1> QED BY <1>1, <1>2, <1>3, <1>4 DEF LaunchStep

\* A worker that starts a task keeps the invariant.
LEMMA TakeInv ==
  ASSUME IInv, TypeOK', NEW w \in Workers, NEW m \in queue, Take(w, m)
  PROVE  IInv'
<1> USE DEF IInv, Busy
<1>1. /\ UNCHANGED <<runs, launch, counted, seen, recorded, relaunched>>
      /\ queue' \subseteq queue
      /\ pc[w] = "idle" /\ pc'[w] \in {"record", "lookup"}
      /\ msg'[w] = m
      /\ \A v \in Workers : v # w => pc'[v] = pc[v] /\ msg'[v] = msg[v]
  BY DEF Take, Goto, TypeOK, launchVars, dataVars, history
<1>2. ~counted[w]
  BY <1>1 DEF LockDiscipline
<1>3. BusyHoldsMessage'
  BY <1>1 DEF BusyHoldsMessage, TypeOK
<1>4. AbsentIsUntouched'
  BY <1>1 DEF AbsentIsUntouched
<1>5. LockDiscipline'
  BY <1>1, <1>2 DEF LockDiscipline
<1>6. UnlockedIsStale'
  BY <1>1 DEF UnlockedIsStale
<1>7. SeenIsSound' /\ SeenCountsOneMore'
  BY <1>1 DEF SeenIsSound, SeenCountsOneMore
<1>8. RelaunchedIsClosed' /\ CountersCoverRecords' /\ AllRecordedIsFinal'
  BY <1>1 DEF RelaunchedIsClosed, CountersCoverRecords, AllRecordedIsFinal
<1> QED BY <1>3, <1>4, <1>5, <1>6, <1>7, <1>8

\* Taking the row lock keeps the invariant: the lock is taken on an open row
\* no other worker has locked, and not taken on a final one.
LEMMA RecordInv ==
  ASSUME IInv, TypeOK', NEW w \in Workers, Record(w)
  PROVE  IInv'
<1> USE DEF IInv, Busy
<1>1. /\ UNCHANGED <<runs, launch, queue, msg, seen, recorded, relaunched>>
      /\ pc[w] = "record" /\ pc'[w] = "recompute"
      /\ \A v \in Workers \ {w} : counted[v] => msg[v].run # msg[w].run
      /\ \A v \in Workers : v # w => pc'[v] = pc[v]
  BY DEF Record, RowFree, Goto, TypeOK, launchVars, dataVars, history
<1>2. \A v \in Workers : v # w => counted'[v] = counted[v]
  BY DEF Record, TypeOK
<1>3. counted'[w] <=> runs[msg[w].run].status \notin Final
  BY DEF Record, TypeOK
<1>4. BusyHoldsMessage'
  BY <1>1 DEF BusyHoldsMessage
<1>5. AbsentIsUntouched'
  BY <1>1 DEF AbsentIsUntouched
<1>6. LockDiscipline'
  BY <1>1, <1>2, <1>3 DEF LockDiscipline
<1>7. UnlockedIsStale'
  BY <1>1, <1>2, <1>3 DEF UnlockedIsStale
<1>8. SeenIsSound' /\ SeenCountsOneMore'
  BY <1>1, <1>2 DEF SeenIsSound, SeenCountsOneMore
<1>9. RelaunchedIsClosed' /\ CountersCoverRecords' /\ AllRecordedIsFinal'
  BY <1>1 DEF RelaunchedIsClosed, CountersCoverRecords, AllRecordedIsFinal
<1> QED BY <1>4, <1>5, <1>6, <1>7, <1>8, <1>9

\* Reading the row and its artifacts keeps the invariant: what the lock holder
\* sees counts its own task on top of the committed row.
LEMMA RecomputeInv ==
  ASSUME IInv, TypeOK', NEW w \in Workers, Recompute(w)
  PROVE  IInv'
<1> USE DEF IInv, Busy
<1> DEFINE r == msg[w].run
           add(kind) == IF counted[w] /\ outcome[w] = kind THEN 1 ELSE 0
           c == runs[r].completed_count + add("completed")
           f == runs[r].failed_count + add("failed")
<1>1. /\ UNCHANGED <<runs, launch, queue, msg, counted, recorded, relaunched>>
      /\ pc[w] = "recompute"
      /\ \A v \in Workers : v # w => pc'[v] = pc[v] /\ seen'[v] = seen[v]
  BY DEF Recompute, Goto, TypeOK, launchVars, dataVars, history
<1>2. /\ r \in Runs /\ runs[r].status # "absent"
      /\ runs[r].completed_count \in Nat /\ runs[r].failed_count \in Nat
  BY <1>1 DEF BusyHoldsMessage, Messages, AbsentIsUntouched, TypeOK, Row
<1>3. CASE runs[r].status \in Final
  <2>1. pc' = [pc EXCEPT ![w] = "ack"] /\ seen' = seen
    BY <1>3 DEF Recompute, Goto
  <2>2. ~counted[w]
    BY <1>3, <1>1 DEF LockDiscipline
  <2>3. pc'[w] = "ack"
    BY <2>1 DEF TypeOK
  <2>4. BusyHoldsMessage'
    BY <1>1 DEF BusyHoldsMessage
  <2>5. AbsentIsUntouched'
    BY <1>1 DEF AbsentIsUntouched
  <2>6. LockDiscipline'
    BY <1>1, <2>2 DEF LockDiscipline
  <2>7. UnlockedIsStale'
    BY <1>1, <2>3 DEF UnlockedIsStale
  <2>8. SeenIsSound' /\ SeenCountsOneMore'
    BY <1>1, <2>3 DEF SeenIsSound, SeenCountsOneMore
  <2>9. RelaunchedIsClosed' /\ CountersCoverRecords' /\ AllRecordedIsFinal'
    BY <1>1 DEF RelaunchedIsClosed, CountersCoverRecords, AllRecordedIsFinal
  <2> QED BY <2>4, <2>5, <2>6, <2>7, <2>8, <2>9
<1>4. CASE runs[r].status \notin Final
  <2>1. pc'[w] = "commit" /\ seen'[w] = Aggregate(r, c, f)
    BY <1>4 DEF Recompute, Goto, TypeOK
  <2>2. c \in Nat /\ f \in Nat
    BY <1>2
  <2>3. counted[w] => c + f = runs[r].completed_count + runs[r].failed_count + 1
    BY <1>2 DEF TypeOK, Outcomes
  <2> HIDE DEF c, f
  <2>4. /\ seen'[w].status # "absent"
        /\ seen'[w].cohort_size = runs[r].cohort_size
        /\ seen'[w].completed_count >= c /\ seen'[w].failed_count >= f
        /\ seen'[w].completed_count + seen'[w].failed_count >= seen'[w].cohort_size
             => seen'[w].status \in Final
    BY <1>2, <2>1, <2>2, AggregateSound
  <2>5. seen'[w].completed_count \in Nat /\ seen'[w].failed_count \in Nat
    BY DEF TypeOK, Row
  <2>6. BusyHoldsMessage'
    BY <1>1 DEF BusyHoldsMessage
  <2>7. AbsentIsUntouched'
    BY <1>1 DEF AbsentIsUntouched
  <2>8. LockDiscipline'
    BY <1>1, <2>1 DEF LockDiscipline
  <2>9. ~counted[w] => relaunched[r]
    BY <1>1, <1>4 DEF UnlockedIsStale
  <2>10. UnlockedIsStale'
    BY <1>1, <2>1, <2>9 DEF UnlockedIsStale
  <2>11. SeenIsSound'
    BY <1>1, <2>4 DEF SeenIsSound
  <2>12. SeenCountsOneMore'
    BY <1>1, <1>2, <2>2, <2>3, <2>4, <2>5 DEF SeenCountsOneMore
  <2>13. RelaunchedIsClosed' /\ CountersCoverRecords' /\ AllRecordedIsFinal'
    BY <1>1 DEF RelaunchedIsClosed, CountersCoverRecords, AllRecordedIsFinal
  <2> QED BY <2>6, <2>7, <2>8, <2>10, <2>11, <2>12, <2>13
<1> QED BY <1>3, <1>4

\* The commit keeps the invariant.  The lock holder writes one count more than
\* the row and one record more; a worker without the lock writes only to a row
\* that create_run has overwritten.
LEMMA CommitInv ==
  ASSUME IInv, TypeOK', NEW w \in Workers, Commit(w)
  PROVE  IInv'
<1> USE DEF IInv, Busy
<1> DEFINE r == msg[w].run
           p == msg[w].patent
<1>1. /\ UNCHANGED <<launch, queue, msg, seen, relaunched>>
      /\ pc[w] = "commit" /\ pc'[w] = "ack"
      /\ \A v \in Workers : v # w => pc'[v] = pc[v]
  BY DEF Commit, Goto, TypeOK, launchVars, dataVars
<1>2. ~counted'[w] /\ \A v \in Workers : v # w => counted'[v] = counted[v]
  BY DEF Commit, TypeOK
<1>3. r \in Runs /\ msg[w] \in Messages
  BY <1>1 DEF BusyHoldsMessage, Messages
<1>4. runs'[r] = seen[w] /\ \A q \in Runs : q # r => runs'[q] = runs[q]
  BY <1>3 DEF Commit, TypeOK
<1>5. \A v \in Workers \ {w} : counted[v] => msg[v].run # r
  BY DEF Commit, RowFree
<1>6. /\ seen[w].status # "absent"
      /\ seen[w].cohort_size = runs[r].cohort_size
      /\ seen[w].completed_count + seen[w].failed_count >= seen[w].cohort_size
           => seen[w].status \in Final
  BY <1>1 DEF SeenIsSound
<1>7. \A q \in Runs : q # r => recorded'[q] = recorded[q]
  BY <1>3 DEF Commit, TypeOK
<1>8. recorded'[r] = IF counted[w] THEN recorded[r] \cup {p} ELSE recorded[r]
  BY <1>3 DEF Commit, TypeOK
<1>9. runs[r].status # "absent"
  BY <1>1, <1>3 DEF AbsentIsUntouched
<1>10. BusyHoldsMessage'
  BY <1>1 DEF BusyHoldsMessage
<1>11. AbsentIsUntouched'
  BY <1>1, <1>4, <1>6, <1>7 DEF AbsentIsUntouched
<1>12. RelaunchedIsClosed'
  BY <1>1 DEF RelaunchedIsClosed
<1>13. \A v \in Workers : Busy(v) => msg[v].run \in Runs
  BY DEF BusyHoldsMessage, Messages
<1>14. LockDiscipline'
  <2> SUFFICES ASSUME NEW v \in Workers, counted'[v]
               PROVE  /\ pc'[v] \in {"recompute", "commit"}
                      /\ runs'[msg'[v].run].status \notin Final
                      /\ \A u \in Workers \ {v} :
                           counted'[u] => msg'[u].run # msg'[v].run
    BY DEF LockDiscipline
  <2>1. v # w /\ counted[v] /\ msg[v].run # r
    BY <1>2, <1>5
  <2>2. Busy(v) /\ msg[v].run \in Runs
    BY <2>1, <1>13 DEF LockDiscipline
  <2> QED BY <1>1, <1>2, <1>4, <2>1, <2>2 DEF LockDiscipline
<1>15. UnlockedIsStale'
  <2> SUFFICES ASSUME NEW v \in Workers, ~counted'[v], pc'[v] # "idle"
               PROVE  /\ pc'[v] = "recompute" =>
                           runs'[msg'[v].run].status \in Final \/ relaunched'[msg'[v].run]
                      /\ pc'[v] = "commit" => relaunched'[msg'[v].run]
    BY DEF UnlockedIsStale
  <2>1. CASE v = w
    BY <1>1, <2>1
  <2>2. CASE v # w /\ msg[v].run # r
    BY <1>1, <1>2, <1>4, <1>13, <2>2 DEF UnlockedIsStale
  <2>3. CASE v # w /\ msg[v].run = r
    <3>1. pc[v] = pc'[v] /\ ~counted[v]
      BY <1>1, <1>2, <2>3
    <3>2. pc[v] = "recompute" => runs[r].status \in Final \/ relaunched[r]
      BY <3>1, <2>3 DEF UnlockedIsStale
    <3>3. counted[w] \/ relaunched[r]
      BY <1>1 DEF UnlockedIsStale
    <3>4. counted[w] => runs[r].status \notin Final
      BY DEF LockDiscipline
    <3>5. pc[v] = "commit" => relaunched[r]
      BY <3>1, <2>3 DEF UnlockedIsStale
    <3> QED BY <1>1, <2>3, <3>1, <3>2, <3>3, <3>4, <3>5
  <2> QED BY <2>1, <2>2, <2>3
<1>16. SeenIsSound'
  <2>1. \A q \in Runs : runs'[q].cohort_size = runs[q].cohort_size
    BY <1>4, <1>6
  <2> QED BY <1>1, <1>13, <2>1 DEF SeenIsSound
<1>17. SeenCountsOneMore'
  <2> SUFFICES ASSUME NEW v \in Workers, pc'[v] = "commit", counted'[v]
               PROVE  seen'[v].completed_count + seen'[v].failed_count
                        >= runs'[msg'[v].run].completed_count
                             + runs'[msg'[v].run].failed_count + 1
    BY DEF SeenCountsOneMore
  <2>1. v # w /\ counted[v] /\ msg[v].run # r /\ pc[v] = "commit"
    BY <1>1, <1>2, <1>5
  <2>2. runs'[msg[v].run] = runs[msg[v].run]
    BY <1>4, <1>13, <2>1
  <2> QED BY <1>1, <2>1, <2>2 DEF SeenCountsOneMore
<1>18. /\ Cardinality(recorded[r]) \in Nat
       /\ Cardinality(recorded[r] \cup {p}) \in Nat
       /\ Cardinality(recorded[r] \cup {p}) <= Cardinality(recorded[r]) + 1
  BY <1>3, RecordedFinite
<1>19. /\ runs[r].completed_count \in Nat /\ runs[r].failed_count \in Nat
       /\ seen[w].completed_count \in Nat /\ seen[w].failed_count \in Nat
       /\ seen[w].cohort_size \in Nat
  BY <1>3 DEF TypeOK, Row
<1>20. ~relaunched[r] =>
         Cardinality(recorded'[r]) <= seen[w].completed_count + seen[w].failed_count
  <2> SUFFICES ASSUME ~relaunched[r]
               PROVE  Cardinality(recorded'[r])
                        <= seen[w].completed_count + seen[w].failed_count
    OBVIOUS
  <2>1. counted[w]
    BY <1>1 DEF UnlockedIsStale
  <2>2. seen[w].completed_count + seen[w].failed_count
          >= runs[r].completed_count + runs[r].failed_count + 1
    BY <1>1, <2>1 DEF SeenCountsOneMore
  <2>3. Cardinality(recorded[r]) <= runs[r].completed_count + runs[r].failed_count
    BY <1>3 DEF CountersCoverRecords
  <2>4. recorded'[r] = recorded[r] \cup {p}
    BY <1>8, <2>1
  <2> QED BY <1>18, <1>19, <2>2, <2>3, <2>4
<1>21. CountersCoverRecords'
  BY <1>1, <1>4, <1>7, <1>20 DEF CountersCoverRecords
<1>22. AllRecordedIsFinal'
  <2> SUFFICES ASSUME NEW q \in Runs, ~relaunched'[q], recorded'[q] # {},
                      Cardinality(recorded'[q]) >= runs'[q].cohort_size
               PROVE  runs'[q].status \in Final
    BY DEF AllRecordedIsFinal
  <2>1. CASE q = r
    <3>1. Cardinality(recorded'[r]) \in Nat
      BY <1>8, <1>18
    <3>2. seen[w].completed_count + seen[w].failed_count >= seen[w].cohort_size
      BY <1>1, <1>4, <1>19, <1>20, <2>1, <3>1
    <3> QED BY <1>4, <1>6, <2>1, <3>2
  <2>2. CASE q # r
    BY <1>1, <1>4, <1>7, <2>2 DEF AllRecordedIsFinal
  <2> QED BY <2>1, <2>2
<1> QED BY <1>10, <1>11, <1>12, <1>14, <1>15, <1>16, <1>17, <1>21, <1>22

\* Every step of the system keeps the invariant.
LEMMA NextInv == IInv /\ [Next]_vars => IInv'
<1> SUFFICES ASSUME IInv, [Next]_vars PROVE IInv'
  OBVIOUS
<1>1. TypeOK /\ BusyHoldsMessage
  BY DEF IInv
<1>2. TypeOK'
  BY <1>1, NextType
<1>3. ASSUME NEW r \in Runs,
             (\E enqueue \in BOOLEAN : CreateRun(r, enqueue)) \/ LaunchStep(r)
               \/ AbandonLaunch(r)
      PROVE  IInv'
  BY <1>2, <1>3, LaunchInv
<1>4. ASSUME NEW p \in Patents, Ingest(p)
      PROVE  IInv'
  BY <1>2, <1>4
     DEF Ingest, launchVars, workerVars, history, IInv, BusyHoldsMessage, Busy,
         AbsentIsUntouched, RelaunchedIsClosed, LockDiscipline, UnlockedIsStale,
         SeenIsSound, SeenCountsOneMore, CountersCoverRecords, AllRecordedIsFinal
<1>5. ASSUME NEW w \in Workers, WorkerStep(w)
      PROVE  IInv'
  <2>1. ASSUME NEW m \in queue, Take(w, m) PROVE IInv'
    BY <1>2, <2>1, TakeInv
  <2>2. CASE Lookup(w)
    <3>1. /\ pc[w] = "lookup" /\ Busy(w)
          /\ UNCHANGED <<runs, launch, queue, msg, counted, seen, recorded, relaunched>>
      BY <2>2 DEF Lookup, Busy, launchVars, dataVars, history
    <3>2. \E s \in {"calling", "denormalise", "retry"} : pc' = [pc EXCEPT ![w] = s]
      BY <2>2 DEF Lookup, Goto
    <3> QED BY <1>2, <3>1, <3>2, QuietStep
  <2>3. CASE ProviderAnswers(w)
    <3>1. /\ pc[w] = "calling" /\ Busy(w)
          /\ UNCHANGED <<runs, launch, queue, msg, counted, seen, recorded, relaunched>>
      BY <2>3 DEF ProviderAnswers, Busy, launchVars, history
    <3>2. \E s \in {"ack", "denormalise", "retry"} : pc' = [pc EXCEPT ![w] = s]
      BY <2>3 DEF ProviderAnswers, Goto
    <3> QED BY <1>2, <3>1, <3>2, QuietStep
  <2>4. CASE ProviderFails(w)
    <3>1. /\ pc[w] = "calling" /\ Busy(w)
          /\ UNCHANGED <<runs, launch, queue, msg, counted, seen, recorded, relaunched>>
      BY <2>4 DEF ProviderFails, Busy, launchVars, history
    <3>2. \E s \in {"ack", "retry"} : pc' = [pc EXCEPT ![w] = s]
      BY <2>4 DEF ProviderFails, Goto
    <3> QED BY <1>2, <3>1, <3>2, QuietStep
  <2>5. CASE Retry(w)
    <3>1. /\ pc[w] = "retry" /\ Busy(w) /\ pc' = [pc EXCEPT ![w] = "ack"]
          /\ UNCHANGED <<runs, launch, msg, counted, seen, recorded, relaunched>>
      BY <2>5 DEF Retry, Goto, Busy, launchVars, dataVars, history
    <3>2. msg[w] \in Messages
      BY <1>1, <3>1 DEF BusyHoldsMessage
    <3>3. \A m \in queue' : m \in queue \/ m.run = msg[w].run
      BY <2>5, <3>2 DEF Retry, Messages
    <3> QED BY <1>2, <3>1, <3>3, QuietStep
  <2>6. CASE Denormalise(w)
    <3>1. /\ pc[w] = "denormalise" /\ Busy(w) /\ pc' = [pc EXCEPT ![w] = "record"]
          /\ UNCHANGED <<runs, launch, queue, msg, counted, seen, recorded, relaunched>>
      BY <2>6 DEF Denormalise, Goto, Busy, launchVars, history
    <3> QED BY <1>2, <3>1, QuietStep
  <2>7. CASE Record(w)
    BY <1>2, <2>7, RecordInv
  <2>8. CASE Recompute(w)
    BY <1>2, <2>8, RecomputeInv
  <2>9. CASE Commit(w)
    BY <1>2, <2>9, CommitInv
  <2>10. CASE Ack(w)
    <3>1. /\ Busy(w) /\ Forget(w)
          /\ UNCHANGED <<runs, launch, queue, recorded, relaunched>>
      BY <2>10 DEF Ack, Busy, launchVars, dataVars
    <3> QED BY <1>2, <3>1, ForgetStep
  <2> QED
    BY <1>5, <2>1, <2>2, <2>3, <2>4, <2>5, <2>6, <2>7, <2>8, <2>9, <2>10
       DEF WorkerStep
<1>6. ASSUME NEW w \in Workers, Crash(w) \/ LoseChild(w)
      PROVE  IInv'
  <2>1. /\ Busy(w) /\ Forget(w)
        /\ UNCHANGED <<runs, launch, recorded, relaunched>>
    BY <1>6 DEF Crash, LoseChild, Busy, launchVars, dataVars, history
  <2>2. \A m \in queue' : m \in queue \/ m.run = msg[w].run
    BY <1>6 DEF Crash, LoseChild
  <2> QED BY <1>2, <2>1, <2>2, ForgetStep
<1>7. ASSUME NEW w \in Workers, Redeliver(w)
      PROVE  IInv'
  <2>1. /\ Busy(w)
        /\ UNCHANGED <<runs, launch, pc, msg, counted, seen, recorded, relaunched>>
    BY <1>7 DEF Redeliver, Busy, launchVars, dataVars, workerVars, history
  <2>2. msg[w] \in Messages
    BY <1>1, <2>1 DEF BusyHoldsMessage
  <2>3. \A m \in queue' : m \in queue \/ m.run = msg[w].run
    BY <1>7, <2>2 DEF Redeliver, Messages
  <2>4. AbsentIsUntouched'
    BY <2>1, <2>3 DEF IInv, AbsentIsUntouched, Busy
  <2> QED
    BY <1>2, <2>1, <2>4
       DEF IInv, BusyHoldsMessage, Busy, RelaunchedIsClosed, LockDiscipline,
           UnlockedIsStale, SeenIsSound, SeenCountsOneMore, CountersCoverRecords,
           AllRecordedIsFinal
<1>8. ASSUME UNCHANGED vars
      PROVE  IInv'
  BY <1>2, <1>8
     DEF vars, launchVars, dataVars, workerVars, history, IInv, BusyHoldsMessage,
         Busy, AbsentIsUntouched, RelaunchedIsClosed, LockDiscipline,
         UnlockedIsStale, SeenIsSound, SeenCountsOneMore, CountersCoverRecords,
         AllRecordedIsFinal
<1> QED BY <1>3, <1>4, <1>5, <1>6, <1>7, <1>8 DEF Next
-----------------------------------------------------------------------------
(* Theorems of the specification.                                          *)

\* The inductive invariant holds in every reachable state.
THEOREM Invariance == Spec => []IInv
<1>1. Init => IInv
  BY InitInv
<1>2. IInv /\ [Next]_vars => IInv'
  BY NextInv
<1> QED BY <1>1, <1>2, PTL DEF Spec

\* Every variable of the run pipeline keeps its type.
THEOREM TypeCorrect == Spec => []TypeOK
<1>1. IInv => TypeOK
  BY DEF IInv
<1> QED BY <1>1, Invariance, PTL

\* No committed record is lost from a run's counters, however many workers
\* record at once, crash, or are delivered the same task twice.
THEOREM NoRecordLost == Spec => []CountersCoverRecords
<1>1. IInv => CountersCoverRecords
  BY DEF IInv
<1> QED BY <1>1, Invariance, PTL

\* A run whose cohort has recorded itself is final: the last recompute to
\* commit sees every record committed before it.
THEOREM RecordedRunsAreFinal == Spec => []AllRecordedIsFinal
<1>1. IInv => AllRecordedIsFinal
  BY DEF IInv
<1> QED BY <1>1, Invariance, PTL

\* Only create_run's closing UPDATE can touch a final run: the status test of
\* recompute_run_aggregates and the row lock keep every worker away from it.
THEOREM FinalStaysFrozen == Spec => FinalIsFrozen
<1>1. ASSUME IInv, [Next]_vars, NEW r \in Runs,
             runs[r].status \in Final, ~relaunched'[r]
      PROVE  runs'[r] = runs[r]
  <2> USE DEF IInv
  <2>1. ASSUME NEW q \in Runs, NEW enqueue \in BOOLEAN, CreateRun(q, enqueue)
        PROVE  runs'[r] = runs[r]
    BY <1>1, <2>1 DEF CreateRun, TypeOK, Final
  <2>2. ASSUME NEW q \in Runs, FinishLaunch(q)
        PROVE  runs'[r] = runs[r]
    <3>1. q # r
      BY <1>1, <2>2 DEF FinishLaunch, TypeOK
    <3> QED BY <2>2, <3>1 DEF FinishLaunch, TypeOK
  <2>3. ASSUME NEW w \in Workers, Commit(w)
        PROVE  runs'[r] = runs[r]
    <3>1. pc[w] = "commit" /\ UNCHANGED relaunched /\ Busy(w)
      BY <2>3 DEF Commit, Busy
    <3>2. msg[w].run # r
      BY <1>1, <3>1 DEF LockDiscipline, UnlockedIsStale
    <3> QED BY <2>3, <3>2 DEF Commit, TypeOK
  <2>4. CASE UNCHANGED runs
    BY <2>4
  <2> QED
    BY <1>1, <2>1, <2>2, <2>3, <2>4
       DEF Next, LaunchStep, WorkerStep, ResolveCohort, Dispatch, AbandonLaunch,
           Ingest, Take, Lookup, ProviderAnswers, ProviderFails, Retry,
           Denormalise, Record, Recompute, Ack, Crash, LoseChild, Redeliver, vars
<1>2. IInv /\ [Next]_vars =>
        [\A r \in Runs : (runs[r].status \in Final /\ ~relaunched'[r])
                            => runs'[r] = runs[r]]_vars
  BY <1>1
<1> QED BY <1>2, Invariance, PTL DEF Spec, FinalIsFrozen
-----------------------------------------------------------------------------
(* No task is lost.                                                        *)

\* Where the task of a patent may be: at the broker or with a worker.
Queued(r, p) == \E m \in queue : m.run = r /\ m.patent = p
Held(r, p) ==
  \E w \in Workers : pc[w] # "idle" /\ msg[w].run = r /\ msg[w].patent = p

\* A step that takes no message away from the broker or from a worker keeps
\* every task where it was.
LEMMA KeepTasks ==
  ASSUME NoTaskLost, UNCHANGED <<sent, ended>>, queue \subseteq queue',
         \A w \in Workers : pc[w] # "idle" => pc'[w] # "idle" /\ msg'[w] = msg[w]
  PROVE  NoTaskLost'
BY DEF NoTaskLost

\* A task leaves a worker by being acknowledged or by going back to the broker.
LEMMA ForgetTask ==
  ASSUME TypeOK, NoTaskLost, NEW w \in Workers, Forget(w), UNCHANGED sent,
         queue \subseteq queue',
         \A r \in Runs : ended[r] \subseteq ended'[r],
         \/ msg[w] \in queue'
         \/ msg[w].run \in Runs /\ msg[w].patent \in ended'[msg[w].run]
  PROVE  NoTaskLost'
<1> SUFFICES ASSUME NEW r \in Runs, NEW p \in sent[r] \ ended'[r]
             PROVE  Queued(r, p)' \/ Held(r, p)'
  BY DEF NoTaskLost, Queued, Held
<1>1. \A v \in Workers : v # w => pc'[v] = pc[v] /\ msg'[v] = msg[v]
  BY DEF Forget, Goto, TypeOK
<1>2. Queued(r, p) \/ Held(r, p)
  BY DEF NoTaskLost, Queued, Held
<1>3. CASE Queued(r, p)
  BY <1>3 DEF Queued
<1>4. CASE Held(r, p)
  <2>1. PICK v \in Workers : pc[v] # "idle" /\ msg[v].run = r /\ msg[v].patent = p
    BY <1>4 DEF Held
  <2>2. CASE v = w
    BY <2>1, <2>2 DEF Queued
  <2>3. CASE v # w
    BY <1>1, <2>1, <2>3 DEF Held
  <2> QED BY <2>2, <2>3
<1> QED BY <1>2, <1>3, <1>4

\* No step loses a task.
LEMMA NextKeepsTasks ==
  ASSUME IInv, NoTaskLost, [Next]_vars
  PROVE  NoTaskLost'
<1>1. TypeOK /\ BusyHoldsMessage
  BY DEF IInv
<1>2. \A w \in Workers : pc[w] # "idle" =>
        /\ msg[w] \in Messages
        /\ msg[w].run \in Runs
        /\ msg[w].patent \in Patents
  BY <1>1 DEF BusyHoldsMessage, Busy, Messages
<1>3. ASSUME NEW r \in Runs, NEW p \in Patents, Dispatch(r, p)
      PROVE  NoTaskLost'
  <2> DEFINE m == [run |-> r, patent |-> p, retries |-> 0, copy |-> 0]
  <2>1. queue' = queue \cup {m} /\ UNCHANGED <<ended, pc, msg>>
    BY <1>3 DEF Dispatch, workerVars, history
  <2>2. \A q \in Runs : sent'[q] = IF q = r THEN sent[r] \cup {p} ELSE sent[q]
    BY <1>1, <1>3 DEF Dispatch, TypeOK
  <2>3. m.run = r /\ m.patent = p
    OBVIOUS
  <2> HIDE DEF m
  <2> SUFFICES ASSUME NEW q \in Runs, NEW o \in sent'[q] \ ended[q]
               PROVE  Queued(q, o)' \/ Held(q, o)'
    BY <2>1 DEF NoTaskLost, Queued, Held
  <2>4. CASE q = r /\ o = p
    BY <2>1, <2>3, <2>4 DEF Queued
  <2>5. CASE o \in sent[q]
    BY <2>1, <2>5 DEF NoTaskLost, Queued, Held
  <2> QED BY <2>2, <2>4, <2>5
<1>4. ASSUME NEW w \in Workers, NEW m \in queue, Take(w, m)
      PROVE  NoTaskLost'
  <2>1. /\ pc[w] = "idle" /\ queue' = queue \ {m}
        /\ UNCHANGED <<sent, ended>>
    BY <1>4 DEF Take, launchVars, history
  <2>2. pc'[w] # "idle" /\ msg'[w] = m
    BY <1>1, <1>4 DEF Take, Goto, TypeOK
  <2>3. \A v \in Workers : v # w => pc'[v] = pc[v] /\ msg'[v] = msg[v]
    BY <1>1, <1>4 DEF Take, Goto, TypeOK
  <2> SUFFICES ASSUME NEW r \in Runs, NEW p \in sent[r] \ ended[r]
               PROVE  Queued(r, p)' \/ Held(r, p)'
    BY <2>1 DEF NoTaskLost, Queued, Held
  <2>4. CASE Queued(r, p)
    BY <2>1, <2>2, <2>4 DEF Queued, Held
  <2>5. CASE Held(r, p)
    BY <2>1, <2>3, <2>5 DEF Held
  <2> QED BY <2>4, <2>5 DEF NoTaskLost, Queued, Held
<1>5. ASSUME NEW w \in Workers, Ack(w) \/ LoseChild(w)
      PROVE  NoTaskLost'
  <2>1. /\ pc[w] # "idle" /\ Forget(w)
        /\ UNCHANGED <<sent, queue>>
    BY <1>5 DEF Ack, LoseChild, launchVars
  <2>2. \A r \in Runs : ended[r] \subseteq ended'[r]
    BY <1>1, <1>5 DEF Ack, LoseChild, TypeOK
  <2>3. msg[w].patent \in ended'[msg[w].run]
    BY <1>1, <1>2, <1>5, <2>1 DEF Ack, LoseChild, TypeOK
  <2> QED BY <1>1, <1>2, <2>1, <2>2, <2>3, ForgetTask
<1>6. ASSUME NEW w \in Workers, Crash(w)
      PROVE  NoTaskLost'
  <2>1. /\ Forget(w) /\ UNCHANGED <<sent, ended>>
        /\ queue' = queue \cup {msg[w]}
    BY <1>6 DEF Crash, launchVars, history
  <2> QED BY <1>1, <2>1, ForgetTask
<1>7. ASSUME NEW w \in Workers,
             \/ Lookup(w) \/ ProviderAnswers(w) \/ ProviderFails(w) \/ Retry(w)
             \/ Denormalise(w) \/ Record(w) \/ Recompute(w) \/ Commit(w)
      PROVE  NoTaskLost'
  <2>1. UNCHANGED <<sent, ended, msg>> /\ queue \subseteq queue'
    BY <1>7
       DEF Lookup, ProviderAnswers, ProviderFails, Retry, Denormalise, Record,
           Recompute, Commit, launchVars, history
  <2>2. \E s \in {"calling", "retry", "denormalise", "record", "recompute",
                  "commit", "ack"} : pc' = [pc EXCEPT ![w] = s]
    BY <1>7
       DEF Lookup, ProviderAnswers, ProviderFails, Retry, Denormalise, Record,
           Recompute, Commit, Goto
  <2>3. \A v \in Workers : pc[v] # "idle" => pc'[v] # "idle"
    BY <1>1, <2>2 DEF TypeOK
  <2> QED BY <2>1, <2>3, KeepTasks
<1>8. ASSUME NEW w \in Workers, Redeliver(w)
      PROVE  NoTaskLost'
  BY <1>8, KeepTasks DEF Redeliver, launchVars, workerVars, history
<1>9. ASSUME NEW r \in Runs,
             \/ \E enqueue \in BOOLEAN : CreateRun(r, enqueue)
             \/ ResolveCohort(r) \/ FinishLaunch(r) \/ AbandonLaunch(r)
      PROVE  NoTaskLost'
  BY <1>9, KeepTasks
     DEF CreateRun, ResolveCohort, FinishLaunch, AbandonLaunch, workerVars, history
<1>10. ASSUME (\E p \in Patents : Ingest(p)) \/ UNCHANGED vars
       PROVE  NoTaskLost'
  BY <1>10, KeepTasks DEF Ingest, vars, launchVars, workerVars, history
<1> QED
  BY <1>3, <1>4, <1>5, <1>6, <1>7, <1>8, <1>9, <1>10 DEF Next, LaunchStep, WorkerStep

\* A dispatched task is acknowledged, queued or held by a worker at all times:
\* crashes, lost children, retries and redeliveries lose none.
THEOREM TasksSurvive == Spec => []NoTaskLost
<1>1. Init => NoTaskLost
  BY DEF Init, NoTaskLost
<1>2. IInv /\ NoTaskLost /\ [Next]_vars => NoTaskLost'
  BY NextKeepsTasks
<1> QED BY <1>1, <1>2, Invariance, PTL DEF Spec
-----------------------------------------------------------------------------
(* Results and costs are backed by artifacts.                              *)

\* A complete artifact, once stored, is never replaced: the unique index admits
\* one complete artifact a key, and no code deletes one.
LEMMA ArtifactsStay ==
  ASSUME TypeOK, [Next]_vars, NEW k \in Keys, cache[k] # None
  PROVE  cache'[k] = cache[k]
<1>1. ASSUME NEW w \in Workers, ProviderAnswers(w)
      PROVE  cache'[k] = cache[k]
  BY <1>1 DEF ProviderAnswers, TypeOK
<1>2. CASE UNCHANGED cache
  BY <1>2
<1> QED
  BY <1>1, <1>2
     DEF Next, LaunchStep, WorkerStep, CreateRun, ResolveCohort, Dispatch,
         FinishLaunch, AbandonLaunch, Ingest, Take, Lookup, ProviderFails, Retry,
         Denormalise, Record, Recompute, Commit, Ack, Crash, LoseChild, Redeliver,
         dataVars, vars

Usable(p) == cache[Key[p]] # None /\ cache[Key[p]].usable

\* Usable artifacts stay usable.
LEMMA UsableStays ==
  ASSUME TypeOK, [Next]_vars, NEW p \in Patents, Usable(p)
  PROVE  Usable(p)'
BY ArtifactsStay, KeyAssumption DEF Usable

\* A worker about to denormalise has found, or has stored, a usable artifact.
DenormalisesUsable ==
  \A w \in Workers : pc[w] = "denormalise" => Usable(msg[w].patent)

\* Steps that neither denormalise nor decide to keep both facts.
LEMMA KeepResults ==
  ASSUME TypeOK, BusyHoldsMessage, [Next]_vars, DoneIsUsable, DenormalisesUsable,
         UNCHANGED done,
         \A w \in Workers : pc'[w] = "denormalise" =>
           pc[w] = "denormalise" /\ msg'[w] = msg[w]
  PROVE  DoneIsUsable' /\ DenormalisesUsable'
<1>1. DoneIsUsable'
  <2>1. \A p \in done : p \in Patents /\ Usable(p)
    BY DEF DoneIsUsable, Usable, TypeOK
  <2>2. \A p \in done : Usable(p)'
    BY <2>1, UsableStays
  <2> QED BY <2>2 DEF DoneIsUsable, Usable
<1>2. DenormalisesUsable'
  <2> SUFFICES ASSUME NEW w \in Workers, pc'[w] = "denormalise"
               PROVE  Usable(msg[w].patent)'
    BY DEF DenormalisesUsable, Usable
  <2>1. pc[w] = "denormalise" /\ Usable(msg[w].patent)
    BY DEF DenormalisesUsable
  <2>2. msg[w].patent \in Patents
    BY <2>1 DEF BusyHoldsMessage, Busy, Messages
  <2>3. msg'[w] = msg[w]
    OBVIOUS
  <2>4. cache'[Key[msg[w].patent]] = cache[Key[msg[w].patent]]
    BY <2>1, <2>2, ArtifactsStay, KeyAssumption DEF Usable
  <2> QED BY <2>1, <2>3, <2>4 DEF Usable
<1> QED BY <1>1, <1>2

\* Every step keeps both facts.
LEMMA NextKeepsResults ==
  ASSUME IInv, DoneIsUsable, DenormalisesUsable, [Next]_vars
  PROVE  DoneIsUsable' /\ DenormalisesUsable'
<1>1. TypeOK /\ BusyHoldsMessage
  BY DEF IInv
<1>2. \A w \in Workers : pc[w] # "idle" =>
        /\ msg[w].run \in Runs
        /\ msg[w].patent \in Patents
        /\ Key[msg[w].patent] \in Keys
  BY <1>1, KeyAssumption DEF BusyHoldsMessage, Busy, Messages
<1>3. \A p \in Patents : Usable(p) => Usable(p)'
  BY <1>1, UsableStays
<1>4. ASSUME NEW w \in Workers, Denormalise(w)
      PROVE  DoneIsUsable' /\ DenormalisesUsable'
  <2>1. /\ pc[w] = "denormalise" /\ done' = done \cup {msg[w].patent}
        /\ UNCHANGED <<cache, msg>>
    BY <1>4 DEF Denormalise
  <2>2. pc'[w] = "record" /\ \A v \in Workers : v # w => pc'[v] = pc[v]
    BY <1>1, <1>4 DEF Denormalise, Goto, TypeOK
  <2>3. DoneIsUsable'
    BY <2>1 DEF DoneIsUsable, DenormalisesUsable, Usable
  <2>4. DenormalisesUsable'
    BY <2>1, <2>2 DEF DenormalisesUsable, Usable
  <2> QED BY <2>3, <2>4
<1>5. ASSUME NEW w \in Workers, Lookup(w)
      PROVE  DoneIsUsable' /\ DenormalisesUsable'
  <2>1. pc[w] = "lookup" /\ UNCHANGED <<done, cache, msg>>
    BY <1>5 DEF Lookup, dataVars
  <2>2. pc'[w] = "denormalise" => Usable(msg[w].patent)
    BY <1>1, <1>5 DEF Lookup, Goto, TypeOK, Usable
  <2>3. \A v \in Workers : v # w => pc'[v] = pc[v]
    BY <1>1, <1>5 DEF Lookup, Goto, TypeOK
  <2> QED BY <2>1, <2>2, <2>3 DEF DoneIsUsable, DenormalisesUsable, Usable
<1>6. ASSUME NEW w \in Workers, ProviderAnswers(w)
      PROVE  DoneIsUsable' /\ DenormalisesUsable'
  <2> DEFINE k == Key[msg[w].patent]
  <2>1. pc[w] = "calling" /\ UNCHANGED <<done, msg>>
    BY <1>6 DEF ProviderAnswers
  <2>2. \A v \in Workers : v # w => pc'[v] = pc[v]
    BY <1>1, <1>6 DEF ProviderAnswers, Goto, TypeOK
  <2>3. PICK usable \in BOOLEAN :
          IF cache[k] = None
          THEN /\ cache' = [cache EXCEPT ![k] = [run |-> msg[w].run,
                                                 usable |-> usable]]
               /\ pc' = [pc EXCEPT ![w] = IF usable THEN "denormalise" ELSE "retry"]
          ELSE cache' = cache /\ pc' = [pc EXCEPT ![w] = "ack"]
    BY <1>6 DEF ProviderAnswers, Goto
  <2>4. pc'[w] = "denormalise" => cache'[k] # None /\ cache'[k].usable
    <3>1. CASE cache[k] # None \/ ~usable
      BY <1>1, <2>3, <3>1 DEF TypeOK
    <3>2. CASE cache[k] = None /\ usable
      <4> DEFINE a == [run |-> msg[w].run, usable |-> usable]
      <4>1. a \in Artifacts /\ a.usable
        BY <1>2, <2>1, <3>2 DEF Artifacts
      <4>2. cache'[k] = a
        BY <1>1, <1>2, <2>1, <2>3, <3>2 DEF TypeOK
      <4> QED BY <4>1, <4>2, NoneAssumption
    <3> QED BY <3>1, <3>2
  <2>5. \A p \in done : p \in Patents /\ Usable(p)
    BY <1>1 DEF DoneIsUsable, Usable, TypeOK
  <2>6. DoneIsUsable'
    BY <1>3, <2>1, <2>5 DEF DoneIsUsable, Usable
  <2>7. DenormalisesUsable'
    <3> SUFFICES ASSUME NEW v \in Workers, pc'[v] = "denormalise"
                 PROVE  Usable(msg[v].patent)'
      BY <2>1 DEF DenormalisesUsable, Usable
    <3>1. CASE v = w
      BY <2>1, <2>4, <3>1 DEF Usable
    <3>2. CASE v # w
      <4>1. pc[v] = "denormalise" /\ Usable(msg[v].patent)
        BY <2>2, <3>2 DEF DenormalisesUsable
      <4>2. cache'[Key[msg[v].patent]] = cache[Key[msg[v].patent]]
        BY <1>1, <1>2, <4>1, ArtifactsStay DEF Usable
      <4> QED BY <2>1, <4>1, <4>2 DEF Usable
    <3> QED BY <3>1, <3>2
  <2> QED BY <2>6, <2>7
<1>7. ASSUME UNCHANGED done,
             \A w \in Workers : pc'[w] = "denormalise" =>
               pc[w] = "denormalise" /\ msg'[w] = msg[w]
      PROVE  DoneIsUsable' /\ DenormalisesUsable'
  BY <1>1, <1>7, KeepResults
<1>8. ASSUME NEW w \in Workers, NEW m \in queue, Take(w, m)
      PROVE  DoneIsUsable' /\ DenormalisesUsable'
  <2>1. pc'[w] \in {"record", "lookup"} /\ UNCHANGED done
    BY <1>1, <1>8 DEF Take, Goto, TypeOK, dataVars
  <2>2. \A v \in Workers : v # w => pc'[v] = pc[v] /\ msg'[v] = msg[v]
    BY <1>1, <1>8 DEF Take, Goto, TypeOK
  <2> QED BY <1>7, <2>1, <2>2
<1>9. ASSUME NEW w \in Workers, Ack(w) \/ Crash(w) \/ LoseChild(w)
      PROVE  DoneIsUsable' /\ DenormalisesUsable'
  <2>1. Forget(w) /\ UNCHANGED done
    BY <1>9 DEF Ack, Crash, LoseChild, dataVars
  <2>2. pc'[w] = "idle" /\ \A v \in Workers : v # w => pc'[v] = pc[v] /\ msg'[v] = msg[v]
    BY <1>1, <2>1 DEF Forget, Goto, TypeOK
  <2> QED BY <1>7, <2>1, <2>2
<1>10. ASSUME NEW w \in Workers,
              \/ ProviderFails(w) \/ Retry(w) \/ Record(w) \/ Recompute(w)
              \/ Commit(w)
       PROVE  DoneIsUsable' /\ DenormalisesUsable'
  <2>1. UNCHANGED <<done, msg>>
    BY <1>10 DEF ProviderFails, Retry, Record, Recompute, Commit, dataVars
  <2>2. \E s \in {"retry", "recompute", "commit", "ack"} : pc' = [pc EXCEPT ![w] = s]
    BY <1>10 DEF ProviderFails, Retry, Record, Recompute, Commit, Goto
  <2>3. \A v \in Workers : pc'[v] = "denormalise" => pc[v] = "denormalise"
    BY <1>1, <2>2 DEF TypeOK
  <2> QED BY <1>7, <2>1, <2>3
<1>11. CASE UNCHANGED <<done, pc, msg>>
  BY <1>7, <1>11
<1> QED
  BY <1>4, <1>5, <1>6, <1>8, <1>9, <1>10, <1>11
     DEF Next, LaunchStep, WorkerStep, CreateRun, ResolveCohort, Dispatch,
         FinishLaunch, AbandonLaunch, Ingest, Redeliver, dataVars, workerVars, vars

\* A patent carries a result only if a usable complete artifact backs it:
\* there is one row for the artifact and one for the patent, and whichever
\* task, run or redelivery wrote them, they agree.
THEOREM ResultsAreUsable == Spec => []DoneIsUsable
<1>1. Init => DoneIsUsable /\ DenormalisesUsable
  BY DEF Init, DoneIsUsable, DenormalisesUsable
<1>2. IInv /\ (DoneIsUsable /\ DenormalisesUsable) /\ [Next]_vars
        => (DoneIsUsable /\ DenormalisesUsable)'
  BY NextKeepsResults
<1> QED BY <1>1, <1>2, Invariance, PTL DEF Spec
-----------------------------------------------------------------------------
(* How a row, and what a worker is about to write to it, may change.       *)

\* A row changes only when create_run inserts it, when create_run closes the
\* launch, and when a worker commits what it has computed.
LEMMA RowChanges ==
  ASSUME TypeOK, BusyHoldsMessage, [Next]_vars, NEW r \in Runs
  PROVE  \/ runs'[r] = runs[r]
         \/ runs'[r].status = "pending" /\ runs'[r].actual_cost = 0
         \/ /\ runs'[r] = [runs[r] EXCEPT !.status = IF sent[r] = {}
                                            THEN "succeeded" ELSE "running"]
            /\ sent' = sent /\ launch'[r] = "closed"
         \/ \E w \in Workers : /\ pc[w] = "commit" /\ msg[w].run = r
                               /\ runs'[r] = seen[w] /\ sent' = sent
<1>1. ASSUME NEW q \in Runs, NEW enqueue \in BOOLEAN, CreateRun(q, enqueue)
      PROVE  \/ runs'[r] = runs[r]
             \/ runs'[r].status = "pending" /\ runs'[r].actual_cost = 0
  <2> DEFINE new == [NoRow EXCEPT !.status = "pending",
                                  !.cohort_size = Cardinality(Cohort)]
  <2>1. new.status = "pending" /\ new.actual_cost = 0
    BY DEF NoRow
  <2>2. runs' = [runs EXCEPT ![q] = new]
    BY <1>1 DEF CreateRun
  <2> HIDE DEF new
  <2> QED BY <2>1, <2>2 DEF TypeOK
<1>2. ASSUME NEW q \in Runs, FinishLaunch(q)
      PROVE  \/ runs'[r] = runs[r]
             \/ /\ runs'[r] = [runs[r] EXCEPT !.status = IF sent[r] = {}
                                                THEN "succeeded" ELSE "running"]
                /\ sent' = sent /\ launch'[r] = "closed"
  BY <1>2 DEF FinishLaunch, TypeOK
<1>3. ASSUME NEW w \in Workers, Commit(w)
      PROVE  \/ runs'[r] = runs[r]
             \/ pc[w] = "commit" /\ msg[w].run = r /\ runs'[r] = seen[w] /\ sent' = sent
  BY <1>3 DEF Commit, TypeOK, launchVars
<1>4. CASE UNCHANGED runs
  BY <1>4
<1> QED
  BY <1>1, <1>2, <1>3, <1>4
     DEF Next, LaunchStep, WorkerStep, ResolveCohort, Dispatch, AbandonLaunch,
         Ingest, Take, Lookup, ProviderAnswers, ProviderFails, Retry,
         Denormalise, Record, Recompute, Ack, Crash, LoseChild, Redeliver, vars

\* A worker reaches its commit through recompute_run_aggregates only, which
\* goes on only if the row it read was not final.
LEMMA SeenChanges ==
  ASSUME TypeOK, BusyHoldsMessage, [Next]_vars, NEW w \in Workers,
         pc'[w] = "commit"
  PROVE  \/ pc[w] = "commit" /\ msg'[w] = msg[w] /\ seen'[w] = seen[w]
         \/ /\ pc[w] = "recompute" /\ msg'[w] = msg[w]
            /\ UNCHANGED <<runs, cache, sent, launch>>
            /\ runs[msg[w].run].status \notin Final
            /\ \E c, f \in Nat : seen'[w] = Aggregate(msg[w].run, c, f)
<1>1. ASSUME NEW v \in Workers, Recompute(v), pc[w] # "commit"
      PROVE  /\ pc[w] = "recompute" /\ msg'[w] = msg[w]
             /\ UNCHANGED <<runs, cache, sent, launch>>
             /\ runs[msg[w].run].status \notin Final
             /\ \E c, f \in Nat : seen'[w] = Aggregate(msg[w].run, c, f)
  <2>1. v = w
    BY <1>1 DEF Recompute, Goto, TypeOK
  <2>2. pc[w] = "recompute" /\ UNCHANGED <<msg, runs, cache, sent, launch>>
    BY <1>1, <2>1 DEF Recompute, launchVars, dataVars
  <2>3. runs[msg[w].run].status \notin Final
    BY <1>1, <2>1 DEF Recompute, Goto, TypeOK
  <2>4. msg[w].run \in Runs
    BY <2>2 DEF BusyHoldsMessage, Busy, Messages
  <2>5. runs[msg[w].run].completed_count \in Nat /\ runs[msg[w].run].failed_count \in Nat
    BY <2>4 DEF TypeOK, Row
  <2>6. \E i, j \in {0, 1} :
          seen'[w] = Aggregate(msg[w].run, runs[msg[w].run].completed_count + i,
                               runs[msg[w].run].failed_count + j)
    BY <1>1, <2>1, <2>3 DEF Recompute, TypeOK
  <2>7. \E c, f \in Nat : seen'[w] = Aggregate(msg[w].run, c, f)
    BY <2>5, <2>6
  <2> QED BY <2>2, <2>3, <2>7
<1>2. ASSUME NEW v \in Workers,
             \/ \E m \in queue : Take(v, m)
             \/ Lookup(v) \/ ProviderAnswers(v) \/ ProviderFails(v) \/ Retry(v)
             \/ Denormalise(v) \/ Record(v) \/ Commit(v)
      PROVE  pc[w] = "commit" /\ msg'[w] = msg[w] /\ seen'[w] = seen[w]
  <2>1. \E s \in {"lookup", "calling", "retry", "denormalise", "record",
                  "recompute", "ack"} : pc' = [pc EXCEPT ![v] = s]
    BY <1>2
       DEF Take, Lookup, ProviderAnswers, ProviderFails, Retry, Denormalise,
           Record, Commit, Goto
  <2>2. w # v /\ pc[w] = "commit"
    BY <2>1 DEF TypeOK
  <2>3. msg' = msg \/ \E m \in queue : msg' = [msg EXCEPT ![v] = m]
    BY <1>2
       DEF Take, Lookup, ProviderAnswers, ProviderFails, Retry, Denormalise,
           Record, Commit
  <2>4. seen' = seen
    BY <1>2
       DEF Take, Lookup, ProviderAnswers, ProviderFails, Retry, Denormalise,
           Record, Commit
  <2> QED BY <2>2, <2>3, <2>4 DEF TypeOK
<1>3. ASSUME NEW v \in Workers, Ack(v) \/ Crash(v) \/ LoseChild(v)
      PROVE  pc[w] = "commit" /\ msg'[w] = msg[w] /\ seen'[w] = seen[w]
  BY <1>3 DEF Ack, Crash, LoseChild, Forget, Goto, TypeOK
<1>4. CASE UNCHANGED workerVars
  BY <1>4 DEF workerVars
<1>5. ASSUME NEW v \in Workers, Recompute(v), pc[w] = "commit"
      PROVE  msg'[w] = msg[w] /\ seen'[w] = seen[w]
  <2>1. v # w /\ UNCHANGED msg
    BY <1>5 DEF Recompute
  <2>2. seen' = seen \/ \E row : seen' = [seen EXCEPT ![v] = row]
    BY <1>5 DEF Recompute
  <2> QED BY <2>1, <2>2 DEF TypeOK
<1> QED
  BY <1>1, <1>2, <1>3, <1>4, <1>5
     DEF Next, LaunchStep, WorkerStep, CreateRun, ResolveCohort, Dispatch,
         FinishLaunch, AbandonLaunch, Ingest, Redeliver, workerVars, vars
-----------------------------------------------------------------------------
(* The cost of a run.                                                      *)

\* A run's artifacts only become more.
LEMMA ProducedGrows ==
  ASSUME TypeOK, [Next]_vars, NEW r \in Runs
  PROVE  /\ Cardinality(Produced(r)) \in Nat
         /\ Cardinality(Produced(r)') \in Nat
         /\ Cardinality(Produced(r)) <= Cardinality(Produced(r)')
<1>1. Produced(r) \subseteq Produced(r)'
  BY ArtifactsStay DEF Produced
<1>2. IsFiniteSet(Produced(r)')
  BY FiniteAssumption, FS_Subset DEF Produced
<1>3. Cardinality(Produced(r)') \in Nat
  BY <1>2, FS_CardinalityType
<1>4. Cardinality(Produced(r)) <= Cardinality(Produced(r)')
  BY <1>1, <1>2, FS_Subset
<1> QED BY <1>3, <1>4, ProducedFinite

\* What a worker is about to write as the cost is backed as well.
CommitsBacked ==
  \A w \in Workers : pc[w] = "commit" =>
    seen[w].actual_cost <= Cardinality(Produced(msg[w].run))

\* Every step keeps both bounds.
LEMMA NextKeepsCosts ==
  ASSUME IInv, CostIsBacked, CommitsBacked, [Next]_vars
  PROVE  CostIsBacked' /\ CommitsBacked'
<1>1. TypeOK /\ BusyHoldsMessage
  BY DEF IInv
<1>2. TypeOK'
  BY <1>1, NextType
<1>3. \A w \in Workers : pc[w] # "idle" => msg[w].run \in Runs
  BY <1>1 DEF BusyHoldsMessage, Busy, Messages
<1>4. \A r \in Runs : runs[r].actual_cost \in Nat
  BY <1>1 DEF TypeOK, Row
<1>5. \A w \in Workers : seen[w].actual_cost \in Nat
  BY <1>1 DEF TypeOK, Row
<1>6. CostIsBacked'
  <2> SUFFICES ASSUME NEW r \in Runs
               PROVE  runs'[r].actual_cost <= Cardinality(Produced(r)')
    BY DEF CostIsBacked
  <2>1. /\ Cardinality(Produced(r)) \in Nat
        /\ Cardinality(Produced(r)') \in Nat
        /\ Cardinality(Produced(r)) <= Cardinality(Produced(r)')
    BY <1>1, ProducedGrows
  <2>2. CASE runs'[r].actual_cost = runs[r].actual_cost
    BY <1>4, <2>1, <2>2 DEF CostIsBacked
  <2>3. CASE runs'[r].actual_cost = 0
    BY <2>1, <2>3
  <2>4. CASE \E w \in Workers : pc[w] = "commit" /\ msg[w].run = r /\ runs'[r] = seen[w]
    <3>1. PICK w \in Workers : pc[w] = "commit" /\ msg[w].run = r /\ runs'[r] = seen[w]
      BY <2>4
    <3>2. seen[w].actual_cost <= Cardinality(Produced(r))
      BY <3>1 DEF CommitsBacked
    <3> QED BY <1>5, <2>1, <3>1, <3>2
  <2>5. CASE runs'[r] = [runs[r] EXCEPT !.status = IF sent[r] = {}
                                          THEN "succeeded" ELSE "running"]
    <3>1. runs'[r].actual_cost = runs[r].actual_cost
      BY <1>1, <2>5 DEF TypeOK, Row
    <3> QED BY <2>2, <3>1
  <2>6. CASE runs'[r] = runs[r]
    BY <2>2, <2>6
  <2> QED BY <1>1, <2>3, <2>4, <2>5, <2>6, RowChanges
<1>7. CommitsBacked'
  <2> SUFFICES ASSUME NEW w \in Workers, pc'[w] = "commit"
               PROVE  (seen[w].actual_cost <= Cardinality(Produced(msg[w].run)))'
    BY DEF CommitsBacked, Produced
  <2>1. CASE pc[w] = "commit" /\ msg'[w] = msg[w] /\ seen'[w] = seen[w]
    BY <1>1, <1>3, <1>5, <2>1, ProducedGrows DEF CommitsBacked
  <2>2. CASE /\ pc[w] = "recompute" /\ msg'[w] = msg[w] /\ UNCHANGED cache
             /\ \E c, f \in Nat : seen'[w] = Aggregate(msg[w].run, c, f)
    BY <1>1, <1>3, <2>2, ProducedGrows DEF Aggregate
  <2> QED BY <1>1, <2>1, <2>2, SeenChanges
<1> QED BY <1>6, <1>7

\* A run is never charged for more than the artifacts it produced itself:
\* neither cache hits nor retries nor a second delivery cost it anything.
THEOREM CostsAreBacked == Spec => []CostIsBacked
<1>1. Init => CostIsBacked /\ CommitsBacked
  BY ProducedFinite DEF Init, CostIsBacked, CommitsBacked, NoRow
<1>2. IInv /\ (CostIsBacked /\ CommitsBacked) /\ [Next]_vars
        => (CostIsBacked /\ CommitsBacked)'
  BY NextKeepsCosts
<1> QED BY <1>1, <1>2, Invariance, PTL DEF Spec
-----------------------------------------------------------------------------
(* A final status is earned.                                               *)

\* A run with tasks turns final only when its counters reach the cohort size,
\* and succeeds only with at least one completion.
FinalIsEarned ==
  \A r \in Runs :
    (runs[r].status \in Final /\ sent[r] # {}) =>
      /\ runs[r].completed_count + runs[r].failed_count >= runs[r].cohort_size
      /\ runs[r].status = "succeeded" =>
           runs[r].completed_count > 0 \/ runs[r].cohort_size = 0

\* The counters account for the whole cohort, and success for a completion.
Earned(row) ==
  /\ row.completed_count + row.failed_count >= row.cohort_size
  /\ row.status = "succeeded" => row.completed_count > 0 \/ row.cohort_size = 0

\* recompute_run_aggregates makes an open row final only if that is earned.
LEMMA AggregateEarned ==
  ASSUME TypeOK, NEW r \in Runs, NEW c \in Nat, NEW f \in Nat,
         runs[r].status \notin Final, Aggregate(r, c, f).status \in Final
  PROVE  Earned(Aggregate(r, c, f))
<1>1. Cardinality(Produced(r)) \in Nat
  BY ProducedFinite
<1>2. runs[r] \in Row /\ failures[r] \in Nat
  BY DEF TypeOK
<1> DEFINE cc == Greater(Cardinality(Produced(r)), c)
           ff == Greater(failures[r], f)
<1>3. cc \in Nat /\ ff \in Nat
  BY <1>1, <1>2 DEF Greater
<1> HIDE DEF cc, ff
<1>4. Aggregate(r, c, f) =
        [status |-> IF cc + ff < runs[r].cohort_size THEN runs[r].status
                    ELSE IF cc > 0 \/ runs[r].cohort_size = 0
                         THEN "succeeded" ELSE "failed",
         cohort_size |-> runs[r].cohort_size, completed_count |-> cc,
         failed_count |-> ff, actual_cost |-> Cardinality(Produced(r))]
  BY DEF Aggregate, cc, ff
<1>5. runs[r].cohort_size \in Nat
  BY <1>2 DEF Row
<1>6. cc + ff >= runs[r].cohort_size
  BY <1>3, <1>4, <1>5
<1> QED BY <1>3, <1>4, <1>5, <1>6 DEF Earned

\* What a worker is about to write is earned if it is final.
SeenIsEarned ==
  \A w \in Workers : pc[w] = "commit" =>
    (seen[w].status \in Final => Earned(seen[w]))

\* There is work for a run only after its launch has sent some.
WorkIsSent ==
  /\ \A m \in queue : sent[m.run] # {}
  /\ \A w \in Workers : pc[w] # "idle" => sent[msg[w].run] # {}

\* A launch that has sent nothing yet is not final.
UnsentIsOpen ==
  \A r \in Runs : (launch[r] \in {"created", "dispatching"} /\ sent[r] = {})
                    => runs[r].status \notin Final

EarnedInv == FinalIsEarned /\ SeenIsEarned /\ WorkIsSent /\ UnsentIsOpen

\* create_run only adds to what it has sent.
LEMMA SentGrows ==
  ASSUME TypeOK, [Next]_vars, NEW r \in Runs
  PROVE  sent[r] \subseteq sent'[r]
<1>1. ASSUME NEW q \in Runs, NEW p \in Patents, Dispatch(q, p)
      PROVE  sent[r] \subseteq sent'[r]
  BY <1>1 DEF Dispatch, TypeOK
<1>2. CASE UNCHANGED sent
  BY <1>2
<1> QED
  BY <1>1, <1>2
     DEF Next, LaunchStep, WorkerStep, CreateRun, ResolveCohort, FinishLaunch,
         AbandonLaunch, Ingest, Take, Lookup, ProviderAnswers, ProviderFails,
         Retry, Denormalise, Record, Recompute, Commit, Ack, Crash, LoseChild,
         Redeliver, launchVars, vars

\* A step that hands on only work there is already keeps all work sent.
LEMMA KeepWork ==
  ASSUME TypeOK, BusyHoldsMessage, WorkIsSent, [Next]_vars,
         \A m \in queue' :
           m \in queue \/ \E w \in Workers : pc[w] # "idle" /\ m.run = msg[w].run,
         \A w \in Workers : pc'[w] # "idle" =>
           (pc[w] # "idle" /\ msg'[w] = msg[w]) \/ msg'[w] \in queue
  PROVE  WorkIsSent'
<1>1. \A r \in Runs : sent[r] # {} => sent'[r] # {}
  BY SentGrows
<1>2. \A w \in Workers : pc[w] # "idle" => msg[w].run \in Runs
  BY DEF BusyHoldsMessage, Busy, Messages
<1>3. \A m \in queue : m.run \in Runs
  BY DEF TypeOK, Messages
<1> QED BY <1>1, <1>2, <1>3 DEF WorkIsSent

\* No step makes up work for a run.
LEMMA NextKeepsWork ==
  ASSUME TypeOK, BusyHoldsMessage, WorkIsSent, [Next]_vars
  PROVE  WorkIsSent'
<1>1. \A w \in Workers : pc[w] # "idle" => msg[w] \in Messages
  BY DEF BusyHoldsMessage, Busy
<1>2. ASSUME NEW r \in Runs, NEW p \in Patents, Dispatch(r, p)
      PROVE  WorkIsSent'
  <2> DEFINE m == [run |-> r, patent |-> p, retries |-> 0, copy |-> 0]
  <2>1. queue' = queue \cup {m} /\ UNCHANGED <<pc, msg>>
    BY <1>2 DEF Dispatch, workerVars
  <2>2. m.run = r /\ sent'[r] # {}
    BY <1>2 DEF Dispatch, TypeOK
  <2> HIDE DEF m
  <2>3. \A q \in Runs : sent[q] # {} => sent'[q] # {}
    BY SentGrows
  <2>4. \A n \in queue : n.run \in Runs
    BY DEF TypeOK, Messages
  <2>5. \A w \in Workers : pc[w] # "idle" => msg[w].run \in Runs
    BY <1>1 DEF Messages
  <2> QED BY <2>1, <2>2, <2>3, <2>4, <2>5 DEF WorkIsSent
<1>3. ASSUME NEW w \in Workers, NEW m \in queue, Take(w, m)
      PROVE  WorkIsSent'
  <2>1. queue' \subseteq queue /\ msg'[w] = m
    BY <1>3 DEF Take, TypeOK
  <2>2. \A v \in Workers : v # w => pc'[v] = pc[v] /\ msg'[v] = msg[v]
    BY <1>3 DEF Take, Goto, TypeOK
  <2> QED BY <1>3, <2>1, <2>2, KeepWork
<1>4. ASSUME NEW w \in Workers, Ack(w) \/ Crash(w) \/ LoseChild(w)
      PROVE  WorkIsSent'
  <2>1. pc[w] # "idle" /\ Forget(w)
    BY <1>4 DEF Ack, Crash, LoseChild
  <2>2. queue' \subseteq queue \cup {msg[w]}
    BY <1>4 DEF Ack, Crash, LoseChild
  <2>3. pc'[w] = "idle" /\ \A v \in Workers : v # w => pc'[v] = pc[v] /\ msg'[v] = msg[v]
    BY <2>1 DEF Forget, Goto, TypeOK
  <2> QED BY <2>1, <2>2, <2>3, KeepWork
<1>5. ASSUME NEW w \in Workers, Retry(w) \/ Redeliver(w)
      PROVE  WorkIsSent'
  <2>1. /\ pc[w] # "idle" /\ UNCHANGED msg
        /\ \A v \in Workers : pc'[v] # "idle" => pc[v] # "idle"
    BY <1>5 DEF Retry, Redeliver, Goto, TypeOK, workerVars
  <2>2. \A m \in queue' : m \in queue \/ m.run = msg[w].run
    BY <1>1, <1>5, <2>1 DEF Retry, Redeliver, Messages
  <2> QED BY <2>1, <2>2, KeepWork
<1>6. ASSUME NEW w \in Workers,
             \/ Lookup(w) \/ ProviderAnswers(w) \/ ProviderFails(w)
             \/ Denormalise(w) \/ Record(w) \/ Recompute(w) \/ Commit(w)
      PROVE  WorkIsSent'
  <2>1. UNCHANGED <<queue, msg>> /\ pc[w] # "idle"
    BY <1>6
       DEF Lookup, ProviderAnswers, ProviderFails, Denormalise, Record, Recompute,
           Commit, dataVars
  <2>2. \A v \in Workers : v # w => pc'[v] = pc[v]
    BY <1>6
       DEF Lookup, ProviderAnswers, ProviderFails, Denormalise, Record, Recompute,
           Commit, Goto, TypeOK
  <2> QED BY <2>1, <2>2, KeepWork
<1>7. CASE UNCHANGED <<queue, pc, msg>>
  BY <1>7, KeepWork
<1> QED
  BY <1>2, <1>3, <1>4, <1>5, <1>6, <1>7
     DEF Next, LaunchStep, WorkerStep, CreateRun, ResolveCohort, FinishLaunch,
         AbandonLaunch, Ingest, workerVars, vars

\* Only create_run opens a launch, with a pending row.
LEMMA LaunchOpens ==
  ASSUME TypeOK, [Next]_vars, NEW r \in Runs,
         launch'[r] \in {"created", "dispatching"}
  PROVE  \/ launch[r] \in {"created", "dispatching"}
         \/ runs'[r].status = "pending"
<1>1. ASSUME NEW q \in Runs, NEW enqueue \in BOOLEAN, CreateRun(q, enqueue)
      PROVE  \/ launch[r] \in {"created", "dispatching"}
             \/ runs'[r].status = "pending"
  <2> DEFINE new == [NoRow EXCEPT !.status = "pending",
                                  !.cohort_size = Cardinality(Cohort)]
  <2>1. new.status = "pending"
    BY DEF NoRow
  <2>2. runs' = [runs EXCEPT ![q] = new]
    BY <1>1 DEF CreateRun
  <2>3. q # r => launch'[r] = launch[r]
    BY <1>1 DEF CreateRun, TypeOK
  <2> HIDE DEF new
  <2> QED BY <2>1, <2>2, <2>3 DEF TypeOK
<1>2. ASSUME NEW q \in Runs,
             ResolveCohort(q) \/ FinishLaunch(q) \/ AbandonLaunch(q)
      PROVE  launch[r] \in {"created", "dispatching"}
  BY <1>2 DEF ResolveCohort, FinishLaunch, AbandonLaunch, TypeOK
<1>3. CASE UNCHANGED launch
  BY <1>3
<1> QED
  BY <1>1, <1>2, <1>3
     DEF Next, LaunchStep, WorkerStep, Dispatch, Ingest, Take, Lookup,
         ProviderAnswers, ProviderFails, Retry, Denormalise, Record, Recompute,
         Commit, Ack, Crash, LoseChild, Redeliver, launchVars, vars

\* Every step keeps final states earned.
LEMMA NextKeepsEarned ==
  ASSUME IInv, EarnedInv, [Next]_vars
  PROVE  EarnedInv'
<1> USE DEF EarnedInv
<1>1. TypeOK /\ BusyHoldsMessage
  BY DEF IInv
<1>2. WorkIsSent'
  BY <1>1, NextKeepsWork
<1>3. \A w \in Workers : pc[w] # "idle" => msg[w].run \in Runs
  BY <1>1 DEF BusyHoldsMessage, Busy, Messages
<1>4. SeenIsEarned'
  <2> SUFFICES ASSUME NEW w \in Workers, pc'[w] = "commit", seen'[w].status \in Final
               PROVE  Earned(seen'[w])
    BY DEF SeenIsEarned, Earned
  <2>1. CASE pc[w] = "commit" /\ seen'[w] = seen[w]
    BY <2>1 DEF SeenIsEarned
  <2>2. CASE /\ pc[w] = "recompute" /\ runs[msg[w].run].status \notin Final
             /\ \E c, f \in Nat : seen'[w] = Aggregate(msg[w].run, c, f)
    <3>1. PICK c \in Nat, f \in Nat : seen'[w] = Aggregate(msg[w].run, c, f)
      BY <2>2
    <3> QED BY <1>1, <1>3, <2>2, <3>1, AggregateEarned
  <2> QED BY <1>1, <2>1, <2>2, SeenChanges
<1>5. ASSUME NEW r \in Runs
      PROVE  \/ runs'[r] = runs[r]
             \/ runs'[r].status = "pending"
             \/ /\ sent'[r] = sent[r] /\ launch'[r] = "closed"
                /\ sent[r] # {} => runs'[r].status = "running"
             \/ /\ sent'[r] = sent[r] /\ sent[r] # {}
                /\ runs'[r].status \in Final => Earned(runs'[r])
  <2>1. ASSUME NEW w \in Workers, pc[w] = "commit", msg[w].run = r,
               runs'[r] = seen[w], sent' = sent
        PROVE  sent[r] # {} /\ (runs'[r].status \in Final => Earned(runs'[r]))
    BY <2>1 DEF SeenIsEarned, WorkIsSent
  <2>2. ASSUME runs'[r] = [runs[r] EXCEPT !.status = IF sent[r] = {}
                                            THEN "succeeded" ELSE "running"],
               sent[r] # {}
        PROVE  runs'[r].status = "running"
    BY <1>1, <2>2 DEF TypeOK, Row
  <2> QED BY <1>1, <2>1, <2>2, RowChanges
<1>6. UnsentIsOpen'
  <2> SUFFICES ASSUME NEW r \in Runs, launch'[r] \in {"created", "dispatching"},
                      sent'[r] = {}
               PROVE  runs'[r].status \notin Final
    BY DEF UnsentIsOpen
  <2>1. sent[r] = {}
    BY <1>1, SentGrows
  <2>2. CASE runs'[r] = runs[r]
    BY <1>1, <2>1, <2>2, LaunchOpens DEF UnsentIsOpen, Final
  <2>3. CASE runs'[r].status = "pending"
    BY <2>3 DEF Final
  <2> QED BY <1>5, <2>1, <2>2, <2>3
<1>7. FinalIsEarned'
  <2> SUFFICES ASSUME NEW r \in Runs, runs'[r].status \in Final, sent'[r] # {}
               PROVE  Earned(runs'[r])
    BY DEF FinalIsEarned, Earned
  <2>1. CASE runs'[r] = runs[r] /\ sent[r] # {}
    BY <2>1 DEF FinalIsEarned, Earned
  <2>2. ASSUME NEW q \in Runs, NEW p \in Patents, Dispatch(q, p), sent[r] = {}
        PROVE  runs[r].status \notin Final /\ runs' = runs
    <3>1. q = r
      BY <1>1, <2>2 DEF Dispatch, TypeOK
    <3> QED BY <2>2, <3>1 DEF Dispatch, UnsentIsOpen
  <2>3. CASE sent' = sent
    BY <1>5, <2>1, <2>3 DEF Final
  <2>4. CASE \E q \in Runs : \E p \in Patents : Dispatch(q, p)
    BY <2>1, <2>2, <2>4 DEF Dispatch
  <2> QED
    BY <2>3, <2>4
       DEF Next, LaunchStep, WorkerStep, CreateRun, ResolveCohort, FinishLaunch,
           AbandonLaunch, Ingest, Take, Lookup, ProviderAnswers, ProviderFails,
           Retry, Denormalise, Record, Recompute, Commit, Ack, Crash, LoseChild,
           Redeliver, launchVars, vars
<1> QED BY <1>2, <1>4, <1>6, <1>7

\* A run with tasks is final only once its counters account for the cohort it
\* was created with, and succeeds only with a completion.
LEMMA FinalRunsAreEarned == Spec => []FinalIsEarned
<1>1. Init => EarnedInv
  BY DEF Init, EarnedInv, FinalIsEarned, SeenIsEarned, WorkIsSent, UnsentIsOpen
<1>2. IInv /\ EarnedInv /\ [Next]_vars => EarnedInv'
  BY NextKeepsEarned
<1>3. EarnedInv => FinalIsEarned
  BY DEF EarnedInv
<1> QED BY <1>1, <1>2, <1>3, Invariance, PTL DEF Spec
-----------------------------------------------------------------------------
(* The counters are backed by records and artifacts.                       *)

\* What the lock holder has counted itself and not committed yet.
Own(w, o) == IF counted[w] /\ outcome[w] = o THEN 1 ELSE 0

\* What a worker is about to write is backed, its own record included.
SeenIsBacked ==
  \A w \in Workers : pc[w] = "commit" =>
    /\ seen[w].completed_count <= records[msg[w].run]["completed"]
         + Own(w, "completed") + Cardinality(Produced(msg[w].run))
    /\ seen[w].failed_count <= records[msg[w].run]["failed"]
         + Own(w, "failed") + failures[msg[w].run]

BackedInv == CountsAreBacked /\ SeenIsBacked

\* The numbers these two facts are about.
CountsNat(r) ==
  /\ runs[r].completed_count \in Nat /\ runs[r].failed_count \in Nat
  /\ records[r]["completed"] \in Nat /\ records[r]["failed"] \in Nat
  /\ failures[r] \in Nat

LEMMA CountsAreNat == ASSUME TypeOK, NEW r \in Runs PROVE CountsNat(r)
BY DEF TypeOK, Row, Outcomes, CountsNat

LEMMA OwnIsNat ==
  ASSUME NEW w
  PROVE  Own(w, "completed") \in Nat /\ Own(w, "failed") \in Nat
BY DEF Own

\* Failed calls and records only become more.
LEMMA CountsGrow ==
  ASSUME TypeOK, BusyHoldsMessage, [Next]_vars, NEW r \in Runs
  PROVE  /\ failures[r] <= failures'[r]
         /\ records[r]["completed"] <= records'[r]["completed"]
         /\ records[r]["failed"] <= records'[r]["failed"]
<1>1. CountsNat(r)
  BY CountsAreNat
<1>2. ASSUME NEW w \in Workers, Commit(w)
      PROVE  /\ failures'[r] = failures[r]
             /\ records[r]["completed"] <= records'[r]["completed"]
             /\ records[r]["failed"] <= records'[r]["failed"]
  <2>1. failures' = failures
    BY <1>2 DEF Commit, dataVars
  <2>2. \/ records' = records
        \/ records' = [records EXCEPT ![msg[w].run][outcome[w]] = @ + 1]
    BY <1>2 DEF Commit
  <2>3. CASE records' = records
    BY <1>1, <2>1, <2>3 DEF CountsNat
  <2>4. CASE records' = [records EXCEPT ![msg[w].run][outcome[w]] = @ + 1]
    <3>1. PICK c : c = [records[msg[w].run] EXCEPT ![outcome[w]] = @ + 1]
      OBVIOUS
    <3>2. records' = [records EXCEPT ![msg[w].run] = c]
      BY <2>4, <3>1
    <3>3. records \in [Runs -> [Outcomes -> Nat]] /\ outcome[w] \in Outcomes
      BY DEF TypeOK
    <3>4. CASE r = msg[w].run
      <4>1. records'[r] = c
        BY <3>2, <3>3, <3>4
      <4>2. /\ records[r]["completed"] <= c["completed"]
            /\ records[r]["failed"] <= c["failed"]
        BY <1>1, <3>1, <3>3, <3>4 DEF CountsNat, Outcomes
      <4> QED BY <2>1, <4>1, <4>2
    <3>5. CASE r # msg[w].run
      <4>1. records'[r] = records[r]
        BY <3>2, <3>3, <3>5
      <4> QED BY <1>1, <2>1, <4>1 DEF CountsNat
    <3> QED BY <3>4, <3>5
  <2> QED BY <2>2, <2>3, <2>4
<1>3. ASSUME NEW w \in Workers, ProviderFails(w)
      PROVE  /\ failures[r] <= failures'[r] /\ records' = records
  BY <1>1, <1>3 DEF ProviderFails, history, TypeOK, CountsNat
<1>4. CASE UNCHANGED <<failures, records>>
  BY <1>1, <1>4 DEF CountsNat
<1> QED
  BY <1>1, <1>2, <1>3, <1>4
     DEF Next, LaunchStep, WorkerStep, CreateRun, ResolveCohort, Dispatch,
         FinishLaunch, AbandonLaunch, Ingest, Take, Lookup, ProviderAnswers,
         Retry, Denormalise, Record, Recompute, Ack, Crash, LoseChild, Redeliver,
         dataVars, history, vars, CountsNat

\* A run whose counters do not grow stays backed.
LEMMA KeepCounts ==
  ASSUME TypeOK, TypeOK', BusyHoldsMessage, [Next]_vars, CountsAreBacked,
         NEW r \in Runs,
         runs'[r].completed_count <= runs[r].completed_count,
         runs'[r].failed_count <= runs[r].failed_count
  PROVE  /\ runs'[r].completed_count
              <= records'[r]["completed"] + Cardinality(Produced(r)')
         /\ runs'[r].failed_count <= records'[r]["failed"] + failures'[r]
<1>1. CountsNat(r)
  BY CountsAreNat
<1>2. CountsNat(r)'
  BY CountsAreNat DEF CountsNat, TypeOK, Row, Outcomes
<1>3. /\ runs[r].completed_count <= records[r]["completed"] + Cardinality(Produced(r))
      /\ runs[r].failed_count <= records[r]["failed"] + failures[r]
  BY DEF CountsAreBacked
<1> QED BY <1>1, <1>2, <1>3, CountsGrow, ProducedGrows DEF CountsNat

\* What a worker has computed and not yet committed stays backed.
LEMMA KeepSeen ==
  ASSUME TypeOK, TypeOK', BusyHoldsMessage, [Next]_vars, SeenIsBacked,
         NEW w \in Workers, pc[w] = "commit",
         msg'[w] = msg[w], seen'[w] = seen[w],
         counted'[w] = counted[w], outcome'[w] = outcome[w]
  PROVE  /\ seen'[w].completed_count <= records'[msg[w].run]["completed"]
              + Own(w, "completed")' + Cardinality(Produced(msg[w].run)')
         /\ seen'[w].failed_count <= records'[msg[w].run]["failed"]
              + Own(w, "failed")' + failures'[msg[w].run]
<1>1. PICK r \in Runs : r = msg[w].run
  BY DEF BusyHoldsMessage, Busy, Messages
<1>2. /\ seen[w].completed_count <= records[r]["completed"]
           + Own(w, "completed") + Cardinality(Produced(r))
      /\ seen[w].failed_count <= records[r]["failed"] + Own(w, "failed") + failures[r]
  BY <1>1 DEF SeenIsBacked
<1>3. /\ Own(w, "completed")' = Own(w, "completed")
      /\ Own(w, "failed")' = Own(w, "failed")
  BY DEF Own
<1>4. seen[w].completed_count \in Nat /\ seen[w].failed_count \in Nat
  BY DEF TypeOK, Row
<1>5. CountsNat(r)
  BY CountsAreNat
<1>6. CountsNat(r)'
  BY DEF CountsNat, TypeOK, Row, Outcomes
<1>7. /\ seen'[w].completed_count <= records'[r]["completed"]
           + Own(w, "completed")' + Cardinality(Produced(r)')
      /\ seen'[w].failed_count <= records'[r]["failed"]
           + Own(w, "failed")' + failures'[r]
  BY <1>2, <1>3, <1>4, <1>5, <1>6, CountsGrow, ProducedGrows, OwnIsNat DEF CountsNat
<1> QED BY <1>1, <1>7

\* recompute_run_aggregates takes the larger of a backed counter, with the
\* worker's own record, and what the artifacts say.
LEMMA RecomputeIsBacked ==
  ASSUME TypeOK, BusyHoldsMessage, CountsAreBacked, NEW w \in Workers, Recompute(w),
         pc'[w] = "commit"
  PROVE  /\ seen'[w].completed_count <= records[msg[w].run]["completed"]
              + Own(w, "completed") + Cardinality(Produced(msg[w].run))
         /\ seen'[w].failed_count <= records[msg[w].run]["failed"]
              + Own(w, "failed") + failures[msg[w].run]
<1>1. PICK r \in Runs : r = msg[w].run
  BY DEF Recompute, BusyHoldsMessage, Busy, Messages
<1>2. PICK c, f : /\ c = runs[r].completed_count + Own(w, "completed")
                  /\ f = runs[r].failed_count + Own(w, "failed")
  OBVIOUS
<1>3. seen'[w] = Aggregate(r, c, f)
  BY <1>1, <1>2 DEF Recompute, Goto, TypeOK, Own
<1>4. CountsNat(r) /\ Cardinality(Produced(r)) \in Nat
  BY CountsAreNat, ProducedFinite
<1>5. /\ seen'[w].completed_count = Greater(Cardinality(Produced(r)), c)
      /\ seen'[w].failed_count = Greater(failures[r], f)
  BY <1>3 DEF Aggregate
<1>6. /\ runs[r].completed_count <= records[r]["completed"] + Cardinality(Produced(r))
      /\ runs[r].failed_count <= records[r]["failed"] + failures[r]
  BY DEF CountsAreBacked
<1>7. /\ Greater(Cardinality(Produced(r)), c) <= records[r]["completed"]
           + Own(w, "completed") + Cardinality(Produced(r))
      /\ Greater(failures[r], f) <= records[r]["failed"] + Own(w, "failed")
           + failures[r]
  BY <1>2, <1>4, <1>6, OwnIsNat DEF Greater, CountsNat
<1> QED BY <1>1, <1>5, <1>7

\* A commit turns the worker's own record into a committed one.
LEMMA CommitIsBacked ==
  ASSUME TypeOK, TypeOK', BusyHoldsMessage, [Next]_vars, SeenIsBacked,
         NEW w \in Workers, Commit(w), NEW r \in Runs, r = msg[w].run
  PROVE  /\ runs'[r].completed_count
              <= records'[r]["completed"] + Cardinality(Produced(r)')
         /\ runs'[r].failed_count <= records'[r]["failed"] + failures'[r]
<1>1. runs'[r] = seen[w] /\ UNCHANGED <<cache, failures>>
  BY DEF Commit, TypeOK, dataVars
<1>2. /\ seen[w].completed_count <= records[r]["completed"]
           + Own(w, "completed") + Cardinality(Produced(r))
      /\ seen[w].failed_count <= records[r]["failed"] + Own(w, "failed") + failures[r]
  BY DEF SeenIsBacked, Commit
<1>3. outcome[w] \in Outcomes
  BY DEF TypeOK
<1>6. CountsNat(r) /\ Cardinality(Produced(r)) \in Nat
  BY CountsAreNat, ProducedFinite
<1>4. CASE counted[w]
  <2>1. records' = [records EXCEPT ![r][outcome[w]] = @ + 1]
    BY <1>4 DEF Commit
  <2>2. CASE outcome[w] = "completed"
    <3>1. /\ records'[r]["completed"] = records[r]["completed"] + 1
          /\ records'[r]["failed"] = records[r]["failed"]
      BY <2>1, <2>2 DEF TypeOK, Outcomes
    <3>2. Own(w, "completed") = 1 /\ Own(w, "failed") = 0
      BY <1>4, <2>2 DEF Own
    <3>3. Produced(r)' = Produced(r) /\ failures'[r] = failures[r]
      BY <1>1 DEF Produced
    <3> QED BY <1>1, <1>2, <1>6, <3>1, <3>2, <3>3 DEF CountsNat
  <2>3. CASE outcome[w] = "failed"
    <3>1. /\ records'[r]["failed"] = records[r]["failed"] + 1
          /\ records'[r]["completed"] = records[r]["completed"]
      BY <2>1, <2>3 DEF TypeOK, Outcomes
    <3>2. Own(w, "failed") = 1 /\ Own(w, "completed") = 0
      BY <1>4, <2>3 DEF Own
    <3>3. Produced(r)' = Produced(r) /\ failures'[r] = failures[r]
      BY <1>1 DEF Produced
    <3> QED BY <1>1, <1>2, <1>6, <3>1, <3>2, <3>3 DEF CountsNat
  <2> QED BY <1>3, <2>2, <2>3 DEF Outcomes
<1>5. CASE ~counted[w]
  <2>1. records' = records
    BY <1>5 DEF Commit
  <2>2. Own(w, "completed") = 0 /\ Own(w, "failed") = 0
    BY <1>5 DEF Own
  <2>3. CountsNat(r) /\ Cardinality(Produced(r)) \in Nat
    BY CountsAreNat, ProducedFinite
  <2> QED BY <1>1, <1>2, <2>1, <2>2, <2>3 DEF CountsNat, Produced
<1> QED BY <1>4, <1>5

\* Every step keeps counters and computed rows backed.
LEMMA NextKeepsBacked ==
  ASSUME IInv, BackedInv, [Next]_vars
  PROVE  BackedInv'
<1>1. TypeOK /\ BusyHoldsMessage /\ CountsAreBacked /\ SeenIsBacked
  BY DEF IInv, BackedInv
<1>2. TypeOK'
  BY <1>1, NextType
<1>3. CountsAreBacked'
  <2> SUFFICES ASSUME NEW r \in Runs
               PROVE  /\ runs'[r].completed_count
                           <= records'[r]["completed"] + Cardinality(Produced(r)')
                      /\ runs'[r].failed_count <= records'[r]["failed"] + failures'[r]
    BY DEF CountsAreBacked
  <2>1. CountsNat(r)
    BY <1>1, CountsAreNat
  <2>2. ASSUME NEW w \in Workers, Commit(w), msg[w].run = r
        PROVE  /\ runs'[r].completed_count
                    <= records'[r]["completed"] + Cardinality(Produced(r)')
               /\ runs'[r].failed_count <= records'[r]["failed"] + failures'[r]
    BY <1>1, <1>2, <2>2, CommitIsBacked
  <2>3. ASSUME NEW w \in Workers, Commit(w), msg[w].run # r
        PROVE  runs'[r] = runs[r]
    BY <1>1, <2>3 DEF Commit, TypeOK
  <2>4. ASSUME NEW q \in Runs, FinishLaunch(q)
        PROVE  /\ runs'[r].completed_count = runs[r].completed_count
               /\ runs'[r].failed_count = runs[r].failed_count
    BY <1>1, <2>4 DEF FinishLaunch, TypeOK, Row
  <2>5. ASSUME NEW q \in Runs, NEW enqueue \in BOOLEAN, CreateRun(q, enqueue)
        PROVE  runs'[r].completed_count <= runs[r].completed_count
               /\ runs'[r].failed_count <= runs[r].failed_count
    <3>1. PICK new : new = [NoRow EXCEPT !.status = "pending",
                                         !.cohort_size = Cardinality(Cohort)]
      OBVIOUS
    <3>2. new.completed_count = 0 /\ new.failed_count = 0
      BY <3>1 DEF NoRow
    <3>3. runs' = [runs EXCEPT ![q] = new]
      BY <2>5, <3>1 DEF CreateRun
    <3> QED BY <1>1, <2>1, <3>2, <3>3 DEF TypeOK, CountsNat
  <2>6. ASSUME runs'[r].completed_count <= runs[r].completed_count,
               runs'[r].failed_count <= runs[r].failed_count
        PROVE  /\ runs'[r].completed_count
                    <= records'[r]["completed"] + Cardinality(Produced(r)')
               /\ runs'[r].failed_count <= records'[r]["failed"] + failures'[r]
    BY <1>1, <1>2, <2>6, KeepCounts
  <2>7. CASE UNCHANGED runs
    BY <2>1, <2>6, <2>7 DEF CountsNat
  <2> QED
    BY <2>1, <2>2, <2>3, <2>4, <2>5, <2>6, <2>7
       DEF Next, LaunchStep, WorkerStep, ResolveCohort, Dispatch, AbandonLaunch,
           Ingest, Take, Lookup, ProviderAnswers, ProviderFails, Retry,
           Denormalise, Record, Recompute, Ack, Crash, LoseChild, Redeliver, vars,
           CountsNat
<1>4. SeenIsBacked'
  <2> SUFFICES ASSUME NEW w \in Workers, pc'[w] = "commit"
               PROVE  (/\ seen[w].completed_count <= records[msg[w].run]["completed"]
                            + Own(w, "completed") + Cardinality(Produced(msg[w].run))
                       /\ seen[w].failed_count <= records[msg[w].run]["failed"]
                            + Own(w, "failed") + failures[msg[w].run])'
    BY DEF SeenIsBacked
  <2>1. ASSUME pc[w] = "commit", msg'[w] = msg[w], seen'[w] = seen[w],
               counted'[w] = counted[w], outcome'[w] = outcome[w]
        PROVE  (/\ seen[w].completed_count <= records[msg[w].run]["completed"]
                     + Own(w, "completed") + Cardinality(Produced(msg[w].run))
                /\ seen[w].failed_count <= records[msg[w].run]["failed"]
                     + Own(w, "failed") + failures[msg[w].run])'
    BY <1>1, <1>2, <2>1, KeepSeen DEF Produced
  <2>2. ASSUME NEW v \in Workers,
               \/ \E m \in queue : Take(v, m)
               \/ Lookup(v) \/ ProviderAnswers(v) \/ ProviderFails(v) \/ Retry(v)
               \/ Denormalise(v) \/ Record(v) \/ Commit(v)
               \/ Ack(v) \/ Crash(v) \/ LoseChild(v)
        PROVE  /\ pc[w] = "commit" /\ msg'[w] = msg[w] /\ seen'[w] = seen[w]
               /\ counted'[w] = counted[w] /\ outcome'[w] = outcome[w]
    <3>1. \E s \in {"idle", "lookup", "calling", "retry", "denormalise", "record",
                    "recompute", "ack"} : pc' = [pc EXCEPT ![v] = s]
      BY <2>2
         DEF Take, Lookup, ProviderAnswers, ProviderFails, Retry, Denormalise,
             Record, Commit, Ack, Crash, LoseChild, Forget, Goto
    <3>2. w # v /\ pc[w] = "commit"
      BY <1>1, <3>1 DEF TypeOK
    <3>3. msg'[w] = msg[w] /\ seen'[w] = seen[w]
      BY <1>1, <2>2, <3>2
         DEF Take, Lookup, ProviderAnswers, ProviderFails, Retry, Denormalise,
             Record, Commit, Ack, Crash, LoseChild, Forget, TypeOK
    <3>4. counted'[w] = counted[w] /\ outcome'[w] = outcome[w]
      BY <1>1, <2>2, <3>2
         DEF Take, Lookup, ProviderAnswers, ProviderFails, Retry, Denormalise,
             Record, Commit, Ack, Crash, LoseChild, Forget, TypeOK
    <3> QED BY <3>2, <3>3, <3>4
  <2>3. ASSUME NEW v \in Workers, Recompute(v), v # w
        PROVE  /\ pc[w] = "commit" /\ msg'[w] = msg[w] /\ seen'[w] = seen[w]
               /\ counted'[w] = counted[w] /\ outcome'[w] = outcome[w]
    BY <1>1, <2>3 DEF Recompute, Goto, TypeOK
  <2>4. ASSUME Recompute(w)
        PROVE  (/\ seen[w].completed_count <= records[msg[w].run]["completed"]
                     + Own(w, "completed") + Cardinality(Produced(msg[w].run))
                /\ seen[w].failed_count <= records[msg[w].run]["failed"]
                     + Own(w, "failed") + failures[msg[w].run])'
    <3>1. UNCHANGED <<msg, counted, outcome, records, failures, cache>>
      BY <2>4 DEF Recompute, dataVars, history
    <3>2. /\ seen'[w].completed_count <= records[msg[w].run]["completed"]
               + Own(w, "completed") + Cardinality(Produced(msg[w].run))
          /\ seen'[w].failed_count <= records[msg[w].run]["failed"]
               + Own(w, "failed") + failures[msg[w].run]
      BY <1>1, <2>4, RecomputeIsBacked
    <3> QED BY <3>1, <3>2 DEF Own, Produced
  <2>5. CASE UNCHANGED workerVars
    BY <2>1, <2>5 DEF workerVars
  <2> QED
    BY <2>1, <2>2, <2>3, <2>4, <2>5
       DEF Next, LaunchStep, WorkerStep, CreateRun, ResolveCohort, Dispatch,
           FinishLaunch, AbandonLaunch, Ingest, Redeliver, workerVars, vars
<1> QED BY <1>3, <1>4 DEF BackedInv

\* Counters are backed: every unit of a run's counters is a committed record, an
\* artifact or a failed call of that run, and each of these counts at most once.
THEOREM CountersAreBacked == Spec => []CountsAreBacked
<1>1. Init => BackedInv
  <2> SUFFICES ASSUME Init PROVE BackedInv
    OBVIOUS
  <2>1. \A r \in Runs : /\ runs[r].completed_count = 0 /\ runs[r].failed_count = 0
                        /\ records[r]["completed"] = 0 /\ records[r]["failed"] = 0
                        /\ failures[r] = 0
    BY DEF Init, NoRow, Outcomes
  <2>2. CountsAreBacked
    BY <2>1, ProducedFinite DEF CountsAreBacked
  <2>3. SeenIsBacked
    BY DEF Init, SeenIsBacked
  <2> QED BY <2>2, <2>3 DEF BackedInv
<1>2. IInv /\ BackedInv /\ [Next]_vars => BackedInv'
  BY NextKeepsBacked
<1>3. BackedInv => CountsAreBacked
  BY DEF BackedInv
<1> QED BY <1>1, <1>2, <1>3, Invariance, PTL DEF Spec

\* A run with tasks is not final before its records, its artifacts and its
\* failed calls together reach the cohort size it was created with.
THEOREM FinalRunsAreBacked == Spec => []FinalIsBacked
<1>1. TypeOK /\ CountsAreBacked /\ FinalIsEarned => FinalIsBacked
  <2> SUFFICES ASSUME TypeOK, CountsAreBacked, FinalIsEarned,
                      NEW r \in Runs, runs[r].status \in Final, sent[r] # {}
               PROVE  /\ runs[r].cohort_size
                           <= records[r]["completed"] + Cardinality(Produced(r))
                              + records[r]["failed"] + failures[r]
                      /\ runs[r].status = "succeeded" =>
                           \/ records[r]["completed"] + Cardinality(Produced(r)) > 0
                           \/ runs[r].cohort_size = 0
    BY DEF FinalIsBacked
  <2>1. CountsNat(r) /\ Cardinality(Produced(r)) \in Nat /\ runs[r].cohort_size \in Nat
    BY CountsAreNat, ProducedFinite DEF TypeOK, Row
  <2>2. /\ runs[r].completed_count <= records[r]["completed"] + Cardinality(Produced(r))
        /\ runs[r].failed_count <= records[r]["failed"] + failures[r]
    BY DEF CountsAreBacked
  <2>3. /\ runs[r].completed_count + runs[r].failed_count >= runs[r].cohort_size
        /\ runs[r].status = "succeeded" =>
             runs[r].completed_count > 0 \/ runs[r].cohort_size = 0
    BY DEF FinalIsEarned
  <2> QED BY <2>1, <2>2, <2>3 DEF CountsNat
<1> QED BY <1>1, TypeCorrect, CountersAreBacked, FinalRunsAreEarned, PTL

\* No record is lost, a fully recorded run is final, and no count is made up,
\* whatever the interleaving of run_aggregates' recomputations.
THEOREM CountersAlwaysAddUp == Spec => []CountersAddUp
<1>1. CountersCoverRecords /\ AllRecordedIsFinal /\ CountsAreBacked /\ FinalIsBacked
        => CountersAddUp
  BY DEF CountersAddUp
<1> QED
  BY <1>1, NoRecordLost, RecordedRunsAreFinal, CountersAreBacked, FinalRunsAreBacked,
     PTL

\* Every result and every cost of a run stands on artifacts the runs produced.
THEOREM ResultsAndCostsAreBacked == Spec => []ArtifactsBackResults
<1>1. DoneIsUsable /\ CostIsBacked => ArtifactsBackResults
  BY DEF ArtifactsBackResults
<1> QED BY <1>1, ResultsAreUsable, CostsAreBacked, PTL
=============================================================================
