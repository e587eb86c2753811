------------------------------- MODULE Alerts -------------------------------
(***************************************************************************)
(* Alerts: every hour one Celery task scans for news and inserts alerts,   *)
(* and another posts the pending ones to the users' webhooks, or mails     *)
(* them.  Each task is one database transaction around many reads and      *)
(* outside calls, and nothing keeps two executions of a task apart: the    *)
(* hourly messages of a backlog, or a redelivered one, run side by side.   *)
(*                                                                         *)
(* What a transaction writes is shown when it commits; the row locks its   *)
(* UPDATEs take before that only restrict the interleavings further.       *)
(***************************************************************************)
EXTENDS Integers, FiniteSets

CONSTANTS
  Subjects,    \* what a user can be alerted of: user, type and payload
  Spikes,      \* those of type trend_spike: their payload has no patent_id
  Scans,       \* messages of scan_for_alerts
  Deliverers,  \* processes that may execute deliver_pending_alerts
  MaxRetries,  \* MAX_RETRIES
  BatchSize,   \* the limit of the select of pending alerts
  MaxFaults    \* bound on lost executions

ASSUME SubjectsAssumption == Spikes \subseteq Subjects
ASSUME BoundsAssumption ==
  /\ MaxRetries \in Nat \ {0}
  /\ BatchSize \in Nat \ {0}
  /\ MaxFaults \in Nat

VARIABLES
  status,    \* alerts.status of each alert, "none" where there is no row
  retries,   \* alerts.retry_count
  fresh,     \* alerts created in the last 24 hours
  hooked,    \* subjects whose user has an enabled webhook and the tier for it
  scan,      \* progress of each scan
  found,     \* subjects it has still to create an alert for
  mine,      \* alerts it has added to its session
  pc,        \* where each deliverer is
  todo,      \* selected alerts it has still to attempt
  seen,      \* retry_count of the alerts it selected
  ok,        \* attempts that succeeded
  bad,       \* attempts that failed
  faults,    \* executions lost so far
  attempts,  \* history: attempts made for each alert
  overlaps   \* history: tasks of which two executions have overlapped

alertVars   == <<status, retries, fresh>>
scanVars    == <<scan, found, mine>>
deliverVars == <<pc, todo, seen, ok, bad>>
vars == <<alertVars, hooked, scanVars, deliverVars, faults, attempts, overlaps>>
-----------------------------------------------------------------------------
\* A scan adds at most one alert for a subject: the two name the row.
Ids == Subjects \X Scans

\* Mutant: only alerts that wait for delivery count as duplicates.
RecentPending(x) == {i \in fresh : i[1] = x /\ status[i] = "pending"}

\* The rows _create_alert looks for.
Recent(x) == {i \in fresh : i[1] = x}

Pending == {i \in Ids : status[i] = "pending" /\ retries[i] < MaxRetries}

Init ==
  /\ status = [i \in Ids |-> "none"]
  /\ retries = [i \in Ids |-> 0]
  /\ fresh = {}
  /\ hooked \in SUBSET Subjects
  /\ scan = [s \in Scans |-> "waiting"]
  /\ found = [s \in Scans |-> {}]
  /\ mine = [s \in Scans |-> {}]
  /\ pc = [d \in Deliverers |-> "idle"]
  /\ todo = [d \in Deliverers |-> {}]
  /\ seen = [d \in Deliverers |-> [i \in Ids |-> 0]]
  /\ ok = [d \in Deliverers |-> {}]
  /\ bad = [d \in Deliverers |-> {}]
  /\ faults = 0
  /\ attempts = [i \in Ids |-> 0]
  /\ overlaps = {}
-----------------------------------------------------------------------------
(* Detection.                                                              *)

\* The transaction of scan s is over, with or without its inserts.
EndScan(s, progress) ==
  /\ scan' = [scan EXCEPT ![s] = progress]
  /\ found' = [found EXCEPT ![s] = {}]
  /\ mine' = [mine EXCEPT ![s] = {}]

\* The detectors' selects; they look back a day, so they find again what an
\* earlier scan found.
BeginScan(s) ==
  /\ scan[s] = "waiting"
  /\ scan' = [scan EXCEPT ![s] = "scanning"]
  /\ overlaps' = IF \A r \in Scans : scan[r] # "scanning"
                 THEN overlaps ELSE overlaps \cup {"scan"}
  /\ \E news \in SUBSET Subjects : found' = [found EXCEPT ![s] = news]
  /\ UNCHANGED <<alertVars, hooked, mine, deliverVars, faults, attempts>>

\* _create_alert: with no recent alert for the patent one is added, with one
\* nothing is done, and with more the select itself raises: the task ends
\* and its transaction is rolled back.
CreateAlert(s, x) ==
  /\ scan[s] = "scanning"
  /\ x \in found[s]
  /\ \/ /\ x \in Spikes \/ Recent(x) = {}
        /\ mine' = [mine EXCEPT ![s] = @ \cup {<<x, s>>}]
        /\ found' = [found EXCEPT ![s] = @ \ {x}]
        /\ UNCHANGED scan
     \/ /\ x \notin Spikes /\ \E i \in Recent(x) : Recent(x) = {i}
        /\ found' = [found EXCEPT ![s] = @ \ {x}]
        /\ UNCHANGED <<scan, mine>>
     \/ /\ x \notin Spikes /\ \E i, j \in Recent(x) : i # j
        /\ EndScan(s, "done")
  /\ UNCHANGED <<alertVars, hooked, deliverVars, faults, attempts,
                 overlaps>>

CommitScan(s) ==
  /\ scan[s] = "scanning"
  /\ found[s] = {}
  /\ status' = [i \in Ids |-> IF i \in mine[s] THEN "pending" ELSE status[i]]
  /\ fresh' = fresh \cup mine[s]
  /\ EndScan(s, "done")
  /\ UNCHANGED <<retries, hooked, deliverVars, faults, attempts, overlaps>>

\* An exception ends the task; a worker's death has it delivered again.
LoseScan(s) ==
  /\ scan[s] = "scanning"
  /\ faults < MaxFaults
  /\ faults' = faults + 1
  /\ \E progress \in {"waiting", "done"} : EndScan(s, progress)
  /\ UNCHANGED <<alertVars, hooked, deliverVars, attempts, overlaps>>
-----------------------------------------------------------------------------
(* Delivery.                                                               *)

\* Everything deliverer d held in memory or in its transaction is gone.
EndDelivery(d) ==
  /\ pc' = [pc EXCEPT ![d] = "idle"]
  /\ todo' = [todo EXCEPT ![d] = {}]
  /\ seen' = [seen EXCEPT ![d] = [i \in Ids |-> 0]]
  /\ ok' = [ok EXCEPT ![d] = {}]
  /\ bad' = [bad EXCEPT ![d] = {}]

\* The select has a limit and no order: any batch of pending alerts.
Select(d) ==
  /\ pc[d] = "idle"
  /\ overlaps' = IF \A e \in Deliverers : pc[e] = "idle"
                 THEN overlaps ELSE overlaps \cup {"delivery"}
  /\ \E batch \in SUBSET Pending :
       /\ batch # {}
       /\ \/ Cardinality(batch) = BatchSize
          \/ batch = Pending /\ Cardinality(batch) < BatchSize
       /\ todo' = [todo EXCEPT ![d] = batch]
  /\ seen' = [seen EXCEPT ![d] = retries]
  /\ pc' = [pc EXCEPT ![d] = "delivering"]
  /\ UNCHANGED <<alertVars, hooked, scanVars, ok, bad, faults, attempts>>

\* A webhook answers with 2xx or it does not (in time).  A mail fails: its
\* template alert_notification.html is not there to be rendered.  An
\* alert goes with its user (ON DELETE CASCADE): the branch for one without,
\* an account deleted since the select, is left out.
Attempt(d, i) ==
  /\ i \in todo[d]
  /\ todo' = [todo EXCEPT ![d] = @ \ {i}]
  /\ attempts' = [attempts EXCEPT ![i] = @ + 1]
  /\ \/ /\ i[1] \in hooked
        /\ ok' = [ok EXCEPT ![d] = @ \cup {i}]
        /\ UNCHANGED bad
     \/ /\ bad' = [bad EXCEPT ![d] = @ \cup {i}]
        /\ UNCHANGED ok
  /\ UNCHANGED <<alertVars, hooked, scanVars, pc, seen, faults, overlaps>>

\* Mutant: an alert is given up later than the select allows.
CommitGivesUpLate(d) ==
  /\ pc[d] = "delivering"
  /\ todo[d] = {}
  /\ LET over == {i \in bad[d] : seen[d][i] >= MaxRetries}
     IN status' = [i \in Ids |-> IF i \in ok[d] THEN "sent"
                                 ELSE IF i \in over THEN "failed"
                                 ELSE status[i]]
  /\ retries' = [i \in Ids |-> IF i \in bad[d] THEN seen[d][i] + 1
                                               ELSE retries[i]]
  /\ EndDelivery(d)
  /\ UNCHANGED <<fresh, hooked, scanVars, faults, attempts, overlaps>>

\* The one commit writes the columns that changed: what others did to the
\* rows since the select is overwritten, and a status that stays "pending"
\* is not written.
CommitDelivery(d) ==
  /\ pc[d] = "delivering"
  /\ todo[d] = {}
  /\ LET over == {i \in bad[d] : seen[d][i] + 1 >= MaxRetries}
     IN status' = [i \in Ids |-> IF i \in ok[d] THEN "sent"
                                 ELSE IF i \in over THEN "failed"
                                 ELSE status[i]]
  /\ retries' = [i \in Ids |-> IF i \in bad[d] THEN seen[d][i] + 1
                                               ELSE retries[i]]
  /\ EndDelivery(d)
  /\ UNCHANGED <<fresh, hooked, scanVars, faults, attempts, overlaps>>

\* A worker's death, or an exception in any of the selects and updates.
LoseDelivery(d) ==
  /\ pc[d] = "delivering"
  /\ faults < MaxFaults
  /\ faults' = faults + 1
  /\ EndDelivery(d)
  /\ UNCHANGED <<alertVars, hooked, scanVars, attempts, overlaps>>
-----------------------------------------------------------------------------
(* Environment.                                                            *)

\* The alert is a day old.
Age(i) ==
  /\ i \in fresh
  /\ fresh' = fresh \ {i}
  /\ UNCHANGED <<status, retries, hooked, scanVars, deliverVars, faults,
                 attempts, overlaps>>

\* The user sets up a webhook, disables it, or changes tier.
Reconfigure(x) ==
  /\ hooked' = IF x \in hooked THEN hooked \ {x} ELSE hooked \cup {x}
  /\ UNCHANGED <<alertVars, scanVars, deliverVars, faults, attempts,
                 overlaps>>

ScanStep(s) ==
  BeginScan(s) \/ (\E x \in Subjects : CreateAlert(s, x)) \/ CommitScan(s)

DeliverStep(d) ==
  Select(d) \/ (\E i \in Ids : Attempt(d, i)) \/ CommitDelivery(d)

Next ==
  \/ \E s \in Scans : ScanStep(s) \/ LoseScan(s)
  \/ \E d \in Deliverers : DeliverStep(d) \/ LoseDelivery(d)
  \/ \E i \in Ids : Age(i)
  \/ \E x \in Subjects : Reconfigure(x)

Spec == Init /\ [][Next]_vars

\* Beat sends deliver_pending_alerts every hour and some worker executes it.
FairSpec == Spec /\ \A d \in Deliverers : WF_vars(DeliverStep(d))
-----------------------------------------------------------------------------
(* Properties.                                                             *)

\* The declared types.
TypeOK ==
  /\ status \in [Ids -> {"none", "pending", "sent", "failed"}]
  /\ retries \in [Ids -> 0..MaxRetries]
  /\ fresh \in SUBSET Ids
  /\ hooked \in SUBSET Subjects
  /\ scan \in [Scans -> {"waiting", "scanning", "done"}]
  /\ found \in [Scans -> SUBSET Subjects]
  /\ mine \in [Scans -> SUBSET Ids]
  /\ pc \in [Deliverers -> {"idle", "delivering"}]
  /\ todo \in [Deliverers -> SUBSET Ids]
  /\ seen \in [Deliverers -> [Ids -> 0..MaxRetries]]
  /\ ok \in [Deliverers -> SUBSET Ids]
  /\ bad \in [Deliverers -> SUBSET Ids]
  /\ faults \in 0..MaxFaults
  /\ attempts \in [Ids -> Nat]
  /\ overlaps \in SUBSET {"scan", "delivery"}

\* alerts.py:203, "De-duplicates by (user_id, type, payload doc_id)", and
\* 205, "if same user+type+patent_id exists in last 24h": no two alerts of
\* the last day are about the same patent for the same user and type.
NoDuplicateAlerts ==
  \A i, j \in fresh : (i[1] = j[1] /\ i[1] \notin Spikes) => i = j

\* What keeps that promise is only that scans take turns: no loss, repetition
\* or delivery in between breaks it, but an overlap does.
SerialScansDeduplicate == "scan" \notin overlaps => NoDuplicateAlerts

\* As long as deliveries take turns, an alert is attempted MAX_RETRIES times,
\* and once more for every lost execution: a webhook that never answers is
\* left alone in the end.
AttemptsAreBounded ==
  "delivery" \notin overlaps => \A i \in Ids : attempts[i] <= MaxRetries + faults

\* Every alert is sent or given up, although the batches are limited and in
\* no order, and overlapping deliveries overwrite each other's counts.
AlertsSettle ==
  \A i \in Ids : status[i] = "pending" ~> status[i] \in {"sent", "failed"}

\* Both: as long as executions take turns nobody is alerted twice and no
\* address is tried more often than MAX_RETRIES and the losses allow.
TurnsPreventRepetition == SerialScansDeduplicate /\ AttemptsAreBounded

=============================================================================
