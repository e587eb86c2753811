--------------------------- MODULE ScheduledProofs ---------------------------
(* Theorems about the two chains of tasks that the scheduler starts: the   *)
(* scans and deliveries of Alerts, for any number of subjects, scans and   *)
(* deliverers and any bounds, and the lock and the coverage of             *)
(* DailyIngestion, for any number of workers, any lookback and any         *)
(* calendar.  The two share nothing; what is proved of one says nothing of *)
(* the other.                                                              *)
EXTENDS Alerts, DailyIngestion, TLAPS

(* Alerts.                                                                  *)

\* An idle deliverer holds nothing, and what one holds was selected below the
\* retry limit: this keeps the counts it will write within their type.
HeldBelowLimit ==
  \A d \in Deliverers :
    /\ pc[d] = "idle" => todo[d] = {} /\ ok[d] = {} /\ bad[d] = {}
    /\ \A i \in todo[d] \cup ok[d] \cup bad[d] : seen[d][i] < MaxRetries

TInv == TypeOK /\ HeldBelowLimit
-----------------------------------------------------------------------------
LEMMA TInvInit == Init => TInv
  BY BoundsAssumption DEF Init, TInv, TypeOK, HeldBelowLimit, Ids

LEMMA TInvNext == TInv /\ [Next]_vars => TInv'
<1> SUFFICES ASSUME TInv, [Next]_vars PROVE TInv'
  OBVIOUS
<1> USE DEF TInv
<1>1. ASSUME NEW s \in Scans, BeginScan(s) PROVE TInv'
  BY <1>1 DEF BeginScan, TypeOK, HeldBelowLimit, alertVars, deliverVars
<1>2. ASSUME NEW s \in Scans, NEW x \in Subjects, CreateAlert(s, x) PROVE TInv'
  <2>1. <<x, s>> \in Ids
    BY DEF Ids
  <2>2. /\ scan' \in [Scans -> {"waiting", "scanning", "done"}]
        /\ found' \in [Scans -> SUBSET Subjects]
        /\ mine' \in [Scans -> SUBSET Ids]
    <3> USE DEF TypeOK
    <3>1. CASE /\ mine' = [mine EXCEPT ![s] = @ \cup {<<x, s>>}]
               /\ found' = [found EXCEPT ![s] = @ \ {x}]
               /\ UNCHANGED scan
      BY <2>1, <3>1
    <3>2. CASE found' = [found EXCEPT ![s] = @ \ {x}] /\ UNCHANGED <<scan, mine>>
      BY <3>2
    <3>3. CASE EndScan(s, "done")
      BY <3>3 DEF EndScan
    <3> QED BY <1>2, <3>1, <3>2, <3>3 DEF CreateAlert
  <2>3. TypeOK' /\ HeldBelowLimit'
    BY <1>2, <2>2 DEF CreateAlert, TypeOK, HeldBelowLimit, alertVars, deliverVars
  <2> QED BY <2>3
<1>3. ASSUME NEW s \in Scans, CommitScan(s) PROVE TInv'
  BY <1>3 DEF CommitScan, EndScan, TypeOK, HeldBelowLimit, deliverVars
<1>4. ASSUME NEW s \in Scans, LoseScan(s) PROVE TInv'
  BY <1>4, BoundsAssumption
     DEF LoseScan, EndScan, TypeOK, HeldBelowLimit, alertVars, deliverVars
<1>5. ASSUME NEW d \in Deliverers, Select(d) PROVE TInv'
  <2>1. PICK batch \in SUBSET Pending : todo' = [todo EXCEPT ![d] = batch]
    BY <1>5 DEF Select
  <2>2. batch \subseteq Ids /\ \A i \in batch : retries[i] < MaxRetries
    BY DEF Pending
  <2>3. TypeOK'
    BY <1>5, <2>1, <2>2 DEF Select, TypeOK, alertVars, scanVars
  <2>4. HeldBelowLimit'
    BY <1>5, <2>1, <2>2 DEF Select, TypeOK, HeldBelowLimit, alertVars, scanVars
  <2> QED BY <2>3, <2>4
<1>6. ASSUME NEW d \in Deliverers, NEW i \in Ids, Attempt(d, i) PROVE TInv'
  <2>1. pc[d] # "idle"
    BY <1>6 DEF Attempt, HeldBelowLimit
  <2>2. /\ ok' \in [Deliverers -> SUBSET Ids]
        /\ bad' \in [Deliverers -> SUBSET Ids]
    <3>1. CASE ok' = [ok EXCEPT ![d] = @ \cup {i}] /\ UNCHANGED bad
      BY <3>1 DEF TypeOK
    <3>2. CASE bad' = [bad EXCEPT ![d] = @ \cup {i}] /\ UNCHANGED ok
      BY <3>2 DEF TypeOK
    <3> QED BY <1>6, <3>1, <3>2 DEF Attempt
  <2>3. /\ todo' \in [Deliverers -> SUBSET Ids]
        /\ attempts' \in [Ids -> Nat]
    BY <1>6 DEF Attempt, TypeOK
  <2>4. TypeOK'
    BY <1>6, <2>2, <2>3 DEF Attempt, TypeOK, alertVars, scanVars
  <2>5. HeldBelowLimit'
    BY <1>6, <2>1 DEF Attempt, TypeOK, HeldBelowLimit, alertVars, scanVars
  <2> QED BY <2>4, <2>5
<1>7. ASSUME NEW d \in Deliverers, CommitDelivery(d) PROVE TInv'
  <2>1. retries' \in [Ids -> 0..MaxRetries]
    BY <1>7, BoundsAssumption DEF CommitDelivery, TypeOK, HeldBelowLimit
  <2>2. TypeOK'
    BY <1>7, <2>1, BoundsAssumption
       DEF CommitDelivery, EndDelivery, TypeOK, scanVars
  <2>3. HeldBelowLimit'
    BY <1>7 DEF CommitDelivery, EndDelivery, TypeOK, HeldBelowLimit
  <2> QED BY <2>2, <2>3
<1>8. ASSUME NEW d \in Deliverers, LoseDelivery(d) PROVE TInv'
  BY <1>8, BoundsAssumption
     DEF LoseDelivery, EndDelivery, TypeOK, HeldBelowLimit, alertVars, scanVars
<1>9. ASSUME NEW i \in Ids, Age(i) PROVE TInv'
  BY <1>9 DEF Age, TypeOK, HeldBelowLimit, scanVars, deliverVars
<1>10. ASSUME NEW x \in Subjects, Reconfigure(x) PROVE TInv'
  BY <1>10 DEF Reconfigure, TypeOK, HeldBelowLimit, alertVars, scanVars,
               deliverVars
<1>11. CASE UNCHANGED vars
  BY <1>11 DEF vars, TypeOK, HeldBelowLimit, alertVars, scanVars, deliverVars
<1> QED
  BY <1>1, <1>2, <1>3, <1>4, <1>5, <1>6, <1>7, <1>8, <1>9, <1>10, <1>11
     DEF Next, ScanStep, DeliverStep

LEMMA TInvAlways == Spec => []TInv
  BY TInvInit, TInvNext, PTL DEF Spec

\* Every reachable state has the declared types: in particular retry_count
\* never passes MAX_RETRIES, even when deliveries overlap.
THEOREM TypeCorrect == Spec => []TypeOK
  BY TInvAlways, PTL DEF TInv
-----------------------------------------------------------------------------
(* One scan at a time.                                                     *)

OneScan == \A r, s \in Scans :
             scan[r] = "scanning" /\ scan[s] = "scanning" => r = s

\* What a scan has added is new: its own, and nothing recent is like it.
AddedIsNew ==
  \A s \in Scans :
    /\ scan[s] # "scanning" => mine[s] = {}
    /\ \A i \in mine[s] : i[2] = s /\ (i[1] \in Spikes \/ Recent(i[1]) = {})

DInv == TInv /\ OneScan /\ AddedIsNew /\ NoDuplicateAlerts

LEMMA DInvInit == Init => DInv
<1> SUFFICES ASSUME Init PROVE DInv
  OBVIOUS
<1>1. TInv
  BY TInvInit
<1> QED BY <1>1 DEF Init, DInv, OneScan, AddedIsNew, NoDuplicateAlerts

\* The scans are where they were, and no more alerts are recent.
LEMMA DInvFrame ==
  ASSUME DInv, TInv', UNCHANGED <<scan, mine>>, fresh' \subseteq fresh
  PROVE  DInv'
<1>1. OneScan'
  BY DEF DInv, OneScan
<1>2. AddedIsNew'
  BY DEF DInv, AddedIsNew, Recent
<1>3. NoDuplicateAlerts'
  BY DEF DInv, NoDuplicateAlerts
<1> QED BY <1>1, <1>2, <1>3 DEF DInv

\* A scan that ends without inserting.
LEMMA DInvEnd ==
  ASSUME DInv, TInv', NEW s \in Scans, NEW progress \in {"waiting", "done"},
         EndScan(s, progress), UNCHANGED fresh
  PROVE  DInv'
<1>1. OneScan'
  BY DEF DInv, TInv, TypeOK, OneScan, EndScan
<1>2. AddedIsNew'
  BY DEF DInv, TInv, TypeOK, AddedIsNew, EndScan, Recent
<1>3. NoDuplicateAlerts'
  BY DEF DInv, NoDuplicateAlerts
<1> QED BY <1>1, <1>2, <1>3 DEF DInv

LEMMA DInvNext == DInv /\ [Next]_vars /\ "scan" \notin overlaps' => DInv'
<1> SUFFICES ASSUME DInv, [Next]_vars, "scan" \notin overlaps' PROVE DInv'
  OBVIOUS
<1>0. TInv'
  BY TInvNext DEF DInv
<1>1. ASSUME NEW s \in Scans, BeginScan(s) PROVE DInv'
  <2>1. \A r \in Scans : scan[r] # "scanning"
    BY <1>1 DEF BeginScan
  <2>2. scan' = [scan EXCEPT ![s] = "scanning"] /\ UNCHANGED <<mine, fresh>>
    BY <1>1 DEF BeginScan, alertVars
  <2>3. OneScan'
    BY <2>1, <2>2 DEF DInv, TInv, TypeOK, OneScan
  <2>4. AddedIsNew'
    BY <2>1, <2>2 DEF DInv, TInv, TypeOK, AddedIsNew, Recent
  <2>5. NoDuplicateAlerts'
    BY <2>2 DEF DInv, NoDuplicateAlerts
  <2> QED BY <1>0, <2>3, <2>4, <2>5 DEF DInv
<1>2. ASSUME NEW s \in Scans, NEW x \in Subjects, CreateAlert(s, x) PROVE DInv'
  <2>1. scan[s] = "scanning" /\ UNCHANGED fresh
    BY <1>2 DEF CreateAlert, alertVars
  <2>2. CASE /\ x \in Spikes \/ Recent(x) = {}
             /\ mine' = [mine EXCEPT ![s] = @ \cup {<<x, s>>}]
             /\ UNCHANGED scan
    <3>1. OneScan'
      BY <2>2 DEF DInv, OneScan
    <3>2. \A y : Recent(y)' = Recent(y)
      BY <2>1 DEF Recent
    <3>3. AddedIsNew'
      <4> SUFFICES ASSUME NEW r \in Scans
                   PROVE  /\ scan'[r] # "scanning" => mine'[r] = {}
                          /\ \A i \in mine'[r] :
                               /\ i[2] = r
                               /\ i[1] \in Spikes \/ Recent(i[1])' = {}
        BY DEF AddedIsNew
      <4>1. CASE r # s
        <5>1. mine'[r] = mine[r] /\ scan'[r] = scan[r]
          BY <2>2, <4>1 DEF DInv, TInv, TypeOK
        <5> QED BY <3>2, <5>1 DEF DInv, AddedIsNew
      <4>2. CASE r = s
        <5>1. mine'[s] = mine[s] \cup {<<x, s>>} /\ scan'[s] = scan[s]
          BY <2>2 DEF DInv, TInv, TypeOK
        <5>2. <<x, s>>[1] = x /\ <<x, s>>[2] = s
          OBVIOUS
        <5>3. \A i \in mine[s] :
                i[2] = s /\ (i[1] \in Spikes \/ Recent(i[1])' = {})
          BY <3>2 DEF DInv, AddedIsNew
        <5>4. x \in Spikes \/ Recent(x)' = {}
          BY <2>2, <3>2
        <5> QED BY <2>1, <4>2, <5>1, <5>2, <5>3, <5>4
      <4> QED BY <4>1, <4>2
    <3>4. NoDuplicateAlerts'
      BY <2>1 DEF DInv, NoDuplicateAlerts
    <3> QED BY <1>0, <3>1, <3>3, <3>4 DEF DInv
  <2>3. CASE UNCHANGED <<scan, mine>>
    BY <1>0, <2>1, <2>3, DInvFrame
  <2>4. CASE EndScan(s, "done")
    BY <1>0, <2>1, <2>4, DInvEnd
  <2> QED BY <1>2, <2>2, <2>3, <2>4 DEF CreateAlert
<1>3. ASSUME NEW s \in Scans, CommitScan(s) PROVE DInv'
  <2>1. /\ scan[s] = "scanning"
        /\ fresh' = fresh \cup mine[s]
        /\ scan' = [scan EXCEPT ![s] = "done"]
        /\ mine' = [mine EXCEPT ![s] = {}]
    BY <1>3 DEF CommitScan, EndScan
  <2>2. OneScan'
    BY <2>1 DEF DInv, TInv, TypeOK, OneScan
  <2>3. \A r \in Scans : mine'[r] = {}
    BY <2>1 DEF DInv, TInv, TypeOK, OneScan, AddedIsNew
  <2>4. AddedIsNew'
    BY <2>3 DEF AddedIsNew
  <2>5. NoDuplicateAlerts'
    <3> SUFFICES ASSUME NEW i \in fresh', NEW j \in fresh',
                        i[1] = j[1], i[1] \notin Spikes
                 PROVE  i = j
      BY DEF NoDuplicateAlerts
    <3>1. CASE i \in fresh /\ j \in fresh
      BY <3>1 DEF DInv, NoDuplicateAlerts
    <3>2. CASE i \in mine[s] /\ j \in mine[s]
      <4>1. i[2] = s /\ j[2] = s
        BY <3>2 DEF DInv, AddedIsNew
      <4>2. i \in Subjects \X Scans /\ j \in Subjects \X Scans
        BY <3>2 DEF DInv, TInv, TypeOK, Ids
      <4> QED BY <4>1, <4>2
    <3>3. CASE i \in mine[s] /\ j \in fresh
      BY <3>3 DEF DInv, AddedIsNew, Recent
    <3>4. CASE i \in fresh /\ j \in mine[s]
      BY <3>4 DEF DInv, AddedIsNew, Recent
    <3> QED BY <2>1, <3>1, <3>2, <3>3, <3>4
  <2> QED BY <1>0, <2>2, <2>4, <2>5 DEF DInv
<1>4. ASSUME NEW s \in Scans, LoseScan(s) PROVE DInv'
  BY <1>0, <1>4, DInvEnd DEF LoseScan, alertVars
<1>5. ASSUME NEW d \in Deliverers, DeliverStep(d) \/ LoseDelivery(d)
      PROVE  DInv'
  <2>1. UNCHANGED <<scan, mine, fresh>>
    BY <1>5 DEF DeliverStep, Select, Attempt, CommitDelivery, LoseDelivery,
                alertVars, scanVars
  <2> QED BY <1>0, <2>1, DInvFrame
<1>6. ASSUME NEW i \in Ids, Age(i) PROVE DInv'
  <2>1. UNCHANGED <<scan, mine>> /\ fresh' \subseteq fresh
    BY <1>6 DEF Age, scanVars
  <2> QED BY <1>0, <2>1, DInvFrame
<1>7. ASSUME NEW x \in Subjects, Reconfigure(x) PROVE DInv'
  <2>1. UNCHANGED <<scan, mine, fresh>>
    BY <1>7 DEF Reconfigure, alertVars, scanVars
  <2> QED BY <1>0, <2>1, DInvFrame
<1>8. CASE UNCHANGED vars
  <2>1. UNCHANGED <<scan, mine, fresh>>
    BY <1>8 DEF vars, alertVars, scanVars
  <2> QED BY <1>0, <2>1, DInvFrame
<1> QED
  BY <1>1, <1>2, <1>3, <1>4, <1>5, <1>6, <1>7, <1>8 DEF Next, ScanStep

\* Overlaps are remembered.
LEMMA OverlapsGrow == TypeOK /\ [Next]_vars => overlaps \subseteq overlaps'
<1> SUFFICES ASSUME TypeOK, [Next]_vars PROVE overlaps \subseteq overlaps'
  OBVIOUS
<1>1. ASSUME NEW s \in Scans, ScanStep(s) \/ LoseScan(s)
      PROVE  overlaps \subseteq overlaps'
  BY <1>1 DEF ScanStep, BeginScan, CreateAlert, CommitScan, LoseScan
<1>2. ASSUME NEW d \in Deliverers, DeliverStep(d) \/ LoseDelivery(d)
      PROVE  overlaps \subseteq overlaps'
  BY <1>2 DEF DeliverStep, Select, Attempt, CommitDelivery, LoseDelivery
<1>3. ASSUME NEW i \in Ids, Age(i) PROVE overlaps \subseteq overlaps'
  BY <1>3 DEF Age
<1>4. ASSUME NEW x \in Subjects, Reconfigure(x) PROVE overlaps \subseteq overlaps'
  BY <1>4 DEF Reconfigure
<1>5. CASE UNCHANGED vars
  BY <1>5 DEF vars
<1> QED BY <1>1, <1>2, <1>3, <1>4, <1>5 DEF Next

\* As long as scans take turns, the check for an alert of the last day keeps
\* duplicates out, although all inserts of a scan are hidden until its one
\* commit: _create_alert needs no unique index then, and only then.
THEOREM ScansDeduplicate == Spec => []SerialScansDeduplicate
<1> DEFINE CInv == TInv /\ ("scan" \notin overlaps => DInv)
<1>1. Init => CInv
  BY DInvInit DEF DInv
<1>2. CInv /\ [Next]_vars => CInv'
  BY DInvNext, TInvNext, OverlapsGrow DEF TInv
<1>3. CInv => SerialScansDeduplicate
  BY DEF DInv, SerialScansDeduplicate
<1> QED BY <1>1, <1>2, <1>3, PTL DEF Spec
-----------------------------------------------------------------------------
(* One delivery at a time.                                                 *)

OneDelivery == \A d, e \in Deliverers :
                 pc[d] # "idle" /\ pc[e] # "idle" => d = e

\* An alert has no row before its scan has committed.
RowsFollowScans ==
  /\ \A i \in Ids : scan[i[2]] # "done" => status[i] = "none"
  /\ \A s \in Scans : \A i \in mine[s] : scan[s] = "scanning" /\ i[2] = s

\* What the deliverer holds is as it was when selected.
HeldIsCurrent ==
  \A d \in Deliverers :
    /\ todo[d] \cap (ok[d] \cup bad[d]) = {}
    /\ ok[d] \cap bad[d] = {}
    /\ \A i \in todo[d] \cup ok[d] \cup bad[d] :
         status[i] = "pending" /\ seen[d][i] = retries[i]

\* The attempts are those counted, the one that succeeded, the one whose
\* outcome is not committed yet, and those of lost executions.
Accounted(i) ==
  /\ attempts[i] <= retries[i] + faults + 1
  /\ status[i] = "sent" => retries[i] < MaxRetries
  /\ (status[i] # "sent" /\ \A d \in Deliverers : i \notin ok[d] \cup bad[d])
       => attempts[i] <= retries[i] + faults

AttemptsCounted == \A i \in Ids : Accounted(i)

AInv == TInv /\ OneDelivery /\ RowsFollowScans /\ HeldIsCurrent /\ AttemptsCounted

LEMMA AInvImplies == AInv => \A i \in Ids : attempts[i] <= MaxRetries + faults
<1> SUFFICES ASSUME AInv, NEW i \in Ids PROVE attempts[i] <= MaxRetries + faults
  OBVIOUS
<1>1. /\ attempts[i] \in Nat /\ retries[i] \in 0..MaxRetries
      /\ faults \in Nat /\ MaxRetries \in Nat
      /\ attempts[i] <= retries[i] + faults + 1
  BY BoundsAssumption DEF AInv, TInv, TypeOK, AttemptsCounted, Accounted
<1>2. CASE status[i] = "sent"
  <2>1. retries[i] < MaxRetries
    BY <1>2 DEF AInv, AttemptsCounted, Accounted
  <2> QED BY <1>1, <2>1
<1>3. CASE \E d \in Deliverers : i \in ok[d] \cup bad[d]
  <2>1. retries[i] < MaxRetries
    BY <1>3 DEF AInv, TInv, HeldBelowLimit, HeldIsCurrent
  <2> QED BY <1>1, <2>1
<1>4. CASE status[i] # "sent" /\ ~\E d \in Deliverers : i \in ok[d] \cup bad[d]
  <2>1. attempts[i] <= retries[i] + faults
    BY <1>4 DEF AInv, AttemptsCounted, Accounted
  <2> QED BY <1>1, <2>1
<1> QED BY <1>2, <1>3, <1>4

LEMMA AInvInit == Init => AInv
<1> SUFFICES ASSUME Init PROVE AInv
  OBVIOUS
<1>1. TInv
  BY TInvInit
<1>2. \A i \in Ids : i[2] \in Scans
  BY DEF Ids
<1>3. OneDelivery /\ RowsFollowScans /\ HeldIsCurrent
  BY <1>2 DEF Init, OneDelivery, RowsFollowScans, HeldIsCurrent
<1>4. AttemptsCounted
  BY DEF Init, AttemptsCounted, Accounted
<1> QED BY <1>1, <1>3, <1>4 DEF AInv

\* Nothing of the delivery changes, and no row appears.
LEMMA AInvFrame ==
  ASSUME AInv, TInv', RowsFollowScans',
         UNCHANGED <<status, retries, deliverVars, attempts>>,
         UNCHANGED faults \/ faults' = faults + 1
  PROVE  AInv'
<1> USE DEF deliverVars
<1>1. OneDelivery' /\ HeldIsCurrent'
  BY DEF AInv, OneDelivery, HeldIsCurrent
<1>2. AttemptsCounted'
  <2> SUFFICES ASSUME NEW i \in Ids PROVE Accounted(i)'
    BY DEF AttemptsCounted
  <2>1. attempts[i] \in Nat /\ retries[i] \in Nat /\ faults \in Nat
    BY BoundsAssumption DEF AInv, TInv, TypeOK
  <2>2. Accounted(i)
    BY DEF AInv, AttemptsCounted
  <2> QED BY <2>1, <2>2 DEF Accounted
<1> QED BY <1>1, <1>2 DEF AInv

LEMMA AInvScan ==
  ASSUME AInv, TInv', NEW s \in Scans, ScanStep(s) \/ LoseScan(s)
  PROVE  AInv'
<1> USE DEF AInv
<1>0. \A i \in Ids : i[1] \in Subjects /\ i[2] \in Scans
  BY DEF Ids
<1>1. CASE BeginScan(s)
  <2>1. RowsFollowScans'
    BY <1>0, <1>1 DEF BeginScan, alertVars, TInv, TypeOK, RowsFollowScans
  <2> QED BY <1>1, <2>1, AInvFrame DEF BeginScan, alertVars
<1>2. ASSUME scan[s] = "scanning", UNCHANGED status,
             NEW progress \in {"waiting", "done"}, EndScan(s, progress)
      PROVE  RowsFollowScans'
  BY <1>0, <1>2 DEF EndScan, TInv, TypeOK, RowsFollowScans
<1>3. ASSUME NEW x \in Subjects, CreateAlert(s, x) PROVE AInv'
  <2>1. scan[s] = "scanning" /\ UNCHANGED status
    BY <1>3 DEF CreateAlert, alertVars
  <2>2. RowsFollowScans'
    <3>1. CASE /\ mine' = [mine EXCEPT ![s] = @ \cup {<<x, s>>}]
               /\ UNCHANGED scan
      <4>1. <<x, s>>[2] = s
        OBVIOUS
      <4>2. \A r \in Scans : mine'[r] = IF r = s THEN mine[s] \cup {<<x, s>>}
                                                ELSE mine[r]
        BY <3>1 DEF TInv, TypeOK
      <4>3. \A r \in Scans : \A i \in mine'[r] :
              scan[r] = "scanning" /\ i[2] = r
        BY <2>1, <4>1, <4>2 DEF RowsFollowScans
      <4> QED BY <2>1, <3>1, <4>3 DEF RowsFollowScans
    <3>2. CASE UNCHANGED <<scan, mine>>
      BY <2>1, <3>2 DEF RowsFollowScans
    <3>3. CASE EndScan(s, "done")
      BY <1>2, <2>1, <3>3
    <3> QED BY <1>3, <3>1, <3>2, <3>3 DEF CreateAlert
  <2> QED BY <1>3, <2>2, AInvFrame DEF CreateAlert, alertVars
<1>4. CASE CommitScan(s)
  <2>1. /\ status' = [i \in Ids |-> IF i \in mine[s] THEN "pending" ELSE status[i]]
        /\ scan' = [scan EXCEPT ![s] = "done"]
        /\ mine' = [mine EXCEPT ![s] = {}]
        /\ UNCHANGED <<retries, deliverVars, faults, attempts>>
    BY <1>4 DEF CommitScan, EndScan
  <2>2. \A i \in mine[s] : i \in Ids /\ i[2] = s /\ status[i] = "none"
    BY <1>0 DEF TInv, TypeOK, RowsFollowScans
  <2>3. RowsFollowScans'
    BY <1>0, <2>1, <2>2 DEF TInv, TypeOK, RowsFollowScans
  <2>4. OneDelivery'
    BY <2>1 DEF OneDelivery, deliverVars
  <2>5. HeldIsCurrent'
    BY <2>1, <2>2 DEF TInv, TypeOK, HeldIsCurrent, deliverVars
  <2>6. AttemptsCounted'
    BY <2>1, <2>2 DEF AttemptsCounted, Accounted, deliverVars
  <2> QED BY <2>3, <2>4, <2>5, <2>6
<1>5. CASE LoseScan(s)
  BY <1>2, <1>5, AInvFrame DEF LoseScan, alertVars
<1> QED BY <1>1, <1>3, <1>4, <1>5 DEF ScanStep

LEMMA AInvDelivery ==
  ASSUME "delivery" \notin overlaps', AInv, TInv', NEW d \in Deliverers,
         DeliverStep(d) \/ LoseDelivery(d)
  PROVE  AInv'
<1> USE DEF AInv
<1>0. \A i \in Ids : /\ attempts[i] \in Nat /\ retries[i] \in Nat
                    /\ faults \in Nat /\ MaxRetries \in Nat
  BY BoundsAssumption DEF TInv, TypeOK
<1>1. CASE Select(d)
  <2>1. PICK batch \in SUBSET Pending : todo' = [todo EXCEPT ![d] = batch]
    BY <1>1 DEF Select
  <2>2. /\ \A e \in Deliverers : pc[e] = "idle"
        /\ pc' = [pc EXCEPT ![d] = "delivering"]
        /\ seen' = [seen EXCEPT ![d] = retries]
        /\ UNCHANGED <<alertVars, scanVars, ok, bad, faults, attempts>>
    BY <1>1 DEF Select
  <2>3. \A e \in Deliverers : todo[e] = {} /\ ok[e] = {} /\ bad[e] = {}
    BY <2>2 DEF TInv, HeldBelowLimit
  <2>4. OneDelivery'
    BY <2>2 DEF TInv, TypeOK, OneDelivery
  <2>5. HeldIsCurrent'
    BY <2>1, <2>2, <2>3 DEF TInv, TypeOK, HeldIsCurrent, alertVars, Pending
  <2>6. RowsFollowScans' /\ AttemptsCounted'
    BY <2>2 DEF RowsFollowScans, AttemptsCounted, Accounted, alertVars, scanVars
  <2> QED BY <2>4, <2>5, <2>6
<1>2. ASSUME pc[d] # "idle"
      PROVE  \A e \in Deliverers \ {d} : todo[e] = {} /\ ok[e] = {} /\ bad[e] = {}
  BY <1>2 DEF OneDelivery, TInv, HeldBelowLimit
<1>3. ASSUME NEW i \in Ids, Attempt(d, i) PROVE AInv'
  <2>1. /\ i \in todo[d]
        /\ todo' = [todo EXCEPT ![d] = @ \ {i}]
        /\ attempts' = [attempts EXCEPT ![i] = @ + 1]
        /\ UNCHANGED <<alertVars, scanVars, pc, seen, faults>>
    BY <1>3 DEF Attempt
  <2>2. pc[d] # "idle"
    BY <2>1 DEF TInv, HeldBelowLimit
  <2>3. /\ ok'[d] \cup bad'[d] = ok[d] \cup bad[d] \cup {i}
        /\ ok'[d] \cap bad'[d] = {}
        /\ \A e \in Deliverers \ {d} : ok'[e] = ok[e] /\ bad'[e] = bad[e]
    <3>1. i \notin ok[d] \cup bad[d] /\ ok[d] \cap bad[d] = {}
      BY <2>1 DEF HeldIsCurrent
    <3>2. CASE ok' = [ok EXCEPT ![d] = @ \cup {i}] /\ UNCHANGED bad
      BY <3>1, <3>2 DEF TInv, TypeOK
    <3>3. CASE bad' = [bad EXCEPT ![d] = @ \cup {i}] /\ UNCHANGED ok
      BY <3>1, <3>3 DEF TInv, TypeOK
    <3> QED BY <1>3, <3>2, <3>3 DEF Attempt
  <2>4. todo'[d] = todo[d] \ {i} /\ \A e \in Deliverers \ {d} : todo'[e] = todo[e]
    BY <2>1 DEF TInv, TypeOK
  <2>5. OneDelivery' /\ RowsFollowScans'
    BY <2>1 DEF OneDelivery, RowsFollowScans, alertVars, scanVars
  <2>6. HeldIsCurrent'
    <3>1. \A e \in Deliverers \ {d} :
            todo'[e] = {} /\ ok'[e] = {} /\ bad'[e] = {}
      BY <1>2, <2>2, <2>3, <2>4
    <3>2. todo'[d] \cap (ok'[d] \cup bad'[d]) = {}
      BY <2>3, <2>4 DEF HeldIsCurrent
    <3>3. \A j \in todo'[d] \cup ok'[d] \cup bad'[d] :
            status'[j] = "pending" /\ seen'[d][j] = retries'[j]
      BY <2>1, <2>3, <2>4 DEF HeldIsCurrent, alertVars
    <3> QED BY <2>3, <3>1, <3>2, <3>3 DEF HeldIsCurrent
  <2>7. AttemptsCounted'
    <3> SUFFICES ASSUME NEW j \in Ids PROVE Accounted(j)'
      BY DEF AttemptsCounted
    <3>0. Accounted(j) /\ UNCHANGED <<retries, status, faults>>
      BY <2>1 DEF AttemptsCounted, alertVars
    <3>1. CASE j = i
      <4>1. status[i] = "pending" /\ \A e \in Deliverers : i \notin ok[e] \cup bad[e]
        BY <1>2, <2>1, <2>2 DEF HeldIsCurrent
      <4>2. attempts[i] <= retries[i] + faults
        BY <3>0, <3>1, <4>1 DEF Accounted
      <4>3. attempts'[i] = attempts[i] + 1
        BY <2>1 DEF TInv, TypeOK
      <4>4. i \in ok'[d] \cup bad'[d]
        BY <2>3
      <4> QED BY <1>0, <3>0, <3>1, <4>1, <4>2, <4>3, <4>4 DEF Accounted
    <3>2. CASE j # i
      <4>1. attempts'[j] = attempts[j]
        BY <2>1, <3>2 DEF TInv, TypeOK
      <4>2. \A e \in Deliverers :
              j \in ok'[e] \cup bad'[e] <=> j \in ok[e] \cup bad[e]
        BY <2>3, <3>2
      <4> QED BY <3>0, <4>1, <4>2 DEF Accounted
    <3> QED BY <3>1, <3>2
  <2> QED BY <2>5, <2>6, <2>7
<1>4. ASSUME EndDelivery(d), pc[d] # "idle"
      PROVE  /\ \A e \in Deliverers : ok'[e] = {} /\ bad'[e] = {} /\ todo'[e] = {}
             /\ OneDelivery'
  BY <1>2, <1>4 DEF EndDelivery, OneDelivery, TInv, TypeOK
<1>5. CASE CommitDelivery(d)
  <2>1. /\ pc[d] # "idle" /\ EndDelivery(d)
        /\ UNCHANGED <<scanVars, faults, attempts>>
    BY <1>5 DEF CommitDelivery
  <2>2. \A i \in Ids :
          /\ status'[i] = IF i \in ok[d] THEN "sent"
                          ELSE IF i \in bad[d] /\ seen[d][i] + 1 >= MaxRetries
                          THEN "failed" ELSE status[i]
          /\ retries'[i] = IF i \in bad[d] THEN seen[d][i] + 1 ELSE retries[i]
    BY <1>5 DEF CommitDelivery
  <2>3. \A i \in ok[d] \cup bad[d] :
          /\ i \in Ids /\ status[i] = "pending"
          /\ seen[d][i] = retries[i] /\ retries[i] < MaxRetries
    BY DEF HeldIsCurrent, TInv, TypeOK, HeldBelowLimit
  <2>4. HeldIsCurrent' /\ OneDelivery'
    BY <1>4, <2>1 DEF HeldIsCurrent
  <2>5. RowsFollowScans'
    BY <2>1, <2>2, <2>3 DEF RowsFollowScans, scanVars
  <2>6. AttemptsCounted'
    <3> SUFFICES ASSUME NEW i \in Ids PROVE Accounted(i)'
      BY DEF AttemptsCounted
    <3>0. Accounted(i)
      BY DEF AttemptsCounted
    <3>1. CASE i \in ok[d]
      <4>1. i \notin bad[d]
        BY <3>1 DEF HeldIsCurrent
      <4>2. status'[i] = "sent" /\ retries'[i] = retries[i]
        BY <2>2, <3>1, <4>1
      <4> QED BY <2>1, <2>3, <3>0, <3>1, <4>2 DEF Accounted
    <3>2. CASE i \in bad[d]
      <4>1. i \notin ok[d]
        BY <3>2 DEF HeldIsCurrent
      <4>2. status'[i] \in {"pending", "failed"} /\ retries'[i] = retries[i] + 1
        BY <2>2, <2>3, <3>2, <4>1
      <4>3. attempts[i] <= retries[i] + faults + 1
        BY <3>0 DEF Accounted
      <4> QED BY <1>0, <2>1, <4>2, <4>3 DEF Accounted
    <3>3. CASE i \notin ok[d] \cup bad[d]
      <4>1. status'[i] = status[i] /\ retries'[i] = retries[i]
        BY <2>2, <3>3
      <4>2. \A e \in Deliverers : i \notin ok[e] \cup bad[e]
        BY <1>2, <2>1, <3>3
      <4> QED BY <2>1, <3>0, <4>1, <4>2 DEF Accounted
    <3> QED BY <3>1, <3>2, <3>3
  <2> QED BY <2>4, <2>5, <2>6
<1>6. CASE LoseDelivery(d)
  <2>1. /\ pc[d] # "idle" /\ EndDelivery(d) /\ faults' = faults + 1
        /\ UNCHANGED <<alertVars, scanVars, attempts>>
    BY <1>6 DEF LoseDelivery
  <2>2. HeldIsCurrent' /\ OneDelivery'
    BY <1>4, <2>1 DEF HeldIsCurrent
  <2>3. RowsFollowScans'
    BY <2>1 DEF RowsFollowScans, alertVars, scanVars
  <2>4. AttemptsCounted'
    BY <1>0, <2>1 DEF AttemptsCounted, Accounted, alertVars
  <2> QED BY <2>2, <2>3, <2>4
<1> QED BY <1>1, <1>3, <1>5, <1>6 DEF DeliverStep

LEMMA AInvNext == AInv /\ [Next]_vars /\ "delivery" \notin overlaps' => AInv'
<1> SUFFICES ASSUME AInv, [Next]_vars, "delivery" \notin overlaps' PROVE AInv'
  OBVIOUS
<1>0. TInv'
  BY TInvNext DEF AInv
<1>1. ASSUME UNCHANGED <<status, retries, deliverVars, scanVars, faults, attempts>>
      PROVE  AInv'
  <2>1. RowsFollowScans'
    BY <1>1 DEF AInv, RowsFollowScans, scanVars
  <2> QED BY <1>0, <1>1, <2>1, AInvFrame
<1>2. ASSUME NEW i \in Ids, Age(i) PROVE AInv'
  BY <1>1, <1>2 DEF Age
<1>3. ASSUME NEW x \in Subjects, Reconfigure(x) PROVE AInv'
  BY <1>1, <1>3 DEF Reconfigure, alertVars
<1>4. CASE UNCHANGED vars
  BY <1>1, <1>4 DEF vars, alertVars
<1> QED BY <1>0, <1>2, <1>3, <1>4, AInvScan, AInvDelivery DEF Next

\* As long as deliveries take turns, no alert is attempted more often than
\* MAX_RETRIES times, plus once for each execution that was lost with the
\* attempts it had made: deliver_pending_alerts commits all its counts at once.
THEOREM AttemptsBound == Spec => []AttemptsAreBounded
<1> DEFINE CInv == TInv /\ ("delivery" \notin overlaps => AInv)
<1>1. Init => CInv
  BY AInvInit DEF AInv
<1>2. CInv /\ [Next]_vars => CInv'
  BY AInvNext, TInvNext, OverlapsGrow DEF TInv
<1>3. CInv => AttemptsAreBounded
  BY AInvImplies DEF AttemptsAreBounded
<1> QED BY <1>1, <1>2, <1>3, PTL DEF Spec

\* Scans that take turns insert no duplicate, and deliveries that take turns
\* make no attempt too many.
THEOREM TurnsAreEnough == Spec => []TurnsPreventRepetition
<1>1. SerialScansDeduplicate /\ AttemptsAreBounded => TurnsPreventRepetition
  BY DEF TurnsPreventRepetition
<1> QED BY <1>1, ScansDeduplicate, AttemptsBound, PTL
-----------------------------------------------------------------------------
(* DailyIngestion.                                                          *)

\* While no key has expired under its owner, whoever runs holds the key.
Owned == ~expired => \A w \in Workers : Running(w) => lock = w

\* A run crosses at most one midnight.
OneMidnight ==
  \A w \in Workers : Running(w) => last[w] <= today /\ today <= last[w] + 1

\* The last success is not ahead of the calendar, nor too far behind it.
InTime ==
  lastSuccess # Never =>
    /\ lastSuccess <= today
    /\ ~outage => today - lastSuccess <= MaxLookback

\* The window a nightly run has chosen reaches back to the last success; that
\* of a manual run may not.
Reaches ==
  ~outage =>
    \A w \in Workers :
      (phase[w] \in {"bigquery", "odp", "record", "refresh"} /\ override[w] = 0) =>
        /\ first[w] <= last[w]
        /\ lastSuccess # Never => first[w] <= lastSuccess

\* The window of a run whose BigQuery phase succeeded is covered.
Read ==
  \A w \in Workers :
    phase[w] \in {"odp", "record"} /\ ~failed[w] => Window(w) \subseteq fetched

\* The lock, the clock and what has been read; with them, the coverage.
Base == IngestTypeOK /\ Owned /\ OneMidnight /\ InTime /\ Read
IInv == Base /\ Reaches /\ NoGap
-----------------------------------------------------------------------------
\* The lookback of a nightly run covers the gap up to the cap.
LEMMA LookbackCovers ==
  ASSUME NEW date \in Nat, lastSuccess \in -1..MaxDay
  PROVE  /\ Lookback(date) \in Nat
         /\ (/\ lastSuccess # Never
             /\ date - lastSuccess <= MaxLookback)
              => date - lastSuccess <= Lookback(date)
  BY LookbackAssumption, DayAssumption DEF Lookback, Least, Never

\* Lookbacks given by hand and days are integers.
LEMMA OverrideInt == \A days \in Lookbacks \cup {0} : days \in Int
  BY LookbackAssumption

LEMMA DayNat == \A d \in 0..MaxDay : d \in Nat
  BY DayAssumption

\* The initial state satisfies the invariant.
LEMMA InitInv == IngestInit => IInv
<1> SUFFICES ASSUME IngestInit PROVE IInv
    OBVIOUS
<1> USE LookbackAssumption, DayAssumption, NobodyAssumption DEF IngestInit
<1>1. IngestTypeOK
      <2>1. today \in 0..MaxDay /\ lastSuccess \in -1..MaxDay /\ since \in Int
            BY DEF Never
      <2>2. first \in [Workers -> Int] /\ last \in [Workers -> 0..MaxDay]
            OBVIOUS
      <2>3. override \in [Workers -> Lookbacks \cup {0}]
            OBVIOUS
      <2>4. QED BY <2>1, <2>2, <2>3 DEF IngestTypeOK
<1>2. Owned /\ OneMidnight
      BY DEF Owned, OneMidnight, Running
<1>3. InTime /\ NoGap
      BY DEF InTime, NoGap, Never
<1>4. Read /\ Reaches
      BY DEF Read, Reaches
<1>5. QED BY <1>1, <1>2, <1>3, <1>4 DEF IInv, Base

\* Every step keeps the types.
LEMMA NextType == IngestTypeOK /\ [IngestNext]_ingestVars => IngestTypeOK'
<1> SUFFICES ASSUME IngestTypeOK, [IngestNext]_ingestVars PROVE IngestTypeOK'
    OBVIOUS
<1> USE DayAssumption
<1>1. ASSUME NEW w \in Workers, NEW days \in Lookbacks \cup {0}, Begin(w, days)
      PROVE  IngestTypeOK'
      BY <1>1 DEF IngestTypeOK, Begin, Goto, dataVars
<1>2. ASSUME NEW w \in Workers, ChooseWindow(w) PROVE IngestTypeOK'
      <2>1. Lookback(today) \in Nat
            BY LookbackCovers DEF IngestTypeOK
      <2>2. override[w] \in Int /\ last[w] \in Nat
            BY OverrideInt, DayNat DEF IngestTypeOK
      <2>3. (last[w] - IF override[w] # 0 THEN override[w] ELSE Lookback(today))
              \in Int
            BY <2>1, <2>2
      <2>4. first' \in [Workers -> Int]
            BY <1>2, <2>3 DEF IngestTypeOK, ChooseWindow
      <2>5. QED BY <1>2, <2>4 DEF IngestTypeOK, ChooseWindow, Goto, dataVars
<1>3. ASSUME NEW w \in Workers, ReadBigQuery(w) PROVE IngestTypeOK'
      <2>1. Window(w) \subseteq Int
            BY DEF IngestTypeOK, Window
      <2>2. QED BY <1>3, <2>1 DEF IngestTypeOK, ReadBigQuery, Goto
<1>4. ASSUME NEW w \in Workers, ReadOdp(w) PROVE IngestTypeOK'
      <2>1. Window(w) \subseteq Int
            BY DEF IngestTypeOK, Window
      <2>2. QED BY <1>4, <2>1 DEF IngestTypeOK, ReadOdp, Goto
<1>5. ASSUME NEW w \in Workers, RecordRun(w) PROVE IngestTypeOK'
      BY <1>5 DEF IngestTypeOK, RecordRun, Goto, Least
<1>6. ASSUME NEW w \in Workers, Refresh(w) PROVE IngestTypeOK'
      BY <1>6 DEF IngestTypeOK, Refresh, Goto, dataVars
<1>7. ASSUME NEW w \in Workers, FailRun(w) PROVE IngestTypeOK'
      BY <1>7 DEF IngestTypeOK, FailRun, Goto, dataVars
<1>8. ASSUME NEW w \in Workers, Release(w) PROVE IngestTypeOK'
      BY <1>8 DEF IngestTypeOK, Release, Forget, Goto, dataVars
<1>9. ASSUME NEW w \in Workers, CrashRun(w) PROVE IngestTypeOK'
      BY <1>9 DEF IngestTypeOK, CrashRun, Forget, Goto, dataVars
<1>10. CASE Expire
      BY <1>10 DEF IngestTypeOK, Expire, runVars, dataVars, Running
<1>11. CASE Tick
      BY <1>11 DEF IngestTypeOK, Tick, runVars, dataVars, Running
<1>12. CASE UNCHANGED ingestVars
      BY <1>12 DEF IngestTypeOK, ingestVars, runVars, dataVars
<1>13. QED
      BY <1>1, <1>2, <1>3, <1>4, <1>5, <1>6, <1>7, <1>8, <1>9, <1>10, <1>11,
         <1>12 DEF IngestNext, RunStep

\* Every step keeps the lock discipline, the clock and what has been read.
LEMMA NextBase == Base /\ [IngestNext]_ingestVars => Base'
<1> SUFFICES ASSUME Base, [IngestNext]_ingestVars PROVE Base'
    OBVIOUS
<1> USE DayAssumption
<1>t. IngestTypeOK /\ IngestTypeOK'
      BY NextType DEF Base
<1>1. ASSUME NEW w \in Workers, NEW days \in Lookbacks \cup {0}, Begin(w, days)
      PROVE  Base'
      <2>1. Owned'
            BY <1>1, NobodyAssumption DEF Base, IngestTypeOK, Owned, Begin, Goto, Running
      <2>2. OneMidnight'
            BY <1>1 DEF Base, IngestTypeOK, OneMidnight, Begin, Goto, Running
      <2>3. InTime' /\ Read'
            BY <1>1 DEF Base, IngestTypeOK, InTime, Read, Begin, Goto, dataVars, Window
      <2>4. QED BY <1>t, <2>1, <2>2, <2>3 DEF Base
<1>2. ASSUME NEW w \in Workers, ChooseWindow(w) PROVE Base'
      BY <1>2, <1>t DEF Base, IngestTypeOK, Owned, OneMidnight, InTime, Read,
                  ChooseWindow, Goto, dataVars, Running, Window, Never
<1>3. ASSUME NEW w \in Workers, ReadBigQuery(w) PROVE Base'
      BY <1>3, <1>t DEF Base, IngestTypeOK, Owned, OneMidnight, InTime, Read,
                  ReadBigQuery, Goto, Running, Window, Never
<1>4. ASSUME NEW w \in Workers, ReadOdp(w) PROVE Base'
      BY <1>4, <1>t DEF Base, IngestTypeOK, Owned, OneMidnight, InTime, Read, ReadOdp,
                  Goto, Running, Window, Never
<1>5. ASSUME NEW w \in Workers, RecordRun(w) PROVE Base'
      <2>1. Owned' /\ OneMidnight'
            BY <1>5 DEF Base, IngestTypeOK, Owned, OneMidnight, RecordRun, Goto, Running
      <2>2. InTime'
            BY <1>5, LookbackAssumption
            DEF Base, IngestTypeOK, InTime, RecordRun, Goto, Never
      <2>3. Read'
            BY <1>5 DEF Base, IngestTypeOK, Read, RecordRun, Goto, Window
      <2>4. QED BY <1>t, <2>1, <2>2, <2>3 DEF Base
<1>6. ASSUME NEW w \in Workers, Refresh(w) PROVE Base'
      BY <1>6, <1>t DEF Base, IngestTypeOK, Owned, OneMidnight, InTime, Read, Refresh,
                  Goto, dataVars, Running, Window, Never
<1>7. ASSUME NEW w \in Workers, FailRun(w) PROVE Base'
      BY <1>7, <1>t DEF Base, IngestTypeOK, Owned, OneMidnight, InTime, Read, FailRun,
                  Goto, dataVars, Running, Window, Never
<1>8. ASSUME NEW w \in Workers, Release(w) PROVE Base'
      BY <1>8, <1>t DEF Base, IngestTypeOK, Owned, OneMidnight, InTime, Read, Release,
                  Forget, Goto, dataVars, Running, Window, Never
<1>9. ASSUME NEW w \in Workers, CrashRun(w) PROVE Base'
      BY <1>9, <1>t DEF Base, IngestTypeOK, Owned, OneMidnight, InTime, Read, CrashRun,
                  Forget, Goto, dataVars, Running, Window, Never
<1>10. CASE Expire
      BY <1>10, <1>t DEF Base, IngestTypeOK, Owned, OneMidnight, InTime, Read, Expire,
                  runVars, dataVars, Running, Window, Never
<1>11. CASE Tick
      <2>1. Owned' /\ Read'
            BY <1>11 DEF Base, Owned, Read, Tick, runVars, dataVars, Running, Window
      <2>2. OneMidnight'
            <3>1. \A w \in Workers : Running(w)' <=> Running(w)
                  BY <1>11 DEF Tick, runVars, Running
            <3>2. \A w \in Workers : Running(w) => last[w] = today
                  BY <1>11 DEF Tick
            <3>3. last' = last /\ today' = today + 1 /\ today \in Nat
                  BY <1>11, <1>t DEF Tick, runVars, IngestTypeOK
            <3>4. \A w \in Workers : Running(w) =>
                    last[w] <= today + 1 /\ today + 1 <= last[w] + 1
                  BY <3>2, <3>3
            <3>5. QED BY <3>1, <3>3, <3>4 DEF OneMidnight
      <2>3. InTime'
            <3>1. /\ today' = today + 1 /\ lastSuccess' = lastSuccess
                  /\ today \in Int /\ lastSuccess \in Int
                  BY <1>11, <1>t DEF Tick, dataVars, IngestTypeOK
            <3>2. ASSUME lastSuccess # Never, ~outage'
                  PROVE  today + 1 - lastSuccess <= MaxLookback
                  <4>1. ~(today + 1 - lastSuccess > MaxLookback)
                        BY <1>11, <3>2 DEF Tick
                  <4>2. QED BY <4>1, <3>1, LookbackAssumption
            <3>3. lastSuccess # Never => lastSuccess <= today + 1
                  BY <3>1 DEF Base, InTime
            <3>4. QED BY <3>1, <3>2, <3>3 DEF InTime
      <2>4. QED BY <1>t, <2>1, <2>2, <2>3 DEF Base
<1>12. CASE UNCHANGED ingestVars
      BY <1>12, <1>t DEF Base, IngestTypeOK, Owned, OneMidnight, InTime, Read, ingestVars,
                  runVars, dataVars, Running, Window, Never
<1>13. QED
      BY <1>1, <1>2, <1>3, <1>4, <1>5, <1>6, <1>7, <1>8, <1>9, <1>10, <1>11,
         <1>12 DEF IngestNext, RunStep

\* Every step keeps the windows long enough and the coverage without a gap.
LEMMA NextCoverage == IInv /\ [IngestNext]_ingestVars => Reaches' /\ NoGap'
<1> SUFFICES ASSUME IInv, [IngestNext]_ingestVars PROVE Reaches' /\ NoGap'
    OBVIOUS
<1>t. IngestTypeOK /\ Base'
      BY NextBase DEF IInv, Base
<1>1. ASSUME NEW w \in Workers, NEW days \in Lookbacks \cup {0}, Begin(w, days)
      PROVE  Reaches' /\ NoGap'
      BY <1>1, <1>t DEF IInv, IngestTypeOK, Reaches, NoGap, Begin, Goto, dataVars
<1>2. ASSUME NEW w \in Workers, ChooseWindow(w) PROVE Reaches' /\ NoGap'
      <2>1. override[w] = 0 => first'[w] = last[w] - Lookback(today)
            BY <1>2, <1>t DEF ChooseWindow, IngestTypeOK
      <2>2. last[w] \in Int /\ last[w] <= today /\ today \in Nat
            BY <1>2, <1>t, DayAssumption
            DEF IInv, Base, OneMidnight, ChooseWindow, Running, IngestTypeOK
      <2>3. Lookback(today) \in Nat
            BY <2>2, <1>t, LookbackCovers DEF IngestTypeOK
      <2>4. ASSUME ~outage, lastSuccess # Never
            PROVE  today - lastSuccess <= Lookback(today)
            <3>1. today - lastSuccess <= MaxLookback
                  BY <2>4 DEF IInv, Base, InTime
            <3>2. QED BY <3>1, <2>2, <2>4, <1>t, LookbackCovers DEF IngestTypeOK
      <2>5. override[w] = 0 /\ ~outage /\ lastSuccess # Never
              => first'[w] <= lastSuccess
            BY <2>1, <2>2, <2>3, <2>4, <1>t, DayAssumption DEF IngestTypeOK
      <2>6. override[w] = 0 => first'[w] <= last[w]
            BY <2>1, <2>2, <2>3
      <2>7. Reaches'
            BY <1>2, <1>t, <2>5, <2>6
            DEF IInv, Reaches, ChooseWindow, Goto, dataVars, IngestTypeOK
      <2>8. NoGap'
            BY <1>2 DEF IInv, NoGap, ChooseWindow, dataVars
      <2>9. QED BY <2>7, <2>8
<1>3. ASSUME NEW w \in Workers, ReadBigQuery(w) PROVE Reaches' /\ NoGap'
      BY <1>3, <1>t DEF IInv, IngestTypeOK, Reaches, NoGap, ReadBigQuery, Goto
<1>4. ASSUME NEW w \in Workers, ReadOdp(w) PROVE Reaches' /\ NoGap'
      BY <1>4, <1>t DEF IInv, IngestTypeOK, Reaches, NoGap, ReadOdp, Goto
<1>5. ASSUME NEW w \in Workers, RecordRun(w) PROVE Reaches' /\ NoGap'
      <2>1. CASE failed[w]
            BY <1>5, <1>t, <2>1 DEF IInv, IngestTypeOK, Reaches, NoGap, RecordRun, Goto
      <2>2. CASE ~failed[w]
            <3>1. /\ lastSuccess' = today
                  /\ since' = IF lastSuccess = Never \/ FallsShort(w) THEN first[w]
                              ELSE Least(since, first[w])
                  /\ UNCHANGED <<override, first, last, fetched, outage>>
                  /\ \A v \in Workers :
                       phase'[v] \in {"bigquery", "odp", "record", "refresh"} =>
                         phase[v] \in {"bigquery", "odp", "record", "refresh"}
                  BY <1>5, <1>t, <2>2 DEF RecordRun, Goto, IngestTypeOK
            <3>2. today \in Int /\ since \in Int /\ first[w] \in Int
                  /\ last[w] \in Int /\ lastSuccess \in Int
                  BY <1>t, DayAssumption DEF IngestTypeOK
            <3>3. \A v \in Workers : phase[v] # "idle" => last[v] <= today
                  BY DEF IInv, Base, OneMidnight, Running
            <3>4. Reaches'
                  <4>1. ASSUME ~outage, NEW v \in Workers,
                               phase[v] \in {"bigquery", "odp", "record", "refresh"},
                               override[v] = 0
                        PROVE  first[v] <= last[v] /\ first[v] <= today
                        <5>1. first[v] <= last[v] /\ last[v] <= today
                              BY <4>1, <3>3 DEF IInv, Reaches
                        <5>2. first[v] \in Int /\ last[v] \in Int
                              BY <1>t, DayAssumption DEF IngestTypeOK
                        <5>3. QED BY <5>1, <5>2, <3>2
                  <4>2. QED BY <3>1, <4>1 DEF Reaches
            <3>5. ASSUME ~outage PROVE since'..(today - 1) \subseteq fetched
                  <4>1. first[w]..last[w] \subseteq fetched
                        BY <1>5, <2>2 DEF IInv, Base, Read, RecordRun, Window
                  <4>2. today <= last[w] + 1
                        BY <1>5 DEF IInv, Base, OneMidnight, RecordRun, Running
                  <4>3. CASE lastSuccess = Never \/ FallsShort(w)
                        BY <3>1, <3>2, <4>1, <4>2, <4>3
                  <4>4. CASE lastSuccess # Never /\ ~FallsShort(w)
                        <5>1. since..(lastSuccess - 1) \subseteq fetched
                              BY <3>5, <4>4 DEF IInv, NoGap
                        <5>2. first[w] <= lastSuccess
                              <6>1. CASE override[w] = 0
                                    BY <1>5, <3>5, <4>4, <6>1
                                    DEF IInv, Reaches, RecordRun
                              <6>2. CASE override[w] # 0
                                    BY <3>2, <4>4, <6>2 DEF FallsShort
                              <6>3. QED BY <6>1, <6>2
                        <5>3. since' = Least(since, first[w])
                              BY <3>1, <4>4
                        <5>4. ASSUME NEW d \in since'..(today - 1)
                              PROVE  \/ d \in since..(lastSuccess - 1)
                                     \/ d \in first[w]..last[w]
                              BY <5>2, <5>3, <3>2, <4>2 DEF Least
                        <5>5. QED BY <5>1, <5>4, <4>1
                  <4>5. QED BY <4>3, <4>4
            <3>6. NoGap'
                  BY <3>1, <3>5 DEF NoGap
            <3>7. QED BY <3>4, <3>6
      <2>3. QED BY <2>1, <2>2
<1>6. ASSUME NEW w \in Workers, Refresh(w) PROVE Reaches' /\ NoGap'
      BY <1>6, <1>t DEF IInv, IngestTypeOK, Reaches, NoGap, Refresh, Goto, dataVars
<1>7. ASSUME NEW w \in Workers, FailRun(w) PROVE Reaches' /\ NoGap'
      BY <1>7, <1>t DEF IInv, IngestTypeOK, Reaches, NoGap, FailRun, Goto, dataVars
<1>8. ASSUME NEW w \in Workers, Release(w) PROVE Reaches' /\ NoGap'
      BY <1>8, <1>t DEF IInv, IngestTypeOK, Reaches, NoGap, Release, Forget, Goto, dataVars
<1>9. ASSUME NEW w \in Workers, CrashRun(w) PROVE Reaches' /\ NoGap'
      BY <1>9, <1>t DEF IInv, IngestTypeOK, Reaches, NoGap, CrashRun, Forget, Goto, dataVars
<1>10. CASE Expire
      BY <1>10 DEF IInv, Reaches, NoGap, Expire, runVars, dataVars
<1>11. CASE Tick
      BY <1>11 DEF IInv, Reaches, NoGap, Tick, runVars, dataVars
<1>12. CASE UNCHANGED ingestVars
      BY <1>12 DEF IInv, Reaches, NoGap, ingestVars, runVars, dataVars
<1>13. QED
      BY <1>1, <1>2, <1>3, <1>4, <1>5, <1>6, <1>7, <1>8, <1>9, <1>10, <1>11,
         <1>12 DEF IngestNext, RunStep
-----------------------------------------------------------------------------
\* The types and the lock discipline are invariant.
LEMMA BaseInvariant == IngestSpec => []Base
<1>1. IngestInit => Base
      BY InitInv DEF IInv
<1>2. QED BY <1>1, NextBase, PTL DEF IngestSpec

\* Every reachable state has the declared types.
THEOREM IngestTypeCorrect == IngestSpec => []IngestTypeOK
<1>1. Base => IngestTypeOK
      BY DEF Base
<1>2. QED BY <1>1, BaseInvariant, PTL

\* Ingestion runs overlap only after a key has expired under a running owner.
THEOREM MutualExclusion == IngestSpec => []OneRunUnlessExpired
<1>1. Base => OneRunUnlessExpired
      BY DEF Base, Owned, OneRunUnlessExpired
<1>2. QED BY <1>1, BaseInvariant, PTL

\* No day falls between two successful windows, whatever lookbacks manual runs
\* are given: coverage starts anew only where one of these falls short of the
\* last success, and ingestion must not have failed for longer than the cap.
THEOREM CoverageHasNoGap == IngestSpec => []NoGap
<1>1. IngestInit => IInv
      BY InitInv
<1>2. IInv /\ [IngestNext]_ingestVars => IInv'
      BY NextBase, NextCoverage DEF IInv
<1>3. IInv => NoGap
      BY DEF IInv
<1>4. QED BY <1>1, <1>2, <1>3, PTL DEF IngestSpec

\* Runs take turns while the key outlives its owner, and leave no day out.
THEOREM TurnsWithoutGap == IngestSpec => []RunsTakeTurnsWithoutGap
<1>1. OneRunUnlessExpired /\ NoGap => RunsTakeTurnsWithoutGap
      BY DEF RunsTakeTurnsWithoutGap
<1>2. QED BY <1>1, MutualExclusion, CoverageHasNoGap, PTL
=============================================================================
