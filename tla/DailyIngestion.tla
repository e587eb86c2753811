--------------------------- MODULE DailyIngestion ---------------------------
(***************************************************************************)
(* The nightly USPTO ingestion: a Redis key guards against overlapping     *)
(* runs, the fetch window reaches back to the last successful run, two     *)
(* sources are read one after the other, and the run's verdict decides how *)
(* far the next one looks back.                                            *)
(*                                                                         *)
(* Time is counted in days.  The lock's two-hour expiry may strike at any  *)
(* moment a run holds it; a run crosses at most one midnight.              *)
(***************************************************************************)
EXTENDS Integers

CONSTANTS
  Workers,          \* processes that may execute the task
  DefaultLookback,  \* settings.ingest_lookback_days
  MaxLookback,      \* settings.ingest_max_lookback_days
  Lookbacks,        \* lookback_days given to manual catch-up runs
  Faulty,           \* sources that may fail: "bigquery", "odp"
  MaxDay,           \* bound on the calendar
  Nobody              \* nobody holds the lock

ASSUME LookbackAssumption ==
  /\ DefaultLookback \in Nat \ {0}
  /\ MaxLookback \in Nat
  /\ DefaultLookback <= MaxLookback
  /\ Lookbacks \subseteq Int \ {0}
ASSUME DayAssumption == MaxDay \in Nat
ASSUME NobodyAssumption == Nobody \notin Workers

VARIABLES
  today,        \* the date
  lock,         \* the Redis key; its value is "1", the owner is a history
  phase,        \* where each worker is in run_daily_ingestion
  override,     \* override_lookback_days, 0 when not given
  first,        \* start_date of each worker's window
  last,         \* end_date of each worker's window
  failed,       \* the BigQuery phase reported an error
  created,      \* some source created records
  refreshed,    \* the downstream chain was triggered
  lastSuccess,  \* date of the newest finished_at with status 'success', or -1
  fetched,      \* days a BigQuery phase without error has covered
  odp,          \* days an ODP phase without error has covered
  since,        \* history: first day that successful windows cover in a row
  expired,      \* history: the key expired while its owner was running
  outage        \* history: no success for more than MaxLookback days

runVars == <<phase, override, first, last, failed, created, refreshed>>
dataVars == <<lastSuccess, fetched, odp, since>>
ingestVars == <<today, lock, runVars, dataVars, expired, outage>>
-----------------------------------------------------------------------------
Never == -1  \* no row with status 'success'

Running(w) == phase[w] # "idle"

Window(w) == first[w]..last[w]

Least(a, b) == IF a <= b THEN a ELSE b

\* Mutant: the lookback is never widened beyond the default.
LookbackUnwidened(date) ==
  IF lastSuccess = Never THEN MaxLookback ELSE DefaultLookback

\* _compute_lookback_days on a given date.
Lookback(date) ==
  LET days == date - lastSuccess
  IN IF lastSuccess = Never THEN MaxLookback
     ELSE IF days > DefaultLookback
          THEN Least(days + DefaultLookback, MaxLookback)
          ELSE DefaultLookback

IngestInit ==
  /\ today = 0
  /\ lock = Nobody
  /\ phase = [w \in Workers |-> "idle"]
  /\ override = [w \in Workers |-> 0]
  /\ first = [w \in Workers |-> 0]
  /\ last = [w \in Workers |-> 0]
  /\ failed = [w \in Workers |-> FALSE]
  /\ created = [w \in Workers |-> FALSE]
  /\ refreshed = [w \in Workers |-> FALSE]
  /\ lastSuccess = Never
  /\ fetched = {}
  /\ odp = {}
  /\ since = 0
  /\ expired = FALSE
  /\ outage = FALSE
-----------------------------------------------------------------------------
(* A run.  A task that finds the key set returns "skipped" and changes     *)
(* nothing; so does the redelivery of a crashed run until the key expires. *)

Goto(w, step) == phase' = [phase EXCEPT ![w] = step]

\* The locals of a run are gone when it ends.
Forget(w) ==
  /\ Goto(w, "idle")
  /\ override' = [override EXCEPT ![w] = 0]
  /\ first' = [first EXCEPT ![w] = 0]
  /\ last' = [last EXCEPT ![w] = 0]
  /\ failed' = [failed EXCEPT ![w] = FALSE]
  /\ created' = [created EXCEPT ![w] = FALSE]
  /\ refreshed' = [refreshed EXCEPT ![w] = FALSE]

\* SET key "1" NX EX 7200, then end_date = today.
Begin(w, days) ==
  /\ phase[w] = "idle"
  /\ lock = Nobody
  /\ lock' = w
  /\ Goto(w, "window")
  /\ override' = [override EXCEPT ![w] = days]
  /\ last' = [last EXCEPT ![w] = today]
  /\ UNCHANGED <<today, first, failed, created, refreshed, dataVars, expired,
                 outage>>

\* The lookback is computed from the date of this step, not from end_date.
ChooseWindow(w) ==
  /\ phase[w] = "window"
  /\ LET days == IF override[w] # 0 THEN override[w] ELSE Lookback(today)
     IN first' = [first EXCEPT ![w] = last[w] - days]
  /\ Goto(w, "bigquery")
  /\ UNCHANGED <<today, lock, override, last, failed, created, refreshed,
                 dataVars, expired, outage>>

\* Records are upserted batch by batch; an error may follow some of them.
ReadBigQuery(w) ==
  /\ phase[w] = "bigquery"
  /\ \E error, some \in BOOLEAN :
       /\ error => "bigquery" \in Faulty
       /\ failed' = [failed EXCEPT ![w] = error]
       /\ created' = [created EXCEPT ![w] = some]
       /\ fetched' = IF error THEN fetched ELSE fetched \cup Window(w)
  /\ Goto(w, "odp")
  /\ UNCHANGED <<today, lock, override, first, last, refreshed, lastSuccess,
                 odp, since, expired, outage>>

\* catch_up_weeks keeps a failing week to itself, so no error is reported.
ReadOdp(w) ==
  /\ phase[w] = "odp"
  /\ \E error, some \in BOOLEAN :
       /\ error => "odp" \in Faulty
       /\ created' = [created EXCEPT ![w] = @ \/ some]
       /\ odp' = IF error THEN odp ELSE odp \cup Window(w)
  /\ Goto(w, "record")
  /\ UNCHANGED <<today, lock, override, first, last, failed, refreshed,
                 lastSuccess, fetched, since, expired, outage>>

\* A manual run takes any lookback_days, also one that does not reach back to
\* the last success: the days it leaves out stay out, and coverage starts anew.
FallsShort(w) ==
  override[w] # 0 /\ lastSuccess # Never /\ first[w] > lastSuccess

\* BigQuery alone decides between 'success' and 'degraded'.
RecordRun(w) ==
  /\ phase[w] = "record"
  /\ IF failed[w]
     THEN UNCHANGED <<lastSuccess, since>>
     ELSE /\ lastSuccess' = today
          /\ since' = IF lastSuccess = Never \/ FallsShort(w) THEN first[w]
                      ELSE Least(since, first[w])
  /\ Goto(w, "refresh")
  /\ UNCHANGED <<today, lock, override, first, last, failed, created, refreshed,
                 fetched, odp, expired, outage>>

\* _trigger_downstream_refresh, if total_new > 0: it is 0 after an error.
Refresh(w) ==
  /\ phase[w] = "refresh"
  /\ refreshed' = [refreshed EXCEPT ![w] = created[w] /\ ~failed[w]]
  /\ Goto(w, "release")
  /\ UNCHANGED <<today, lock, override, first, last, failed, created, dataVars,
                 expired, outage>>

\* Any other exception (a source_fetches insert, the lookback query, the
\* broker): a row with status 'degraded', then the finally clause.
FailRun(w) ==
  /\ phase[w] \in {"window", "bigquery", "odp", "record", "refresh"}
  /\ Goto(w, "except")
  /\ UNCHANGED <<today, lock, override, first, last, failed, created, refreshed,
                 dataVars, expired, outage>>

\* DEL key, whoever holds it now.
Release(w) ==
  /\ phase[w] \in {"release", "except"}
  /\ lock' = Nobody
  /\ Forget(w)
  /\ UNCHANGED <<today, dataVars, expired, outage>>
-----------------------------------------------------------------------------
(* The environment.                                                        *)

\* The worker is killed: the key stays until it expires.
CrashRun(w) ==
  /\ Running(w)
  /\ Forget(w)
  /\ UNCHANGED <<today, lock, dataVars, expired, outage>>

\* EX 7200 has passed.
Expire ==
  /\ lock # Nobody
  /\ expired' = (expired \/ Running(lock))
  /\ lock' = Nobody
  /\ UNCHANGED <<today, runVars, dataVars, outage>>

Tick ==
  /\ today < MaxDay
  /\ \A w \in Workers : Running(w) => last[w] = today
  /\ today' = today + 1
  /\ outage' = (outage \/ (/\ lastSuccess # Never
                           /\ today + 1 - lastSuccess > MaxLookback))
  /\ UNCHANGED <<lock, runVars, dataVars, expired>>

RunStep(w) ==
  \/ ChooseWindow(w)
  \/ ReadBigQuery(w)
  \/ ReadOdp(w)
  \/ RecordRun(w)
  \/ Refresh(w)
  \/ Release(w)

IngestNext ==
  \/ \E w \in Workers : \/ \E days \in Lookbacks \cup {0} : Begin(w, days)
                        \/ RunStep(w)
                        \/ FailRun(w)
                        \/ CrashRun(w)
  \/ Expire
  \/ Tick

IngestSpec == IngestInit /\ [][IngestNext]_ingestVars
-----------------------------------------------------------------------------
(* Properties.                                                             *)

\* Every variable keeps its type; windows may start before day 0.
IngestTypeOK ==
  /\ today \in 0..MaxDay
  /\ lock \in Workers \cup {Nobody}
  /\ phase \in [Workers -> {"idle", "window", "bigquery", "odp", "record",
                             "refresh", "release", "except"}]
  /\ override \in [Workers -> Lookbacks \cup {0}]
  /\ first \in [Workers -> Int]
  /\ last \in [Workers -> 0..MaxDay]
  /\ failed \in [Workers -> BOOLEAN]
  /\ created \in [Workers -> BOOLEAN]
  /\ refreshed \in [Workers -> BOOLEAN]
  /\ lastSuccess \in -1..MaxDay
  /\ fetched \subseteq Int
  /\ odp \subseteq Int
  /\ since \in Int
  /\ expired \in BOOLEAN
  /\ outage \in BOOLEAN

\* As long as no run outlives the key, runs never overlap: neither a crash,
\* a redelivery, a manual run nor an unconditional DEL lets a second one in.
OneRunUnlessExpired ==
  ~expired => \A v, w \in Workers : Running(v) /\ Running(w) => v = w

\* The days between the first successful window, counted from the last manual
\* run that fell short of the success before it, and the last success are all
\* covered by error-free BigQuery phases, across failures, crashes, overlapping
\* runs, manual runs and midnight, unless no run succeeded for more than
\* MaxLookback days.
NoGap ==
  lastSuccess # Never /\ ~outage => since..(lastSuccess - 1) \subseteq fetched

\* Both: while the key outlives its owner runs take turns, and their windows,
\* taken together, leave no day out.
RunsTakeTurnsWithoutGap == OneRunUnlessExpired /\ NoGap

=============================================================================
