# Patent Pulse: TLA+ models of its backend, its web client and its live editing mode

The repository holds three programs.

* **The backend** (`src/backend/app`): a FastAPI application, Celery workers fed
  by Redis, PostgreSQL, and four outside services (LLM provider, Stripe, Resend,
  the patent offices).  It ingests patents, enriches them, ranks them and
  notifies users.
* **The web client** (`src/frontend/src`): a Next.js application whose pages
  read the API through SWR and write to it with plain calls.
* **The live mode** of the design skill (`src/.agents/skills/impeccable/scripts`):
  a script in the browser's tab, a helper server on the developer's machine, and
  an agent that edits the source, with a detector of design flaws beside them.

This directory holds TLA+ models of the parts whose correctness depends on
interleavings, failures, retries and stale state, the TLC configurations that
check them on small instances, and TLAPS proofs of what holds on instances of
every size.  Paths are relative to `src/backend/app/` in the sections on the
backend, to `src/frontend/src/` in those on the client, and to
`src/.agents/skills/impeccable/scripts/` in those on the live mode, unless they
start with `src/`.

## 1. Inventory

### Backend: parts, the state they keep, how they interact

| Part | State | Operations | Talks to |
|---|---|---|---|
| AI runs: `api/v1/ai_runs.py`, `tasks/tag.py`, `tasks/summarize.py`, `tasks/run_aggregates.py` | `ai_runs` rows: status, cohort size, counters, cost | launch a run, one task per patent, record, recompute, finish | broker, LLM client, `patent_publications` |
| LLM client: `ai/llm_client.py` | `ai_artifacts`, unique per (prompt, input, type) while complete | look up, call, store | provider; every AI task |
| Daily ingestion: `tasks/ingest_daily.py` | Redis lock, `ingestion_runs`, `source_fetches` | nightly run, manual catch-up | BigQuery, ODP, upsert, downstream chain |
| Upsert: `ingestion/dedup.py` | `patent_publications` | insert or update without overwriting enrichment | all ingestion tasks |
| Downstream chain: themes, trends, embeddings, scores, expiry, other AI tasks | columns and tables derived from patents | recompute | each other, through Celery chains |
| Theme matching and instant alerts: `tasks/theme_matcher.py`, `tasks/send_instant_alert.py` | `theme_matches`, `email_deliveries` | match, enqueue, send | quotas, e-mail |
| Alerts: `tasks/alerts.py` | `alerts` (status, retry_count), webhook configuration | hourly scan, hourly delivery | users' webhooks, e-mail |
| Weekly digest: `tasks/send_weekly_digest.py`, `email/` | `email_deliveries`, `last_delivered_at` | fan-out over users | Resend, unsubscribe webhooks |
| Chat: `api/v1/chat.py`, `services/chat_quota.py` | Redis counters per user and day | charge a turn, stream it, call tools | provider, PostgreSQL, Redis, `users.tier` |
| Billing: `api/v1/billing.py`, `billing/stripe_client.py`, override in `api/v1/admin.py` | `billing_subscriptions`, `users.tier` | checkout, portal, webhook events, override | Stripe; everything with a quota |
| Sign-in: `auth/`, `api/v1/auth.py` | magic-link tokens, users, API keys | request, verify | e-mail, the client |
| Scores, expiry, feed, trends, families | derived columns | pure computations over rows | read API |
| CRUD, read API, exports, blog | rows written by one statement | single-statement operations | PostgreSQL, the client |

### Web client

| Part | State | Operations | Talks to |
|---|---|---|---|
| Pages: `app/(app)/*/page.tsx`, `app/blog`, `app/t`, `app/c`, `hooks/use*.ts` | SWR's cache, filters, page numbers | ask, poll, filter, turn pages | read API |
| Writes: the handlers of those pages, the panels under `components/patents` | busy flags, forms, results | save, delete, generate, subscribe, pay | CRUD API, Stripe, SWR's cache |
| Chat page: `hooks/useChatStream.ts`, `app/(app)/chat/page.tsx`, `components/chat/ConversationSidebar.tsx` | messages and conversation of a tab; `localStorage`, shared by tabs | ask, stream, stop, open, delete a conversation | chat API |
| Session: `lib/AuthContext.tsx`, `middleware.ts`, `app/(auth)`, `app/(app)/onboarding` | the cookie (all tabs), the user a tab believes in, the wizard's answers | sign in and out, redirect, answer | sign-in API |
| Today page: `app/(app)/today/page.tsx`, `hooks/useDiversifiedFeed.ts` | four fetches, the mark of the look | fetch, mark, choose a view, order the cards | Today API |

### Live mode

| Part | State | Operations | Talks to |
|---|---|---|---|
| Tab: `live-browser.js`, `live-browser-session.js` | about sixty variables of one closure, `localStorage`, `sessionStorage` | pick, insert, annotate, go, cycle, tune, accept, discard, edit copy, Apply, steer, detect | helper (POST, event stream), the page, the detector (messages) |
| Helper: `live-server.mjs` | queue of events with leases, parked polls, Applies under way, tombstones | take events, lease, acknowledge, restore, time out, cancel | tab, agent, journals |
| Journals: `live-session-store.mjs` | one file per session and the snapshot its replay gives | append, replay | helper, `live-complete.mjs`, `live-resume.mjs` |
| Agent: `live-poll.mjs`, `live-wrap.mjs`, `live-accept.mjs`, `live-complete.mjs` | the event in its hands | poll, edit the source, reply | helper, source files |
| Copy edits: `live-commit-manual-edits.mjs`, `live-manual-edits-buffer.mjs`, `live-manual-edit-evidence.mjs`, `live-copy-edit-agent.mjs` | buffer, transaction file, rollback snapshots | stage, apply in chunks, verify, repair, roll back | helper, agent, source files |
| Detector overlay: `detector/browser/injected/index.mjs` | overlays, generation of the scan, contrast jobs | scan, sample, remove, spotlight | tab, extension panel or a script |
| Design panel, agent's mark: `live-browser.js`, `live-server.mjs` | `designState`, last status | read files, poll the status | helper |
| Static style engine: `detector/engines/static-html/css-cascade.mjs` | one style per element | expand, cascade, inherit, compute | rules of the detector |
| Rules, registry, command line of the detector; other scripts | none | independent predicates, one-shot programs | files |

### What is hard

* **Concurrency.**  Celery runs a prefork pool without mutual exclusion between
  executions of one task; in the asynchronous API, the helper and the tab every
  `await`, callback and timer is a point where something else runs.  PostgreSQL
  runs at READ COMMITTED and the code takes no explicit lock.  In the client,
  answers race with clicks, with the fetches other answers start, and with
  other tabs.
* **Failure.**  `task_acks_late` returns the message of a killed worker; the
  visibility timeout delivers it twice; handlers that commit twice may stop in
  between; the helper, the agent and the tab may each go away at any step.
* **Order.**  Stripe delivers in no order; artifacts are committed before the
  records that count them; a reply names a session, not the event it answers;
  status answers overtake one another.
* **Time.**  A two-hour lock under a run without a deadline, quota keys by
  date, a lookback window in days, leases of 30 s, Applies given up while the
  agent still edits, a bar faded out 250 ms later.

What makes each part correct: no record or task of a run is lost and a run ends
when its tasks have (AI runs); unusable answers never reach a patent and cache
hits cost nothing (LLM client); every day is read (ingestion); the quota is
exceeded by no more than the open requests, and turns end (chat); users have
the tier they pay for (billing); nobody is alerted twice or retried for ever
(alerts).  A page says what is true of its answer (pages), shows what the
server has once its calls are over (writes), stores a conversation under its
own name (chat page), speaks for the user who is signed in (session) and about
an earlier visit (Today).  A request the helper took is worked on until it is
answered, and a decision the user was told of is carried out (sessions); the
source never holds half of an edit and no edit is dropped unwritten (copy
edits); whoever has to decide sees the controls to do it with (tab); what is
drawn, chosen and tuned is what is sent and accepted (annotations, tuning);
overlays, marks and panels show the latest state (detector, design), and styles
are a browser's (style engine).  `PROJECT.json` lists the places where the code
makes one of these hard to keep, with the property that watches it.

## 2. The modules

A component is one module that holds its variables, one action per step, and
its properties; an `MC` module gives TLC its constants; a `Proofs` module holds
theorems.  A step is what one actor does between two interactions with a store,
a broker, a server or a timer.  Operators whose comment starts with *Mutant*
are broken variants of the definition next to them, used only to see that a
property notices.  Variables marked *history*, and the sets of names called
`excused`, `past`, `parted` or the like, are not state of the program: they
remember what happened, so that a property can say under which circumstances it
holds.

### Backend

**`AIRuns`**: AI runs and the artifact cache.

| Model | Code |
|---|---|
| `runs` | the `ai_runs` row: status, cohort_size, counters, actual_cost |
| `launch`, `todo`, `sent` | progress of the `create_run` request |
| `cache`, `failures` | complete artifacts (one per key, by the partial unique index) and failed ones |
| `queue`, `msg` | the broker: waiting messages, and those held unacknowledged |
| `pc`, `outcome`, `seen`, `counted` | a worker's position in the task, its verdict, the row it is about to write, and whether its increment is uncommitted, that is, whether it holds the row lock |
| `CreateRun`, `ResolveCohort`, `Dispatch`, `FinishLaunch` | `create_run`: insert; second resolution of the cohort; one `delay()` each; the closing UPDATE that does not look at the status |
| `Take`, `Lookup`, `ProviderAnswers`, `ProviderFails`, `Retry`, `Denormalise` | the task up to its result, `LLMClient.complete` included |
| `Record`, `Recompute`, `Commit` | the counter UPDATE, the SELECTs, and the UPDATE with absolute values and its commit |
| `Ack`, `Crash`, `LoseChild`, `Redeliver` | Celery with `acks_late`, a dead worker, a dead child, the visibility timeout |
| `recorded`, `records`, `ended`, `relaunched` | history: whose record was committed and how often each outcome was, whose task was acknowledged, whose final status `create_run` overwrote |

`Late`, `Gone` and `Blank` patents reach the early returns of the tasks;
`SkipsDone` tells the summary task from the tag task.

**`DailyIngestion`**: `lock` is the Redis key with its owner as history (the
code stores `"1"`); `phase`, `first`, `last`, `failed`, `created` are a run's
locals; `lastSuccess` is the newest successful `ingestion_runs` row as a date;
`fetched` and `odp` are the days each source has covered.  `Begin`,
`ChooseWindow`, `ReadBigQuery`, `ReadOdp`, `RecordRun`, `Refresh`, `Release`
follow `run_daily_ingestion` step by step; `FailRun` is its `except`, `CrashRun`
a killed worker, `Expire` the end of the two hours, which may come at any
moment, and `Tick` midnight.  A manual run takes any number of days of
`Lookbacks`; where it succeeds without reaching back to the last success
(`FallsShort`), the days it jumped over are lost, and the history `since` notes
where coverage starts anew.  The specification is `IngestSpec`, since its
proofs share a module with those of `Alerts`, and TLC checks it side by side
with `Billing` in `MCBillingAndIngestion`: the two share no state, and `area`
says which of them a behaviour is about.

**`ChatTurns`**: `count` and `armed` are the Redis counters and those with a
time to live; each request goes through GET, INCR and EXPIRE (`Check`,
`Increment`, `Arm`), the retrieval query, and the loop in which the model
answers or calls a tool.  `RedisError` may strike after INCR took effect;
`Drop` is a client that goes away between any two awaits; `ChangeTier` is what
billing does to `users.tier` meanwhile; `Lapse` is key expiry.  The
specification is `TurnSpec`, since its proofs share a module with `Billing`'s;
`MCTurnsAndAlerts` checks it side by side with `Alerts`, with the fairness of
both (`ServedSpec`).

**`Billing`**: `life`, `sold`, `plan` and `events` are Stripe as far as the
handlers rely on it: events stay until they are answered, in no order.  A
request selects (`Receive`), commits the row (`WriteRow`), commits the tier
(`WriteUser`); an update writes only the columns that changed since the select
(`Merged`), as SQLAlchemy does.  `OverrideUser`, `OverrideSelect` and
`WriteRow` are the administrator's override, which commits in the opposite
order.

**`Alerts`**: each task is one transaction: its inserts and updates appear at
`CommitScan` and `CommitDelivery`.  `CreateAlert` is the duplicate check with
all three outcomes of `scalar_one_or_none`; `Attempt` is one webhook or mail.
A mail always fails in the model, because its template
`alert_notification.html` is not among those of `email/templates`.  Executions
may overlap: one worker serves all queues with a prefork pool
(`src/docker-compose.yml`).

### Live mode

**`LiveSessions`**: one tab, the helper and the agent.  `tab` holds what the
script believes, `posts`, `answers` and `sse` what is on the wire (POSTs are
separate fetches in any order, the event stream is one connection); `queue` and
`leases` are `pendingEvents`; `snap` is what each journal replays to; `source`
is the markup of each session's element; `agent` is its poll or the event in
its hands.  `Go`, `VariantsMount`, `SendCheckpoint`, `Accept`, `Discard`,
`Steer`, `HearAnswer`, `HearReply`, `Finish` are the tab; `HandlePost`,
`LeaseExpires`, `ExitTimerFires`, `Crash`, `Start` the helper; `Poll`, the
edits (`Wrap` ... `CleanUp`), `Reply`, `CompleteOffline`, `StopHelper`,
`Interrupt` the agent.  A reply acknowledges the first queued event of its id
and empties the one pending slot of the journal; a restarted helper queues what
the slots hold and has a new token, so the tab is cut off until it is loaded
again (`CloseTab`, `OpenTab`).

**`WorkQueue`** is what the helper promises: a request taken is held until an
answer finishes it, is in one pair of hands at a time, and after a failure the
last one filed for each id comes back unless it was finished.  `LiveSessions`
instantiates it (`Helps`) with `todo <- Queued(queue) \ {Exit}`,
`lent <- leases`, `filed <-` the pending slots, `open <- up = "up"`, and
`KeepsItsWork == Helps!Spec`.

**`LiveControls`**: the closure of one tab as the record `tab`.  A helper of
the script (`ShowBar`, `HideBar`, `CancelEditing`, ...) is an operator from tab
to tab and a handler composes them in the code's order.  Its inputs are the
user (mouse, keys, voice), the timers and requests of `asks`, which may answer
when the tab has moved on, and the server.  The prompt has a key handler of its
own, which runs after the page's: `EscapeInInput` is an Escape for which the
page's has only closed the action picker, and the input's leaves configuring.
`excused` names the eleven steps that break a rule of the controls for good; a
property lists those it is broken by.

**`LiveEdits`**: `buffer`, `source` and `tx` are the files on disk; `applies`
is the call of `commitManualEdits` under way for each page, with its chunks,
snapshot and repairs; `tombs` are the given-up events with the snapshots their
late replies are answered with; `dock` is each tab's Apply button and
`sessionStorage`.  An Apply empties the buffer by the ids of its entries, so it
knows which of them are still there (`ours`): one discarded under it and staged
anew is another entry.  The agent may write any subset of what it is asked,
report any subset as applied, to a chunk as to a repair, come late, or never.
A repair whose report leaves out an edit that is in the file (`LeavesOut`) is
remembered as "silent".  All elements are in one source file, because the
code's snapshots are of whole files.

**`LiveAnnotations`**, **`LiveTuning`**, **`LiveDetect`**, **`LiveDesign`**,
**`StyleCascade`** are the tools around a session; `MCLiveTools` checks them
side by side, since they share no state.  Annotations address pins by position,
as the code does, and carry a name no action reads, so that a note on the wrong
pin is visible.  Tuning keeps apart what the page shows, what the tab believes,
what `localStorage` would bring back and what the server last heard.
Detection is one message queue between the tab (or a browser extension, or a
script of the page) and a scanner whose contrast jobs run across awaits.  The
design panel reads a pair of answers from two files that may be written in
between.  The style engine is a pure algorithm, walked one declaration at a
time, beside a reference definition of a browser's cascade: origin and
importance, specificity, order, inheritance, `em`, custom properties, and
shorthands that reset what they do not name (`Means`: a border without a colour
means `currentcolor`).

### Web client

**`Screens`**: the pages as data: which views a page has, in which order and
under which condition, what its controls do to the request, whether it keeps
the previous rows, polls, or swallows errors (`PatentsShow`, `SearchAsk`, ...),
over one model of SWR's cache, flights and retries.  **`WebWrites`**: the
handlers as data: the resource written, how the button is held, when the
handler lets go, what it does to the cache; a call may fail before or after its
commit, and the page may be left meanwhile.  **`ChatClient`**: tabs with their
messages, the stream, the conversations, the shared storage, and the
suggestions whose 50 ms are running, each with the conversation its click's
render closed over (`late`).
**`WebSession`**: the cookie, what each tab believes, magic links, redirects,
the wizard.  **`TodayFeed`**: the fetches of the Today page, the mark of the
look, the view chosen, and `diversify` one placement per step.  `MCWeb` checks
the five side by side, since a tab shows one page at a time, and states each
property in the behaviours of its own pages.

## 3. What is checked

Nine runs pass, and three show a comment or a page of the repository violated.
Properties of one subject are named parts of one conjunction, which the run
lists; the parts are in brackets.

| Run | Instance | Properties |
|---|---|---|
| `airuns_race` | 1 run, 3 patents (one ingested meanwhile and gone later), 2 workers, 1 retry, 1 fault | `CountersAddUp` [`CountersCoverRecords`, `AllRecordedIsFinal`, `CountsAreBacked`, `FinalIsBacked`], `NoTaskLost`, `FinalIsFrozen` |
| `airuns_live` | 2 summary runs over 2 patents, or one of them with all outcomes, retries and 1 fault; fair | `ArtifactsBackResults` [`DoneIsUsable`, `CostIsBacked`], `TasksAndRunsEnd` [`EveryTaskEnds`, `CleanRunsFinish`] |
| `airuns_early` | 1 run, 3 patents, 2 workers, good answers only | `NoTaskLeftBehind` is violated |
| `turns_and_alerts` | chat: 2 requests, 3 tiers with limits 1, 2 and none, all faults, 1 midnight; alerts: 1 subject, 2 scans, 2 deliverers, batch 1, 2 retries, 1 fault; fair | `OvershootIsBounded`, `TurnsEnd`, `TurnsPreventRepetition` [`SerialScansDeduplicate`, `AttemptsAreBounded`], `AlertsSettle` |
| `chat_quota` | 2 requests, 1 tier with 1 turn a day, no fault | `QuotaIsNotExceeded` is violated |
| `billing_and_ingestion` | billing: 2 purchases, 2 requests, overrides, all faults; ingestion: 2 workers, 3 midnights, manual runs of 1 day, default 1, cap 2 | `SyncedWhenSettled`, `CustomersAreServed`, `RunsTakeTurnsWithoutGap` [`OneRunUnlessExpired`, `NoGap`] |
| `live_sessions` | 1 session, 1 steer request, 1 checkpoint, 1 decision, 2 faults, fair | `DecisionsAreKept` [`DecisionNotLost`, `ConfirmedIsSaved`], `KeepsItsWork`, `RequestedVariantsArrive` |
| `live_edits` | 2 elements of one page, an event each, 2 Applies, 1 repair, 1 fault or a second save of one element, fair | `SourceStaysWhole` [`SourceIsSettled`, `RollbackRestores`], `StagedEditsAreKept` [`ApplyKeepsTheLock`, `NoEditIsSwallowed`], `ApplyEnds` |
| `live_controls` | 1 session, 1 typed version, 1 steer, 1 server event, 3 kinds of user, 1 kind of break | `PageShowsWhatIsSaved`, `ControlsAreThere` [`EditingCanBeSaved`, `BarWhileDeciding`], `SessionsComeAndGoClean` [`NothingIsLeftBehind`, `ApplyStartsNoSession`] |
| `live_tools` | 3 marks and 2 sessions; 2 variants, 1 with knobs, 1 remount; 2 elements, 2 scans; 2 writes of the design, 2 polls; 3 declarations on 2 nested elements | `MarksReachTheAgent`, `OneChoiceEverywhere`, `PanelsTellTheTruth`, `StylesAreTheBrowsers` |
| `web_pages` | every page, 2 settings, 2 pages of rows, 3 moves, 1 failure; every handler, 2 calls, 1 write from elsewhere; 2 tabs with 2 turns; 2 tabs with 2 users; all lists of 6 items of 3 types with 2 of backfill | `PagesTellTheTruth`, `PagesFollowTheirCalls`, `TodayIsTrue`, `ChatIsKept`, `TabsSpeakForTheirUser` |
| `web_webhook` | as above | `WebhookFormIsSynced` is violated |

Every passing run but `airuns_live` also checks a type invariant; for every
property of a passing run `PROJECT.json` names a mutant of the code that
violates it.

What they show, beyond the section on the backend's proofs:

* **Sessions.**  Through crashes and restarts of the helper, expired leases,
  interrupted agents and closed tabs, an accept or discard that was confirmed
  stays queued or journaled until it is carried out or refused.  The exception
  is stated in the property: the agent's late reply to an earlier request of
  the session empties the journal's only slot (`live-session-store.mjs:183`),
  and acknowledges the decision itself once the older event is gone.  The tab
  confirms only what the source holds.  Requested variants arrive or an error
  is reported.  The helper implements the abstract work queue.
* **AI runs.**  A run becomes final outside six cases, which `CleanRunsFinish`
  lists.  Two of them need neither a fault nor a bad answer: another run
  summarises a patent between the estimate and the dispatch (`CohortShrank`),
  and a task finds its cache key taken after its call (`Collided`).
* **Copy edits.**  Once nothing is under way the file holds exactly the
  versions reported applied, Rollback gives back the file of before, and no
  staged edit is dropped unwritten, one saved again under its id during an
  Apply included.  Five things the code cannot make good are excused by name:
  an agent that writes for an event nobody awaits, a repair whose report leaves
  out an edit it wrote, a file put back for the reply to a given-up event,
  Applies of two pages over one transaction file, and a Discard under a running
  Apply.  `NoEditIsSwallowed` needs none of the five.
* **Controls.**  Except after the named breaks (a late Save, late variants,
  answers or source, the fade-out timer, the pick toggle, an Escape in the
  prompt over an open action picker, an error, an Apply, a lost server, a stray
  edit) text that is not saved is never on the page
  without its editor, whoever edits or decides has the controls, and a session
  ends with nothing of it left behind.
* **Tools.**  Notes stay with their pins and what was drawn is sent once; the
  four copies of the chosen variant agree until one of five steps parts them,
  and the accepted one is the one that was seen; overlays and badge are the
  last scan's; the detector's styles are a browser's outside three named cases.
* **Pages.**  Every view is true of the answer the page has, except on the
  pages listed in `DeniesOnErrors`, `WaitsOnErrors` and `DeniesWhileLoading`;
  page numbers belong to the request; a click runs once, a button is held by a
  call under way, edits are not overwritten, and a page at rest shows what the
  server has, each with its named exceptions; conversations keep their own
  turns, unless a turn crossed into another one, as a suggestion does that is
  sent after a conversation was opened; a tab speaks for the user it shows unless the cookie moved behind its
  back; Today tells of an earlier visit.

**Why the bounds are enough.**  Two workers, requests, tabs or users are what a
lost update, a race or an overlap needs.  The third patent of `airuns_race`
lets a run be one task short while another is in flight.  One fault separates
every pair of steps once, retries included; the two of `live_sessions` let the
helper crash and the agent be interrupted, or the helper crash twice around one
reply.  Three midnights let a success, a failed day and a widened window
follow one another, with a cap that an outage can pass.  Two purchases are the
least for which two checkouts compete.  One session and one steer request make
the queue hold three events of two ids, two of them of one id, which is what a
reply that names an id can confuse.  Two summary runs are what one of them needs
to shrink the cohort of the other.  Two edits with chunks of one make an Apply
of two events, so that the second can fail after the first; the second save is
one made under the id of an Apply that is under way.  Three marks let an
emptied note lie below and above the held pin; three declarations are a
shorthand, a longhand and an inherited value in any order.  Six items are the
fewest for which two of a type are under the share of 0.4, two of backfill the
fewest that can repeat.

Bounds that cut behaviours rather than sizes are named constants or
definitions: in `LiveControls`, `Habits` lets one user edit copy and use the
tools, another steer, a third speak, beside picking, generating and deciding,
and `MaxBroken = 1` ends a behaviour at its second kind of break, which the
proofs do not; `LiveAnnotations` has one pointer, and no event
between two presses 300 ms apart but the first one's release.  In
`airuns_live`, `LiveSpec` has two runs that go well or one that meets trouble,
and in `live_edits`, `OneSpec` spends its `Budget` on a fault or on the second
save: neither cuts a fair step off, and the proofs know neither.  In
`billing_and_ingestion` the constraint `Telling` cuts histories about which neither
of the two invariants of billing, or of ingestion, has anything left to say.
`SYMMETRY` is used only where no liveness is checked, over values that only
equality tells apart.

**Fairness.**  `airuns_live` (`Fairness` of `AIRuns`): weak fairness of a running `create_run` request and of
each worker's steps: the process goes on while it lives, and every call returns
or times out; crashes are not fair.  `turns_and_alerts` (`ServedSpec`), chat:
weak fairness of each open request, as the event loop resumes every coroutine; nothing is assumed of the
model, which may ask for tools for ever; alerts: weak fairness of each
deliverer, as beat enqueues a delivery every hour; scans, ageing and users are
not fair.  `live_sessions`: the agent polls and finishes what it holds, as its
instructions demand (`src/.agents/skills/impeccable/reference/live.md`), leases
run out (a timer), and a crashed helper is started again; nothing is assumed of
the user or of the faults.  `live_edits`: only that the timer of an event fires;
nothing of the agent.  The other runs make no liveness claim.

## 4. What is proved

TLAPS proves the following for every value of the constants that satisfies the
named assumptions of the modules: finite sets of patents, keys and requests,
positive limits, a `None` that is no artifact, and the like.

* **`AIRunsProofs`**: `TypeCorrect`, `NoRecordLost` (`CountersCoverRecords`),
  `RecordedRunsAreFinal` (`AllRecordedIsFinal`), `FinalStaysFrozen`
  (`FinalIsFrozen`).  None of these invariants is inductive: a worker between
  Recompute and Commit holds an absolute row computed earlier.  `IInv` adds
  that at most one worker has an uncommitted increment per run
  (`LockDiscipline`), that what such a worker is about to write covers what has
  been recorded since it read (`SeenIsSound`, `SeenCountsOneMore`), and that a
  worker without the lock only writes for a row that has turned final or is
  older (`UnlockedIsStale`).
  Its second part is about the tasks: `TasksSurvive` (`NoTaskLost`),
  `ResultsAreUsable` (`DoneIsUsable`), `CostsAreBacked` (`CostIsBacked`),
  `CountersAreBacked` (`CountsAreBacked`), `FinalRunsAreBacked`
  (`FinalIsBacked`), and the conjunctions the runs check,
  `CountersAlwaysAddUp` and `ResultsAndCostsAreBacked`.  What the counters stand
  on is counted by history variables (`records`: how often each outcome was
  recorded) and the artifacts, not read off the row; the theorems do not say
  that a task counts once, which is false (`airuns_early`).  They use `IInv`
  and each a strengthening of its own: the row a worker is about to write is
  backed as well; a worker about to denormalise has a usable
  artifact (`DenormalisesUsable`) and artifacts are never replaced
  (`ArtifactsStay`); the cost about to be written is backed too
  (`CommitsBacked`); there is work only for a run that has sent some, and a
  launch that has sent none is open (`WorkIsSent`, `UnsentIsOpen`).  With them
  every safety property of `AIRuns` is proved.
* **`ScheduledProofs`**, the two tasks of the beat schedule.  Daily ingestion:
  `IngestTypeCorrect`; `MutualExclusion`, from `Owned`
  (until an expiry, a running worker is the owner of the key); and
  `CoverageHasNoGap`, for manual catch-ups of any lengths: coverage starts anew
  where one falls short of the last success; `TurnsWithoutGap` is both.  The
  invariant says that every other window in progress reaches back to the last
  success (`Reaches`), that
  its days have been read once its BigQuery phase has passed without error
  (`Read`), and that a run crosses at most one midnight.
  Alerts: `TypeCorrect` (with `retry_count <= MAX_RETRIES`, which
  overlapping deliveries could break if the counter were incremented in the
  database), `ScansDeduplicate`, `AttemptsBound`, and their conjunction
  `TurnsAreEnough` (`TurnsPreventRepetition`).  The first rests on one scan at
  a time having only new alerts in its session (`AddedIsNew`), the second on an
  account of every attempt: it is in the row, in the hands of the one
  deliverer, or was lost with an execution (`AttemptsCounted`).
* **`TierProofs`**, what writes `users.tier` and what reads it.  Billing:
  `TypeCorrect`, `SerialDeliverySyncs`
  (`SyncedWhenSettled`) and `PurchasesAreServed` (`CustomersAreServed`).  Until the first overlap or lost
  override, either row and tier agree, or an event whose handling will make them agree is still
  unanswered, or an override is on its way (`Mended`), and a request in
  progress knows the current row (`Informed`).  `PurchasesAreServed` needs no
  serial delivery.  Its invariant says that events are true of their purchase
  (`EventsAreTruthful`: they tell of a completed session, name the tier it
  sold, and a deletion only of what was canceled), and that the completion of a
  lone purchase is still unanswered or has given the tier (`PurchaseIsKept`).
  Chat turns: `TurnTypeCorrect` and `BoundedOvershoot`
  (`OvershootIsBounded`).  The invariant counts, for every day, the counter
  plus the requests that have passed the check and not yet incremented
  (`Budget`): that sum is what the limit plus the number of requests bounds.
* **`LiveSessionsProofs`**: `TypeCorrect`, `DecisionsKept`
  (`DecisionsAreKept`) and `HelperKeepsItsWork` (`KeepsItsWork`): the helper's queue, leases and journals implement
  `WorkQueue`, for any finite sets of sessions and steer requests, any number
  of faults and any order of messages.  Each of its steps is one of the work
  queue's or leaves it alone.  The invariant says that posts are requests
  (`PostsAreRequests`), that the queue holds each request once and is empty
  without a helper (`QueueIsSound`), that a session whose slot is full is not
  over, so that a restart queues every full slot and a reply that is not
  journaled finds its slot empty (`JournalsAreSound`), and that the agent
  replies to what it was given (`HandsAreSound`).  `DecisionsKept` adds the
  history of a session: nothing is done to it before the helper has its
  request; a confirmed decision stays where a reply to anything older cannot
  reach it, unless it is one of those the property excepts; the reply that
  carries it out leaves nobody who could still rewrite the variants; and what
  the answers on their way to the tab say of the source is true.
* **`LiveEditsProofs`**: `TypeCorrect`, `EditsAreKept` (`StagedEditsAreKept`)
  and `SourceIsWhole` (`SourceStaysWhole`), for any elements, pages, chunk size
  and bounds.  Whatever path `commitManualEdits` takes, it rolls back, repairs,
  or clears what it has verified (`Concludes`), which is what the steps are
  proved from.  `EditsAreKept` rests on `Guards`: what an Apply still has in
  the buffer is what was staged, and as long as it has any the dock waits.
  `SourceIsWhole` adds that no two events share a number and an event asks for
  edits of its batch (`Numbered`, `EventsFit`), that the question is shown only
  while it is open (`Asked`), and `Settled`: unless something was excused, at
  most one Apply is under way, the transaction file holds the text last
  reported applied and an edit that entitles the helper to give it back, and
  the source differs from that text only in edits of the batch, each as wanted
  (`Standing`); with none under way the two are equal or, while the helper is
  down, can be made so (`Resting`).  Two steps decide it: a rollback happens
  only before the user was asked, when the snapshot is still that text, and a
  repair that ends well and reports every edit the file holds leaves the file as
  reported; one that leaves an edit out is what `excused` remembers as "silent".
  Nothing is assumed of what the agent reports.

* **`LiveToolsProofs`**: `OneChoice` (`OneChoiceEverywhere`), `MarksAreSent`
  (`MarksReachTheAgent`), `PanelsAreTrue` (`PanelsTellTheTruth`),
  `StylesAreRight` (`StylesAreTheBrowsers`) and `ToolsTyped`
  (`LiveToolsTypeOK`), of the composition of the tools, for any number of
  variants, renderings, marks, Goes, scans, writes, questions, declarations and
  nested elements, any set of tunable variants and any finite set of elements
  (`IsFiniteSet(Elements)`: the badge counts them).  Showing a variant first is shown to leave tab and page agreed
  (`Fits`), whatever order the panel is built in; `TuningInv` then says that
  the counts of tab and page agree and a session is being decided exactly when
  all its variants are there (`CountedIn`); that only a `remount` parts what
  the page shows from what the tab holds (`AgreedIn`), and only that or a step
  after which no checkpoint is sent parts them from localStorage and the server
  (`ReportedIn`): a pending timer accounts for the difference.
  `AnnotationsInv` says that a note is open only while nothing is held, so that
  no pin moves under it (`PlacesInv`); that text editing belongs to replacing
  (`OfferInv`); that every Go is in one capture or in one event and not in
  both, with the marks the layer showed (`SessionsInv`); and that a mark left
  in the page's element, or a position set on it, belongs to a capture that has
  still to undo it (`ElementInv`), which is why an element decorated twice is
  given back its own position.
  The panels have four parts.  `DrawnInv`: no work is for a scan to come, what
  is sampled late was drawn before, and every faint text of a scan with contrast
  is still to be analysed, observed, being sampled, marked or missed
  (`JobsCover`, `Accounted`).  `TabInv` follows the mail of the tab, a queue of
  any length: results come once per scan (`TabNumbers`); with Detect on, the
  last call to the detector is the current scan, or its results are under way,
  or the badge is right (`Shows`); with Detect off or live mode left, the last
  call is a removal or nothing is left (`Vanishes`).  `ReadInv`: unless a file
  was written since the fetch began, each half of the pair is what the files
  say, in whatever order the halves come.  `MarkInv`: questions have numbers of
  their own, and the newest is answered with what is so, unless the agent came
  or went after it.
  The style engine (`StylesAreRight`) is one more part.  `CascadeInv` says that
  the map of each element is the cascade of what was said so far: one entry per
  longhand, which is what the winner says of it (`Holds`), and the computed
  styles are those of the finished maps.  The one longhand a declaration can
  mean without the engine entering it is the colour of a border that names none
  (`Colourless`): where such a border outweighs every one that names a colour
  (`KeepsItsColour`) the theorem says nothing of that colour, and where another
  one outweighs it, the map holds what a browser's does.  A declaration is a loop
  over its longhands, an element one over its map, a page one over its chain of
  elements; `AppliedRuns`, `StyleRuns` and the like unfold each into steps, and
  `CountsUp` follows them for as many steps as there are.  `Cascaded` survives a
  declaration because a later one has a later order (`OrdersGrow`); `Reckoned`
  survives an element because what is inherited is what
  the nearest element above that says anything settled on (`SpokenGrows`).
  `ToolsTyped` (`LiveToolsTypeOK`) adds the bounds: a mark is named when it is
  released, under the bound checked when it was begun; a version is a write.

* **`LiveControlsProofs`**: `TypeCorrect`, `TextIsSaved`
  (`PageShowsWhatIsSaved`), `ControlsStay` (`ControlsAreThere`) and
  `SessionsAreClean` (`SessionsComeAndGoClean`), for any users, any number of
  sessions, versions and messages, and any mixture of breaks.  `Sound` says of
  the tab what each step needs to find: what the bar offers fits the state and
  a voice the row it began on (`Shaped`), text that differs from what is saved
  is a draft whose editor holds what to put back (`Copied`), the badge of an
  editor saves (`Badged`), a placeholder's session is the one generated for it
  and has no variants on the page (`Placed`), observer and scroll lock are the
  shown session's (`Held`), the bar is there (`Barred`) and the overlay lies
  over what is configured (`Overlaid`); each with the excuses of its own
  property and no others.  Every helper and handler of the script is shown to
  make a sound tab of a sound tab (`HideBarDoes`, `CancelEditingIsSound`,
  `EndSessionIsSound`, ...), and a step is a composition of them.  The proof
  corrected the properties.  With one kind of break in a behaviour, which is
  all that TLC reaches, two answers that find the tab elsewhere cannot follow
  one another; with more they can, and the second carries what the first left
  behind (variants mounting over a state a late answer set up, say).
  `Overtaken` and `Missed` name the late arrivals that excuse each part.
  `EscapeInInput` keeps all of `Sound` but what `Overlaid` says, which is
  excused from then on.

* **`WebProofs`**: `SpeaksForTheUser` (`TabsSpeakForTheirUser`), for the session
  and the onboarding of the web client, composed with its other pages.  The
  properties speak of the moment a page goes on; the invariant `SessionInv` adds
  what holds before it: a tab that asked and knows nobody is one without a
  session, unless the cookie changed under it or a call was lost
  (`StrangersInv`, from which nobody with a session is sent to the login), and a
  call of the wizard is under way only where its question is shown, sending the
  answers on the screen until the user goes back or types (`WizardInv`).  And `ChatStaysKept`
  (`ChatIsKept`, an action property) for its chat, with any number of tabs,
  turns and trips.  `ChatInv` strengthens it by what a step needs to find.
  `TurnsInv`: no turn runs unseen into a page mounted later, and the one running
  turn of a page is the last message of the conversation shown, unless it
  crossed over, so that what it adds is its own (`SourcesInv`).  `PlacesInv`: a
  turn that has no conversation yet is shown only by the page that asked it and
  stored nowhere, so that the number it gets can contradict nothing stored.
  `CoverInv`: unless two tabs showed a conversation, the one that shows it has
  every turn stored of it, so that writing what it shows forgets none.  A
  suggestion is sent with the conversation of its click: where another was
  opened before it fires, its turn crosses over, and elsewhere it is a turn
  like any (`SendKeeps`).
  `TurnTypes` counts the conversations by the turns that heard of theirs
  (`NamedGrows`), which bounds them by the questions asked.

  The handlers that write and the screens are tables, so both proofs have two
  halves: a lemma that says what every entry of the table has in common
  (`SoundOp`, `SoundScreen`, proved entry by entry), and an invariant that needs
  to know no more than that.  `PagesFollow` (`PagesFollowTheirCalls`) rests on
  `WritesInv`.  `VersionsInv` orders what the page has cached, what its fetch
  began with and what the server has; `QuietInv` says, unless one of the named
  exceptions holds, that a page whose cache is behind has a fetch under way that
  began with the last version, or a call that will start one or bring the text
  itself (`Brought`), which with nothing under way leaves only agreement.
  `HeldInv` says that a call under way holds its button, `WrittenInv` that no
  version is from nowhere, `FormInv` that what is edited was there.
  `PagesTell` (`PagesTellTheTruth`) rests on `ScreensInv`: a screen that asked
  has an answer, a request under way or an error (`AskedInv`), and an answer is
  the server's stock, as long as nothing was swapped, with a page number that
  exists in it (`PagesInv`).  Since a page shows the first of its views that
  holds, each order of views in `SoundScreen` is then followed once, which shows
  where the three lists of exceptions are needed.
  `TodayHolds` (`TodayIsTrue`) is about Today.  For what the page says of looks
  and newcomers, `LooksInv`: no look is marked before it is made, a page which
  was loaded marks its look only after it was told the last one, and what is not
  there is under way or failed.  For `diversify`, `FeedSound`: what is counted
  is what was placed (`Counted`), the k-th item placed of a type is the k-th of
  the pool (`Drawn`), a type with a run is the one placed last (`Repeated`), and
  a place that breaks a limit had no type to keep it with (`Shared`).  So what is
  placed comes from places of the pool of its own (`SourcesAre`), an injection
  that covers the pool once no type has more: nothing twice, nothing missing.
  For the order of the briefing, `DistinctKept`: the loop over items of
  different types is followed turn by turn (`FirstGrows`).  That is induction
  over data; the library's theorems for it take an operator, so `SetInduction`
  derives it for sets of numbers from the well-foundedness of `<`, and the place
  of an item is found by the number of places before it (`Rank`, `Nth`).
  `WebTyped` (`WebTypeOK`) combines the five invariants; the bound on the
  conversations is the one that does not hold by itself.

Every safety property the passing runs check is proved.  Only model-checked is
liveness, which needs ENABLED: `TasksAndRunsEnd`, `TurnsEnd`, `AlertsSettle`,
`RequestedVariantsArrive` and `ApplyEnds`.  No module uses RECURSIVE operators,
which the prover cannot reason about; where the code loops over data, the
induction is over sets of numbers (`CountsUp`, `SetInduction`).

## 5. What the models showed

Kept as runs, with the lines they contradict quoted in `PROJECT.json`:

* `airuns_early`: `tasks/run_aggregates.py:8-12` calls its counts race-free;
  they take an artifact for a record and then add the record (`:103`), so that a
  run turns final with a task still at the broker.
* `chat_quota`: `services/chat_quota.py:6` says that the check before the
  increment keeps a user within the limit; two requests that both check before
  either increments are one over it.
* `web_webhook`: the form of `app/(app)/account/webhooks/page.tsx` is never
  filled with the configuration it fetches, and a save stores the blank one.

Seen while modelling.  The properties hold with these as named exceptions or
outside their conditions:

* **AI runs.**  `create_run` overwrites a final status with `running`
  (`relaunched`), and a task that fails after its retries is recorded nowhere,
  so such runs never end.  Nor does a run without any failure of which another
  run summarised a patent between estimate and dispatch
  (`api/v1/ai_runs.py:702`), or one whose task finds its cache key taken after
  its call.
* **Ingestion.**  ODP weeks that fail are left behind as long as BigQuery
  answers.  A run longer than two hours is joined by a second, whose lock it
  then deletes (`tasks/ingest_daily.py:46`).  A catch-up with fewer days than
  the gap records a success and hides the rest of it (`:231`).  A BigQuery
  error keeps records created by ODP from triggering the chain (`:313`).
* **Chat.**  Concurrent requests exceed the quota by one less than their number
  at most (`OvershootIsBounded`).  A request that ends between INCR and EXPIRE leaves a
  counter without a time to live, and a Redis error is a server error rather
  than the fail-open that `services/chat_quota.py:98` promises.
* **Billing.**  Two overlapping deliveries of events leave row and tier apart
  for good; a deletion delivered before its checkout is forgotten
  (`api/v1/billing.py:272`); a plan change never reaches the row (`:295`).
* **Alerts.**  Two overlapping scans insert the same alert twice, after which
  every scan that meets it raises and rolls back for all users.  Alert mails
  name a template that does not exist (`tasks/alerts.py:543`).
* **Live sessions.**  A reply names a session, and its journal has one slot:
  see section 3.  The instructions call plain decisions terminal at once
  (`src/.agents/skills/impeccable/reference/live.md:20`); until the reply is
  posted they are not.
* **Copy edits.**  The Apply button reports "Rolled back source"
  (`live-browser.js:3563`) whether or not a snapshot was there to put back.
  Neither the helper nor `live-commit-manual-edits.mjs:822-865` compares the
  report of a repair with the file: an edit the agent wrote and does not report
  stays in the source and in the buffer.
* **Controls.**  The fade-out timer hides a bar shown again within 250 ms
  (`live-browser.js:1065`); the arrow keys that an empty prompt lets through for
  the picker (`:1863`) find the picker asleep, since the bar is then up.  An
  Escape in the prompt while the action picker is open closes the picker
  (`:4910`) and then, in the prompt's own handler (`:1852-1861`), the bar, but
  neither the annotation overlay nor its notes.
* **Tuning.**  Reopening Tune resets the knobs to their defaults (`:4039`); a
  wrapper rendered anew in CYCLING is not counted again; the dots neither save
  nor report the choice; a failed checkpoint is not repeated; the fallback that
  injects the variants late sets CYCLING even while SAVING.
* **Detector.**  A removal takes the style sheet away for good; a text that
  leaves the view while it is sampled is not looked at again; a spotlight's
  backdrop survives a new scan.
* **Design panel.**  Its empty message asks to re-open the panel
  (`live-browser.js:8264`), which fetches only while nothing was fetched
  (`:8217`).
* **Style engine.**  A border that names no colour keeps the colour of an
  earlier one (`css-cascade.mjs:517-524`), and `border: 0` an earlier border; a letter spacing in
  em is computed before the element's own font size; `--x: var(--y)` takes the
  inherited `--y` when it is declared first; media, support and layer blocks
  are flattened.
* **Chat page.**  A suggestion is sent 50 ms after its click with the
  conversation the click's render closed over (`app/(app)/chat/page.tsx:80`,
  `:169-173`); a conversation opened meanwhile gets its turn, and its messages
  are then stored under the number of the other.
* **Pages.**  The trend page reads an error's JSON as data; the search page's
  "Try as keyword search" changes nothing; LinkedIn's Copy does nothing to a
  draft; the watchlist's label is off after a removal empties its last page;
  opportunity says it has nothing while it loads; the estimate of `ai-runs`
  may be of other settings than the ones submitted.
* **Today.**  The overview for first-time visitors
  (`app/(app)/today/page.tsx:381-398`) comes after a return that precludes it;
  after a reconnect the label names the very look it was marked with.
  `diversify` keeps two of a type apart only while others are left: 6 and 3 end
  in a longer run than `hooks/__tests__/useDiversifiedFeed.test.ts:34` states.

## 6. Plan

1. **Notifications**: theme matching and instant alerts (enqueue before commit,
   check before send, weekly quota), then the weekly digest (one session, one
   commit, unsubscribe).  Abstract specification: a notice is sent at most once
   per subscription and hour.
2. **Upsert and batches**: concurrent `upsert_patent` with enrichment; a batch
   whose session has failed.  Theorem: enrichment is never lost.
3. **Sign-in in the backend**: single use of links under concurrent
   verification, creation of users; `WebSession` has the client's half.
4. **Refinement**: a run ledger that promises what an administrator may rely on
   (tasks are dispatched, settled, counted), implemented by `AIRuns`; an ideal
   quota implemented by `ChatTurns` with its overshoot.
5. **Composition**: `Billing` and `ChatTurns` over one `users.tier`; daily
   ingestion with the chain it triggers; `ChatClient` over `ChatTurns`.
6. **Pure algorithms of the backend**: expiry assessment, scores, feed caps,
   families and quota tables, against reference definitions on small inputs, as
   `StyleCascade` and `TodayFeed` do for theirs.
7. **Proofs**: the refinements of 4 and the invariants of 1 to 3.

## 7. What is not modelled

`PROJECT.json` lists every part with its reason.  In short:

* **Backend.**  Parsers and HTTP clients of the patent offices, e-mail
  rendering, PDF, exports, figures, backup and news are I/O; embeddings and
  similarity are numeric; the read API and the CRUD endpoints keep no protocol
  state; the conversation store of `services/chat_memory.py` has no caller.
  Theme matching, digest, upsert and sign-in do have state and are the plan.
* **Web client.**  Marketing pages, the tour, charts, layout, the feedback
  widget, activation events, prefetching, the indicator of the quota, and the
  body of the patent page beside its panels.  Highlights and statistics of
  Today are one fetch in the model; they are two that are awaited together.
* **Live mode, tab.**  The scroll-tracking loops, the placing of overlays, the
  drawing of the shader, the exit button, the observer of hot reload in
  `LiveControls` (it is in `LiveTuning`), a page reload in `LiveControls` and
  one while SAVING in `LiveTuning`, wrappers without variants, and the 180 ms a
  closing picker stays visible.
* **Live mode, helper and agent.**  Its orderly shutdown, the order in which
  leases are looked at, the provider that runs the agent as a subprocess, and
  the fallback for generated files.  In `LiveEdits` a second tab does not Save.
* **Detector.**  What a rule finds is an input; the rules themselves are some
  hundred independent predicates.  Parsing of CSS, `@layer` and media
  conditions, and the override that jsdom needs for borders are left out of
  `StyleCascade`, sampling of images out of `LiveDetect`.

Some steps are folded where nothing in between is told apart: the select and the
commit of the user's row (`WriteUser`), the question who is signed in and its
answer (`WhoAmI`), the layout's way to the login page and the account page's way
home, which race after a sign-out (`SignOut`).  `Go` forgets an accepted session for an insert
too, which the code does for a replacement only (`live-browser.js:4994`): they
differ in whether a late answer to the accept is still heard.  `Reply` uses the token of
the helper that is up, where `live-poll.mjs` read it when its poll began: a
reply refused after a restart is an interrupted agent.  `Attempt` has a user to
tell: an alert goes with its user (`ON DELETE CASCADE`), and an account deleted
between the select of a batch and the attempt is left out.  A
suggestion whose page is left before it is sent asks a question that no page
shows, and is left out.

Inside the modelled parts, text, prompts, prices, wording and logging are left
out; time is counted in days or by the events it causes.
