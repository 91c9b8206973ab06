# TLA+ verification of the AIOps alarm centre

The program (package `app/`) receives alarms from Nightingale over HTTP,
deduplicates them into alerts, correlates alerts into incidents, diagnoses
incidents in a background thread, posts cards to Feishu and watches incidents
until they recover. It is one process with several threads over one SQLite
file. This directory models that program in TLA+, checks the models with TLC and
proves their safety invariants with TLAPS.

## 1. Inventory

### Components

| component | files | state | operations | status |
| --- | --- | --- | --- | --- |
| Alert service | `services/alert_service.py` | table `alerts` | find firing, upsert, resolve, expire | partly |
| Incident service | `services/incident_service.py` | `incidents`, `incident_alerts` | create, attach, promote, merge, reconcile, refresh, ack, resolve, detach | partly |
| Database | `db/models.py`, `queries.py`, `session.py` | the SQLite file, two session kinds | queries, transactions, column migration | partly |
| Event pipeline | `services/pipeline.py` | `raw_events`, PROCESS_LOCK | handle a firing or resolved event, retry, schedule analysis, send cards | partly |
| Recovery sweeper | `services/sweeper.py` | the round's transaction and its loaded rows | expire, verify, close or reopen, probe, retry analysis, purge | partly |
| Operator API | `api/routes.py` | per request: what it loaded | ack, resolve, detach, reanalyse, sweep now | partly |
| Service process | `main.py` | sweep task, worker | start, sweep loop, digest loop, stop | partly |
| Analysis worker | `services/worker.py` | `_INFLIGHT`, `_PENDING`, executor queue, `analysis_*` columns | request, run, drain, requeue, shut down | partly |
| Feishu notification | `integrations/feishu.py`, `services/digest.py` | table `feishu_messages` | post, suppress a repeat, daily cap, digest | partly |
| Raw archive, ingestion | `services/raw_store.py`, `locks.py`, `tools/` | JSONL files | persist, read back, purge, backfill | partly |
| Normalizer, fingerprint | `services/normalizer.py`, `fingerprint.py` | none | payload to event, event to fault identity | partly |
| Correlation engine | `correlation/engine.py`, `rules.py` | rules from two YAML files | score, choose an incident | partly |
| Topology | `correlation/topology.py` | `resource_relations`, keys in `session.info` | upsert, neighbours, distance | partly |
| Enrichment, context | `services/enricher.py`, `context_collector.py` | none | complete an event from Prometheus and Kubernetes; collect input for a prompt | partly |
| Diagnosis client | `integrations/deepseek.py` | none | ask the model, repeat, fall back to rules | partly |
| Prometheus, Kubernetes clients | `integrations/prometheus.py`, `kubernetes_client.py` | cache of `machine_info` | network I/O | partly |
| Web page, helpers | `ui.py`, `config.py`, `metrics.py`, ... | none | formatting, settings | not modelled |

### How they interact

- **HTTP threads** run `process_items` under PROCESS_LOCK. Each event is its own
  transaction, begun with BEGIN IMMEDIATE. Operator routes take no lock: they
  load rows, change them and commit.
- **The sweep thread** runs one round at a time (single flight). The round uses
  one session. Its network phases hold no lock. Its first flush opens SQLite's
  write transaction, which stays open until the round commits.
- **The worker thread** runs one analysis at a time on an AUTOCOMMIT session.
  HTTP threads and the sweep ask for analyses through two in-memory maps; the
  columns `analysis_*` of the incident record progress for a restart.
- SQLAlchemy's unit of work writes only columns that differ from what was loaded
  and checks no version, so a thread that loaded a row earlier overwrites part
  of what others wrote since.

### Hard behaviours and what must hold

- Verdicts computed from stale reads are applied after webhooks, merges and
  operators moved on. Links and owners must still agree, merges must stay final
  and acyclic, no fault may lose its incident.
- An incident is observed as recovering only with a recovery signal, never while
  an alert fires, and the observation ends.
- A round or the process fails half-way: what was flushed but not committed is
  gone and must be decided again.
- A requested analysis must not be lost between the memory of the worker and the
  columns it leaves for a restart.
- A card is posted once, an event is stored once, also when a delivery, a commit
  or a process is repeated.
- Alerts meet on one incident only for evidence that the rules accept, and never if the
  rules keep them apart, through whatever sequence of arrivals and merges.
- Two faults never share an alert, and a recovery finds the alert of its fault, although
  half of what identifies a fault is guessed from payloads or asked of Prometheus.
- The chat is told of an alert after it is committed, in order, and is told at all,
  although requests live in memory and wait behind analyses.

`PROJECT.json` lists each hazard at its line, with the property that covers it or
why none does.

### Modules

`AlertLedger` is the abstract specification that `IncidentLifecycle` (with
`IncidentStore`) implements, and `Intake` as well; `EventInbox` is the one that `Ingest`
implements. `AnalysisWorker`, `Ingest`, `Notification`, `Correlation`
and `Intake` (with `Normalizer`) each refine a part that the core leaves as a choice:
when an analysis runs, when an event enters, what the chat hears, which incident is
chosen, which fault an event is about. `BackgroundJobs` puts the worker's two kinds of
jobs on their one thread. Every `MC...` module gives the constants of one of them their
values for TLC, every `...Proofs` module holds the theorems about one.

## 2. The core: the life of an incident

`IncidentStore` models the tables `alerts`, `incidents` and `incident_alerts`
as one record and every query and service function as an operator on it.
`IncidentLifecycle` runs the threads over two copies: `committed`, what
connections see, and `db`, what the sweep's open transaction sees. They differ
only while the sweep has written and not yet committed.

| model | code |
| --- | --- |
| `RepeatFiring`, `NewFiring`, `ResolvedEvent` | one event of `process_one`, from BEGIN IMMEDIATE to commit, in one step: the write lock makes it atomic |
| `Correlated`, `Reconciled` | the choices of the correlation engine, the recurrence lookup and `reconcile_incidents`: every incident the queries can return may be chosen |
| `SweepExpire`, `SweepSelectRecovering`, `SweepVerify`, `SweepApply`, `SweepSelectProbes`, `SweepCommit` | the phases of `run_sweep`; verification of one incident and the write of one verdict are steps of their own, because webhooks and operators run between them |
| `Flush` | what SQLAlchemy writes of an object loaded earlier: columns that differ from the values loaded |
| `OperatorLoads`, `OperatorPicksLink`, then `AckIncident`, `ResolveIncident`, `Detach` | an operator route: load, then write and commit |
| `DeadlinePasses` | `recovery_deadline` comes to lie in the past |
| `SweepFails`, `Crash` | rollback of the round; loss of everything in flight |

### Abstractions

- Time: a deadline is none, ahead or passed. Staleness, silence and recurrence
  windows are arbitrary choices of the set concerned.
- Which open incident the rules choose, whether an alert outranks the root and
  which incident of a merged pair is older are arbitrary choices.
- What Prometheus answers is an arbitrary verdict.
- Severity, titles, counts and the timeline are left out.
- `debug_skip_dedup` and `inline_analysis` are off, as in production.
- Which alert an event belongs to is given; `Intake` derives it.
- `released` is a history of the links that operators cut; no action reads it.
- Of `resolution_reason` the type invariant asks that it is there exactly when an alert has
  ended: `refresh_state` tells recovery from silence by nothing else.
- The first attach of an incident finds the alert to be the root already, with relation
  UNKNOWN and its own priority, so `_maybe_promote_root` returns (`incident_service.py:212`):
  `CreateIncident` is an attach without a promotion and the ROOT link of line 131.
- Selecting and writing stale alerts is one step: the code holds PROCESS_LOCK
  for it, and no route that skips the lock writes alerts that it would touch
  except `detach`, which commutes with it. The incidents of those alerts are
  loaded (`sweeper.py:119`) before the first flush takes the write lock; a route
  that writes one of them in that window is not modelled.
- `MaxFailures` bounds crashes and failed rounds.

### What the core promises: `AlertLedger`

`AlertLedger` knows alerts, their faults and which incident holds them, and nothing of
threads, transactions or statuses of incidents. An alert is raised on an incident in
use, ends once, and is released by an operator; two incidents may turn out to be one,
and then the one that is given up hands over everything at once and for good. Three
theorems say what follows for whoever relies on it: history is final, merges are final,
and an alert moves only along a merge of the incident that holds it.

`IncidentLifecycle!Ledger` is the refinement mapping: state, fault, holder and merges are
those of `committed`, what a new connection reads. So one step of the ledger is one
commit of the code, and the claim `ImplementsLedger` is about the commit of a round,
which publishes at once what many steps with old rows have written, as much as about
`detach` on a link that a merge moved in the meantime. An action property says of one variable
what may not happen to it; the refinement also says that nothing else happens in
the same commit.

### Runs

| run | bounds | what it shows |
| --- | --- | --- |
| `lifecycle` | 3 alerts, 2 incidents, 1 fault, 1 operator, no failure, no Prometheus; symmetry | types; links and owners agree; a firing alert has an incident; a fault fires once; observation rests on a signal and starts quietly; merges are acyclic, a merged incident stays empty, the root of an incident is its own; every commit is a step of `AlertLedger` |
| `lifecycle_live` | 2 alerts, 2 incidents, 2 faults, no operator, 1 failure, with Prometheus; no symmetry | every observed incident is decided |
| `auto_close` | 2, 2, 2, nobody else | violated: a round closes an incident whose alert fires |
| `silence` | 2, 2, 2, nobody else | violated: silence starts the observation after an older signal |

Two incidents are the fewest that merge, two alerts the fewest for a root that
changes, a fault that recurs or a link that outlives a merge. An incident that is
merged away and reopened by a stale write can only be reached by a third alert. The
alerts of `lifecycle` share one fault, since recurrence is the shortest way to a
second incident; two faults and a lost round are in `lifecycle_live`, and the
proofs cover any number of either. One failure is enough to lose a round half-way and
to see the next one repeat it. With Prometheus the sweep also probes, which multiplies
the states; operators and probing are therefore in different runs.

`Spec` allows every behaviour and assumes nothing. `LiveSpec` adds weak fairness
of `SweepStep` (the loop of `main._sweep_loop` starts a round every
`sweep_interval_seconds` whatever the last one did) and strong fairness of
`DeadlinePasses` (time passes, and rounds end). Strong fairness is needed because
a deadline is compared with the time at which the round began, so it passes
between rounds. Nothing is assumed of webhooks, operators or failures.
`RecoveryDecided` is checked without operators: a resolve request that loaded its
row before the deadline was set can leave the status RECOVERING with no deadline
(`routes.py:311`), and no round looks at such an incident again.

### What the violations mean

- `AutoCloseIsQuiet`: `_resolve_recovered` verifies first and writes afterwards
  without looking at the alerts again. A webhook that attaches a firing alert in
  between is overwritten by RESOLVED.
- `SilenceIsNotRecovery`: `refresh_state` counts any alert of the incident that
  ever recovered explicitly. After that, expiry of the others is enough.

## 3. The analysis worker

`AnalysisWorker` models who asks for an analysis and how it is run. A request
leaves the columns `analysis_status`, `analysis_kind` and `analysis_attempts` of
the incident, which survive a restart, and an entry in the worker's memory, which
does not. The two are written at different moments by different threads.

| model | code |
| --- | --- |
| `WebhookSchedules` | the end of `_handle_firing`: `schedule_analysis` flushes and calls `request_analysis` inside the event's transaction |
| `RouteLoads`, `RouteSchedules` | `POST /analyze`: the row is loaded before the flush takes the write lock |
| `RequesterCommits`, `RequesterRollsBack` | the end of that transaction; `Scheduled` writes the columns that differ from what was loaded |
| `TakeJob`, `WaitEnds`, `StartAnalysis`, `FinishAnalysis`, `WorkerWriteFails` | `_analyze_job`: wait for the commit, load, RUNNING, analyse, result; or the write fails |
| `Drain`, `RequestAgain` | the two sections of `_drain_pending` |
| `SweepSelects`, `Requeue` | `_retry_stale_analysis`: select, then request row by row |
| `Crash`, `Serve` | the process dies; `requeue_pending` at start, then requests are served |

Abstractions:

- Staleness and the five-second wait are arbitrary: the wait may end at any
  time, and the job goes on either way, as in the code. (`worker.py:137` compares
  a kind with "DONE" and never holds.)
- One route has loaded a row at a time and one transaction is open at a time; the
  latter is SQLite's write lock.
- What the analysis finds and whether its card is posted are left out; its result
  is done, failed, or failed in a way worth repeating.
- An incident whose analysis was never requested (created and merged away by one
  event) is not part of the model.
- Jobs for alert notifications occupy the worker thread and touch nothing here.
- `owed` is a history of committed requests whose analysis has not begun; no
  action reads it.
- The executor is shut down only when the process ends.

| run | bounds | what it shows |
| --- | --- | --- |
| `worker` | 2 incidents, 2 attempts, 2 requests, 2 failures; no symmetry because of liveness | one job per incident, nothing stranded in `_PENDING`, a webhook's request survives crashes, every analysis settles |

Two requests are the fewest of which one waits behind the other, and two
failures allow a failed job and a crash in one behaviour. The second incident
makes the queue longer than one. The run does not check for deadlock: requests
are bounded and an idle system stops.

`LiveSpec` assumes weak fairness of the worker thread, of the commit or the flush
of a request that has begun, of requeueing and of the start: these are threads
that run on. It assumes strong fairness, per incident, of the sweep selecting it,
because the loop runs every `sweep_interval_seconds` and an incident that stays
PENDING or RUNNING is stale after `analysis_stale_seconds`. Strong fairness is
needed because a round that requeues something else disables the selection in
between. `AnalysisSettles` does not promise a finished analysis: the sweep gives
up at `analysis_max_attempts`, and the row then stays as it is until a restart.

The header of `worker.py` promises more: that a request made while its incident is
analysed is run afterwards and not silently swallowed (lines 13-14). `_drain_pending`
(line 125) drops a pending request of the kind that has just run, although it may have
been made after that analysis collected its data, and the DONE of the finished analysis
overwrites the PENDING of the request. `OwnRequestSurvives` is the part that
holds: a webhook's request that found nothing in flight. It is stated for
webhooks, which load under the write lock. A route may have loaded PENDING just
before the analysis ended (`routes.py:346`); its flush then writes no status, and only memory
knows of the request.

## 4. Deliveries and the two locks

`Ingest` follows an event from its delivery to its row in `raw_events`, between
two locks: PROCESS_LOCK, which a webhook holds for its batch and a round for one
section at a time, and SQLite's write lock, which a webhook takes at BEGIN
IMMEDIATE and a round keeps from its first write to its commit.

| model | code |
| --- | --- |
| `Deliver`, `BackfillScans`, `BackfillPosts` | `POST /api/v1/events/nightingale`; the backfill tool compares archive and table once, then posts |
| `Enter`, `Answer` | `process_items` takes PROCESS_LOCK for the batch; the route answers |
| `Begin`, `BeginTimesOut`, `Retried` | BEGIN IMMEDIATE in `_process_one_with_retry`, `busy_timeout`, the next attempt |
| `Duplicate`, `Archive` | `_insert_raw_event`: look the event up, then write its line unless an earlier attempt did (`raw_cache`) |
| `Process`, `ProcessFails` | the rest of `process_one` and the commit; an error that rolls back |
| `SweepEnters`, `SweepReads`, `SweepWrites`, `SweepGoesOn`, `SweepCommits`, `SweepTimesOut`, `SweepFails` | the sections of `run_sweep` and the commit in `_sweep_once` |
| `RouteWrites`, `RouteCommits` | `POST /resolve`, which flushes, posts a card and commits |
| `Crash` | the process dies; database and archive stay |

Abstractions:

- What an event does to alerts and incidents is module `IncidentLifecycle`; here
  it is counted. An event that cannot be normalised is stored as FAILED.
- `busy_timeout` may end any wait for the write lock. "database is locked" may
  also come after BEGIN; then, as after any other error, the transaction is rolled
  back.
- The alarm source repeats what it likes. HTTP statuses are left out; `done` are
  the items answered PROCESSED or DUPLICATE.
- The short writes of worker and digest and the purge are left out.
- `applied`, `sent` and `acknowledged` are histories; only the bound on `sent` reads one.

`EventInbox` is what all this amounts to for a source: an event is kept once, together
with what it changes (`Keep`) or as one that cannot be normalised (`Reject`), and only what
is kept is acknowledged. `Ingest!Inbox` maps `stored`, `applied` and `acknowledged` to it; a
step of the inbox is the commit of `Process` or an `Answer`, and threads, batches, attempts,
rollbacks, rounds, the backfill tool and crashes are invisible. That an event is applied at
most once and that what is acknowledged is stored follow from it.

| run | bounds | what it shows |
| --- | --- | --- |
| `ingest` | 2 threads, 2 events, one delivered twice; batches of 2; 2 attempts; 3 sections; 1 failure | every commit and answer is a step of `EventInbox`, the two locks are held by who is busy with them, no attempt adds a line to the archive, deliveries are answered and rounds end |

Two attempts stand for the four of the code: the first and the last are told apart,
those between behave like the first. Three sections are expiry, one that writes and
the gauges, which is the shortest round that asks for PROCESS_LOCK again after it
has written. A third delivery of an event repeats the second.

`LiveSpec` assumes weak fairness of a thread that handles its batch, of the round
and of a route that has written: they go on by themselves. For entering
PROCESS_LOCK it assumes strong fairness: `threading.Lock` promises no order, but
the lock is free for the time of the network calls between the sections of a round and
between deliveries.

The comment at BEGIN IMMEDIATE (`pipeline.py:563`) says that a conflict there is no
more than a wait in line, and `architecture.md:24` that the lock covers no more than a
read, a decision and a write. It is not always so: a round that has written holds the write lock and waits for PROCESS_LOCK, at the latest for the
gauges (`sweeper.py:364`); the webhook that holds PROCESS_LOCK waits for the write
lock. Only `busy_timeout` ends this, for every attempt of every event of the batch,
after which the events are answered FAILED. `DeliveryAnswered` and `RoundEnds`
show that it does end.

## 5. Cards

`Notification` models the cards about incidents and the daily digest, with
`feishu_messages` as the record that keeps a card from coming twice. Every poster
looks the card up, posts it, and commits its row later.

| model | code |
| --- | --- |
| `EventHandled`, `EventCommits`, `EventRollsBack` | `_handle_firing` requests an analysis before its transaction ends |
| `TakeJob`, `PostCard`, `RecordCard`, `RecordFails` | `analyze_incident_now` and `send_incident_card`: look up, post, commit |
| `SweepLoads`, `SweepCloses`, `RouteCloses` | the incidents a round has read; the flush of RESOLVED, which takes the write lock |
| `SendRecoveryCard`, `ClosingCommits`, `ClosingFails` | `_push_resolved_cards`, or the card of `POST /resolve`, and the end of the transaction |
| `DigestDue`, `PostDigest`, `DigestCommits`, `DigestFails` | `digest.due` and `send_digest` |
| `Posted` | `_post`: the card arrives, or the call fails and it may have arrived all the same |
| `TimePasses`, `Crash` | the local clock; the process dies |

Abstractions:

- Alert cards (event channel) touch only their own rows; they are in `BackgroundJobs`.
- Requests are never used up, since the sweep, a restart or a drain may ask for an
  analysis again (module `AnalysisWorker`). The worker's write of RUNNING is left out.
- Rows that are not `ok` are left out: every query asks for `ok`.
- The two phases in which a round closes incidents are one transaction, as in the
  code, and one step loads them.
- Merges and retention are left out. The cap and the digest are on, as by default, and
  the digest is sent only while something is unresolved.
- The clock has two steps a day, before nine and from nine on, and starts from nine.
- `posts`, `today`, `told` and `reopened` are histories; no action's guard reads them.

| run | bounds | what it shows |
| --- | --- | --- |
| `cards` | 1 incident, 2 days, 1 failure | what comes a second time has lost its earlier row; one card of an incident a day; no card of an incident that never was; a first recovery is told; a due digest is sent |
| `repeats` | the same | violated: after a crash between posts and commits, a card and the digest both come a second time |

Rows of one incident never bear on another's cards, so one incident shows every
race between worker, round, route and digest; the proofs cover any number. Two days
have the one midnight that matters. One failure is enough to lose a row; the bound of
`DailyCap` grows with `failures`.

Comments promise more than the code keeps. `send_incident_card` is said to be idempotent when the card
is out and DONE is not written (`pipeline.py:85-86`), `already_notified` to be a hard
guarantee (lines 246-249), the table to allow one success per target and kind
(`architecture.md:38`), and the digest to be neither lost nor repeated after a restart
(`digest.py:7-9`). But a row is written with the last commit of its transaction
(`pipeline.py:345`, `digest.py:75`), after the card is in the chat, so what dies or fails in
between leaves nothing to look up: the card comes again with the next job, and the digest with every
round until one of them commits. `OneIsNeverRepeated` is the weaker of the two claims, and run
`repeats` refutes both at once: one crash, with the worker between post and commit and the
digest as well.

What the code does keep is `RepeatsOnlyIfLost`: at the moment a card arrives it has no row,
neither committed nor on its way (`Underway`), and the digest of the day has none. A retry, a second
closing, a route beside a round or a drained request never posts what is recorded, however
long ago its lookup was; only a lost row repeats a card.

`LiveSpec` assumes weak fairness of the transactions that have begun and of the
digest, which the sweep loop asks for after every round, failed ones included. Strong
fairness of `DigestCommits`: its commit waits up to `busy_timeout` for the write lock,
and others take and release that lock meanwhile. `DigestNotLost` is stated for a day,
so it is met as well when the day ends or nothing is unresolved any more.

The code exempts recovery cards from the cap because people must learn that a fault is
over (`pipeline.py:259`). `already_notified` (line 88) is not exempt from anything:
when an incident recurs and is closed again its second recovery card is suppressed, which
is why `FirstRecoveryTold` speaks of the first.

## 6. Correlation

`IncidentStore` lets the rules choose any incident; `Correlation` is the choice itself:
which incident a new alert joins, who becomes its root, and which other incident is
merged with it at the end of the event.

| model | code |
| --- | --- |
| `incident` | a row of `incidents` with the alerts linked to it; it goes by the alert that opened it |
| `relations`, `pending` | table `resource_relations`, and the keys in `session.info` that an open session believes it has added |
| `AlertArrives` | one event with a new alert: the relations of the enricher, `correlate`, the recurrence lookup, `create_incident` or `attach_alert`, `reconcile_incidents` |
| `never`, `force`, `causal_match`, `signals`, `score`, `linkable`, `Forced`, `Best` | the rules, the scores and the loop over the candidates, in its order |
| `Attached`, `_maybe_promote_root`, `Merged`, `Matches` | the same functions of the incident service |
| `AttemptFails`, `SessionEnds` | an attempt that is rolled back keeps its keys until the session of the request closes |
| `create_relation`, `IncidentCloses` | `POST /topology/relations`; an incident is resolved |

Abstractions:

- PROCESS_LOCK is held for a whole batch, so one request with one session is open at a
  time. An event is one step, as in `IncidentLifecycle`.
- OPEN, ACKNOWLEDGED and RECOVERING are one status. Ends of alerts, repeats and detach
  are in `IncidentLifecycle`. The node and the cluster of an alert are given.
- Time is in minutes, the unit of the scores. Alerts occur at any of `Times`, in any order.
- The recurrence window ends at the present, which the times of events do not bound, so
  it may or may not reach the last incident of a fault. Of two incidents that were first
  seen together the smaller number is kept; numbers are not modelled, so either is.
- Reasons, severities and the wording of titles are left out.

| run | bounds | what it shows |
| --- | --- | --- |
| `correlation` | 5 alerts of 2 nodes, 2 times on either side of the window, 1 failed attempt, 1 relation of the API; symmetry of the two alerts of one fault | no incident holds what excludes each other, hangs together by chance, or joins nodes by a rule |
| `cause_root` | 3 alerts of one node, 2 times | violated: the root of an incident is a symptom of another alert on it |

`NodesTied` asks more of an incident whose alerts all name a node: however its nodes are
split into two parts, an alert on one side and an alert on the other share an entity, are
near in the topology, or are explained by a rule without `same_node`. Names, clusters and
minutes never join nodes.

The rules are an excerpt of the YAML files with their real weights: a causal rule on
one node, a forced pair, an excluded pair, priorities of roots. The alerts are chosen so
that excluded alerts share a node with a third that both can join, a forced pair
lies on different nodes, and two nodes are members of one cluster, hence at distance
two. Two times are enough, because scores and window only compare: one gap within a minute
and one beyond the window; the proofs cover the rest. A system whose alerts have
all arrived stops, so the run does not check for deadlock.

`TiedTogether` says that an incident cannot be split in two without cutting a tie of
entity, topology or rule. This is what the gate of strong signals is for: node, cluster
and minute alone add up to the threshold. It is stated of connections, since the
ends of a chain need not be tied to each other. It holds although a relation can be lost in a
retry, because a lost relation only makes ties fewer, for the engine and the property
alike; the relation itself is then missing until another session adds it.

What `cause_root` means: the cause joins the later of two incidents of its symptoms and
becomes its root there, then the merge keeps the older incident with the root it had.

Differences between texts and code that were met and have no run:

- `reconcile_incidents` says that incidents of different nodes are not merged, and then
  exempts topology (`incident_service.py:307` and `:351`). Two nodes of one cluster are at
  distance two, so their incidents merge; `NodesTied` states what the code keeps to.
- It merges one pair per event, so three incidents of symptoms do not converge when their
  cause arrives, as its text suggests (`incident_service.py:304`).
- It merges by topology without a score, where `architecture.md:70` asks for both.
- The role of a cause promotes an alert over a root of higher priority.

## 7. From payloads to alerts

An alert is a fingerprint that fires: rule, cluster, type and identity of the entity, and a
few labels. `Normalizer` is the pure part: which of the many places of a payload names the
entity, its node, its address and its cluster, what Prometheus adds, and what goes into the
fingerprint. `Intake` runs it on what a source sends.

| model | code |
| --- | --- |
| `NodeOf`, `HostnameOf`, `AddressOf`, `TypeOf`, `IdOf`, `IpOf`, `Normalize` | `normalize` and the functions it calls, with their order of preference |
| `Dimensions`, `Fingerprint` | `rules.fingerprint_labels` and `fingerprint.build` |
| `KubeRow`, `WithNode`, `WithPod`, `MachineRow`, `WithMachine` | `enrich`: kube_node_info, kube_pod_info, `machine_info` |
| `DedupKey`, `Known`, `Insert` | `normalizer.dedup_key` and `_insert_raw_event` |
| `Process`, `Duplicate`, `Reject` | `process_one` on a new event, on one it has, and on one without the name of a rule |
| `UpsertFiring`, `MarkResolved` | the functions of the alert service |
| `Remember`, `CacheExpires` | the cache of the Prometheus client; an empty answer is kept as well |
| `Expire` | the sweep ends alerts that were silent for too long; the status of an ended alert is its `resolution_reason`, `resolved` or `stale` |
| `Send` | external: the source evaluates its rules; `sent` is never emptied, so an event may arrive late, twice, in any order, or never |

Abstractions:

- One event is one step, because it is one transaction under PROCESS_LOCK; failed attempts
  are in `Ingest`.
- A text is a word with or without a port. Severity, times, summaries and hardware do
  not identify anything and are left out. So are the types `disk` and `interface`, which only the
  source itself can state, and their names; and the splitting of `events` arrays.
- The hash of the source is a function of the fault and the same for all its evaluations,
  as the text of `build_dedup_key` (`normalizer.py:338`) says; the time of an event tells two apart.
- Each query of Prometheus is answered or not, per event. A query that fails and one
  without a row look the same to the code. The Kubernetes API is not configured by default.
- Any firing alerts may expire; ages are not modelled.
- `delivered`, and the events of an alert (the code keeps their number), are histories.

| run | bounds | what it shows |
| --- | --- | --- |
| `intake` | 9 faults, one of them without a rule's name and one without anything that names its entity; 3 evaluations, 1 event without some or all answers | every evaluation is counted once in one alert; faults in the source's own form stay apart; a recovery that names its cluster ends its alert |

The faults are payloads of the shapes that `tests/test_phase1.py` sends: a node seen by
kube-state-metrics, whose address is the collector's; a machine seen by its exporter as
`address:port`, which names no cluster; two cards of one machine; pods of one name in two
namespaces; a deployment, whose payload names no entity. Three evaluations are a firing, its
recovery and one of another fault in between, or a firing, a recovery and a firing that
arrive in any order. The silent event is a firing or its recovery; the proofs cover any number.

A payload that names no entity is identified by a digest of its labels and of nothing else
(`normalizer.py:284`): `Labels`, in which `label.other` stands for all labels whose names the
code does not know. `MCIntake` evaluates that two deployments are told apart by a
label, and that one payload with another namespace beside its labels is the same fault
(`NamelessByLabelsAssumption`).

`NativeKeptApart` is restricted to payloads in the source's form because the code does not
keep more: the formatted payload, whose namespace is in `entity` or `scope` and not in a
label, gives pods of one name in two namespaces one fingerprint, because `build` reads
labels only (`fingerprint.py:28`). `README.md:11` promises alerts by rule, entity and key labels,
and `rules/correlation.yaml:80-83` lists the namespace among those of pods. It takes no behaviour to
see this, so it is evaluated with the constants (`FormattedPodsCollideAssumption`).
`NamedRecoveryEnds` is restricted to payloads that name their cluster for a like reason:
otherwise the cluster in the fingerprint is the one Prometheus knows
(`enricher.py:82`, `:113`, `:157`), so a firing event and its recovery have different
fingerprints if Prometheus answers only one of them, and the alert fires until it expires.
`NamedRecoveryEnds` demands an end of what was counted earlier only; that a late recovery also ends
what was counted since (`alert_service.py:101`) is what `MarkResolved` models.

`Intake!Ledger` maps this module to the same `AlertLedger` that the core implements: a fault
of the ledger is a fingerprint, an alert is named by the event that opened it, and one
incident stands for all, since none is chosen here. `ImplementsLedger` says that
opening, counting and ending alerts is raising and ending them in the ledger and nothing
else, and so why the core may take the alert of an event as given. It is proved; TLC
confirms it for 2 faults, 3 evaluations and one silence, but takes too long on the
instance of run `intake`.

## 8. The worker's jobs about alerts

`BackgroundJobs` is the other half of the worker: cards about single alerts. They have no
column that survives a restart, they are requested before the event that
causes them commits, and they wait in one queue with analyses whose model may time out on
every call.

| model | code |
| --- | --- |
| `EventFires`, `EventResolves`, `Commit`, `RollBack`, `Expire` | an event of `process_one` from its requests to its end; silence, which sends no card |
| `AnalysisRequested`, `InFlight` | `request_analysis`, once per incident in flight |
| `TakeJob`, `WaitEnds`, `WaitTimesOut` | the executor; `_wait_for` with `_alert_exists`, which sees committed rows only |
| `Skip`, `Post`, `Record`, `RecordFails` | `notify_alert_now`: look up, post, write the row |
| `AnalysisStarts`, `CallFails`, `AnalysisEnds` | `analyze_incident_now` around `deepseek.analyze`: `1 + llm_max_retries` calls, then the rules |
| `Crash` | the queue goes with the process |

Abstractions: one incident is analysed, as far as it occupies the thread. A new alert may
or may not ask for its analysis. A post that fails may have arrived. A wait that ends
before a transaction that then commits counts as a failure (its card is dropped), and so
does a rolled back transaction. Names of alerts are used once, as the database does
with ids. `chat` and `missed` are histories.

| run | bounds | what it shows |
| --- | --- | --- |
| `jobs` | 2 alerts, 2 retries, 2 failures; no symmetry because of liveness | the chat is told only of committed alerts, the alarm before the recovery, each again only after a failure; every card is tried |

Two alerts put one card behind another's and behind an analysis; two failures lose an alarm and
repeat a recovery in one behaviour. `LiveSpec` assumes weak fairness of the worker
(`WorkerStep`; every wait and every call has a timeout) and of the commit of an event that
has begun. It does not assume that a call of the model ever succeeds: `EveryCardTried` holds
because calls are counted. An idle system stops, so deadlock is not checked.

These cards share the lookup and the late row of those in section 5, and so the
difference between the "hard guarantee" of `pipeline.py:246-249` and what happens: a crash
between `Post` and `Record` repeats them. `ChatInOrder` allows one repetition per failure for
that reason; its order holds without exception.

`alert_resolved` is asked to wait for the commit as well (`worker.py:66`), but the wait looks
only for the row of the alert, which is there since the alarm: a recovery
whose event is rolled back may be announced. `ChatInOrder` therefore asks for a committed
alert, not for a committed recovery.

## 9. Proofs

Every invariant, action property and refinement that a passing run checks is also a
theorem, for all values of the constants. Proofs assume of
the constants only what the modules' `ASSUME`s say: bounds are natural numbers, the
values for nobody are no members of the sets, and the rule files are as described under
`CorrelationProofs`. TLC evaluates these assumptions in every run.

`IncidentLifecycleProofs` proves, for any sets of
alerts, incidents, faults and operators and any number of failures, the eight
invariants of run `lifecycle`. The invariants depend on each other. That a merged incident stays empty needs
links and owners to agree, since the queries filter on `merged_into` and the
merge moves both. That a recovering incident has had a signal survives a merge
only if the alerts that carry the signal move along. The inductive invariant
`IInv` is therefore one predicate `StoreInv` of a store, required of `db` and of
`committed`, and the facts that requests in flight name existing identifiers and
that without an open transaction the two stores agree.

Its first part proves once per service function that it maps a sound store
to a sound store (attach, create, merge, refresh, resolve, detach, and the flush
of stale rows). The second cites these facts for each action and closes with PTL.

`AlertLedgerProofs` proves `LifecycleImplementsLedger`, `Spec => Ledger!Spec`, and
`RecoveryStartsQuiet`. Steps that commit by themselves are steps of the ledger one by one.
The commit of a round is not: it publishes what earlier steps wrote to `db`. The
invariant `LInv` adds to `IInv` what these can have been (`Behind`): alerts that fired and
have now ended by silence, and rows of incidents in which no merge and no alert changed,
of which those that enter observation hold nothing that fires. It also needs that without a
transaction the two stores are the same, that an idle round carries nothing over, and that an
incident that does not exist is merged with nothing (`UnusedUnmerged`), since the
ledger raises on incidents in use. `HistoryNeverRewritten`, `MergesNeverUndone` and
`AlertsMoveByMerges` are proved of the abstract specification (with `EndsStand`,
`MergesStand` and `MovesFollow` as its steps) and carried over by the refinement.

`AnalysisWorkerProofs` proves the four invariants of run `worker` for any set of
incidents and any bounds. They rest on three more facts. While a webhook's own
request is uncommitted its row is as it was loaded and no analysis of it runs
(`OwnRequestIsFresh`), so that the commit does write PENDING. An analysis that
runs answers every request before it (`OwnRequestWaits`), so that its DONE
overwrites nothing that is owed. And a row that can be requeued has a kind
although requester and worker write that column only when it differs from what
they loaded (`KindRecorded`).

`IngestProofs` proves, for any events, threads, batches and bounds, the three invariants of
run `ingest` and `IngestImplementsInbox`. That the check for a duplicate still holds at the
commit (`CheckHolds`) rests on `PhasesFit`: whoever is between the two holds the write
lock. `AppliedWithRow` says that an event that changed something has its row, and
`DoneIsStored` that an item counts as done only once its row is committed. With these, the
commit is a step of the inbox and the answer is one, and nothing else touches what the
inbox sees. `InboxKeepsItsPromises` is about the abstract specification alone, and
`VerdictsAreFinal` carries it over: no later delivery, from whichever thread or tool,
processes what was rejected, or anything a second time.

`ArchivedPerDelivery` needs a balance, because a retry may write a line that an earlier
attempt has not and a batch may name an event twice. `Outstanding(e)` are the places in
all batches that may still write a line for `e`: the items not yet begun, and the one
being worked on unless its line is cached. `LinesPaid` says that lines written and
outstanding places together are at most the deliveries; each step either keeps
the sum or gives places up. `LineFirst` is why a row has its line: between archive and commit the
line is there. `LocksHeld` is inductive together with `IInv`.

`NotificationProofs` proves the invariants of run `cards` and `RepeatsOnlyIfLost` for any incidents,
days and failures. `PostsAccounted` counts: what arrived of a card is at most its row, or
the step that carries its row, plus the failures so far. It is inductive because nobody
posts a card that has a row or is on its way, which for recovery cards needs that one
transaction writes at a time (`ClosersFit`) and for the worker's cards that the worker
is the only one to post them (`WorkerFits`). `TodayAccounted` and `DigestAccounted`
count the same way per day: a row is dated at its commit and never ahead of the clock.
`RepetitionsCostFailures` is what the counts say of repetitions: without a failure there
is none. `RepeatsAreLostRows` says it of each step (`PostsAreNew`, `DigestIsNew`): the lookup was
earlier, but nobody else can have recorded or posted the same since.
`RecoveryTold` explains a card that is skipped: its row says that the incident was
told of once before.

`CorrelationProofs` proves `TypeOK`, `NeverTogether` and `TiedTogether` for any alerts,
rules, weights and relations. An event makes two moves: the alert is placed, then at most
one pair is merged. `PlacedCases` and `ReconciledCases` take the choices of either apart
once: an alert that joins is `Welcome`, that is, excluded by nobody and tied to
somebody, and what is merged is tied and has no excluded pair. Each property then has a
lemma for each move. The union of two connected parts with a tie between them is
connected, and ties outlast new relations (`TiesStay`). `NeverTogether` is needed for
recurrence, the one path on which the code does not look at never_link: an alert of the same
fault has the same name as one already there. The proofs assume what the rule files
satisfy: no name excludes itself, and every strong signal is one of the four that are
evidence (`require_strong_link` is on).

`NodesStayApart` proves `NodesTied`. It is not inductive: when an alert joins, the code
compares its node with the node in the row of the incident, not with its alerts. It needs that
an incident that is open or closed and whose root names a node names that node in its row
(`RootOnNode`), through promotion, merge and recurrence. An alert that joins is then on
the root's node, or is bridged to an alert on the incident; and of two parts that are
each spanned and are merged by a bridge or on one node, the union is spanned as well.
`CausalMatchIsHeaviest` is about the loop over the causal rules, which `causal_match` is,
turn by turn: a recursive function with the running best, replaced by heavier rules only.
It ends with the matching rule that beats all others by weight, and by order between equal
weights, for any list of rules (`RulesAssumption` says that it is a finite sequence with integer
weights). Induction is done over a set, of the turns after which the best so far is best
(`UpTo`, from a least turn outside the set), and so is the existence of the function itself
(`LoopRuns`). `NodesStayApart` uses it: the rule that joined an alert is one that matches.

`IntakeProofs` proves `TypeOK`, `EachTriggerCountsOnce` and `NamedRecoveryEnds` for any
payloads, any tables in Prometheus and any number of events and silences. A row of an alert is only known by
what it counted, so the invariant says that rows of one opening event are one
(`RowsApart`), that at most one row of a fingerprint fires (`FiringApart`), that a count is the
number of events (`RowsCount`), and that what is counted was processed and the reverse
(`RawIsDelivered`, `FiringsCounted`). `RowsFit` ties an alert to everything it counts: its
fingerprint has the rule, the entity and the labels of each fault, whatever Prometheus
added, and the cluster of each fault that names one. It rests on the lemma that enrichment
replaces nodes, addresses and missing clusters only. From it follow the recovery property and
`AlertsKeepReportsApart`: no alert counts two events whose payloads differ in rule, type,
identity, named cluster or the labels of pods and cards (`DistinctReports`), where the
identity of a payload without names is its labels.
`NativeFaultsApart` derives `NativeKeptApart` under the hypothesis that payloads in the
source's own form report their faults distinctly, which no proof can know of arbitrary
payloads; `MCIntake` states it as an assumption, so TLC evaluates it for those of the run.
`IntakeKeepsLedger` proves `ImplementsLedger` step by step: an event that opens an alert is
`Raise`, because nothing fires with its fingerprint; a recovery is `Recover` of the one
alert that does; a round is `Expire`; all others leave the ledger alone.

`BackgroundJobsProofs` proves `TypeOK` and `ChatInOrder` for any alerts, retries and failures.
The order needs a fact about requests that wait: the alarm of a recovery that waits is
told, or was dropped by a failure, or is in the worker's hand, or is ahead in the queue
(`AlarmFirst`). The number of repetitions is a balance, `Paid`: cards that arrived but have no row
and are on no way to one (`Unpaid`), plus the repetitions so far, are at most the
failures. A failure creates one unpaid card, and posting it again turns it into one repetition.

Only model-checked: the liveness properties `RecoveryDecided`, `AnalysisSettles`,
`DeliveryAnswered`, `RoundEnds`, `DigestNotLost` and `EveryCardTried`, which need fairness and
ENABLED and are out of the prover's reach; and the runs that end in a violation.

## 10. Differences that were met

With a run that shows them: a round closes an incident whose alert fires (`auto_close`), an old
signal makes silence a recovery (`silence`), cards and the digest come again after a crash
(`repeats`), and the merge keeps a symptom as root (`cause_root`). Evaluated with the constants
of `MCIntake`: formatted payloads of two pods have one fingerprint (section 7).

Without a run, besides those in the sections above (`pipeline.py:246` for alert cards, `worker.py:125`, `sweeper.py:188` with
`pipeline.py:563`, `pipeline.py:88`, `enricher.py:82`, `worker.py:66`, `routes.py:346`,
`incident_service.py:304` and `:307`):

- `deepseek.py:338`: an answer without evidence whose confidence is not a number raises
  outside the `try`. The analysis is FAILED and the incident's card is not sent, although
  `pipeline.py:126` says that a failed diagnosis never blocks the alarm itself.
- `routes.py:85`: a batch of which one item failed and one was processed is answered 200, so
  the source does not repeat the failed one; the backfill tool does.
- `sweeper.py:210`: probing after five minutes of silence is to spare people the two hours
  until alerts are stale, but `verify_recovery` (line 47) answers not_recovered as long as an
  alert fires, so an alert without a recovery event is decided after those two hours all the same.
- `normalizer.py:163`: `timezone` is used and not imported, so a time that is given as
  text of ten digits or without a zone ends in a NameError and not in an event.
- `incident_service.py:511`: retention deletes rows that `already_notified` and the numbering of
  incidents rely on.
- `incident_service.py:63`: numbers are compared as strings, of three digits and more.

## 11. Not modelled, and the plan from here

The order of the work was: the core, the worker, deliveries, cards and correlation with
their proofs; then the abstract specification and its refinement, payloads, and jobs about
alerts. What is left:

- Incident numbers, retention and purge of tables: they need rows that are deleted, which no
  module has. Next: a module of numbers, deletion and retention.
- Probing with ages: `IncidentLifecycle` lets a probe happen at any time; a module with ages
  of alerts could say when an incident is decided, not only that it is.
- The Kubernetes API in `Normalizer` and the collection of context for a diagnosis: the
  former is not configured by default, the latter is input of a prompt and decides nothing.
- The content of diagnoses, severities, titles, timelines, gauges, page, settings, card
  layout, loading of YAML files, HTTP clients: formatting or pure I/O.
- Proofs: abstract specifications of the worker's requests and of the cards, which say in one
  place what the invariants of `AnalysisWorker` and `Notification` say one by one.
