-------------------------------- MODULE Ingest --------------------------------
(***************************************************************************)
(* From a delivery to a stored event, and the two locks on the way          *)
(* (process_items and below in app/services/pipeline.py, raw_store.py,      *)
(* locks.py, the webhook in app/api/routes.py, tools/backfill_raw_events.py) *)
(* against the other writers: a round of the sweep and an operator's route.  *)
(*                                                                         *)
(* A webhook takes PROCESS_LOCK for its batch and SQLite's write lock for    *)
(* each event.  A round takes PROCESS_LOCK section by section, and keeps the *)
(* write lock from its first write to its commit.                           *)
(***************************************************************************)
EXTENDS Naturals, Sequences, FiniteSets

CONSTANTS
    Events,
    Threads,      \* HTTP threads that handle deliveries
    None,         \* nobody
    MaxAttempts,  \* attempts of _process_one_with_retry
    MaxBatch,     \* bound: events in a delivery
    MaxSent,      \* bound: deliveries explored of each event
    MaxSections,  \* bound: sections of a round under PROCESS_LOCK
    MaxFailures   \* bound: errors of processing, failed rounds and crashes

ASSUME AttemptsAssumption == MaxAttempts \in Nat \ {0}
ASSUME BoundsAssumption ==
    MaxBatch \in Nat /\ MaxSent \in [Events -> Nat] /\ MaxSections \in Nat /\ MaxFailures \in Nat
ASSUME NamesAssumption ==
    /\ None \notin Threads \cup {"sweep", "route"}
    /\ Threads \cap {"sweep", "route"} = {}

VARIABLES
    stored,        \* processing_status of the committed row in raw_events
    applied,       \* history: how often the event changed alerts and incidents
    archive,       \* lines of the event in the JSONL files
    sent,          \* history: deliveries of the event
    acknowledged,  \* history: answered PROCESSED or DUPLICATE
    processLock,   \* who holds PROCESS_LOCK
    writeLock,     \* who holds SQLite's write lock
    http,          \* the deliveries being handled
    sweep,         \* the round
    missing,       \* what the backfill tool has still to post
    failures

vars == <<stored, applied, archive, sent, acknowledged, processLock, writeLock, http, sweep,
          missing, failures>>

(* todo: items of the batch from the current one on; cached: raw_cache; done: *)
(* items answered PROCESSED or DUPLICATE.                                   *)
Call ==
    [phase : {"idle", "waiting", "begin", "open", "archived", "answer"},
     todo : Seq(Events), attempt : 0..(MaxAttempts - 1), cached : BOOLEAN, done : SUBSET Events]

IdleCall == [phase |-> "idle", todo |-> <<>>, attempt |-> 0, cached |-> FALSE, done |-> {}]

NewCall(b) ==
    [phase |-> "waiting", todo |-> b, attempt |-> 0, cached |-> FALSE, done |-> {}]

Batch == UNION {[1..n -> Events] : n \in 1..MaxBatch}

Round == [phase : {"idle", "wants", "section", "outside"}, left : 0..MaxSections]

IdleRound == [phase |-> "idle", left |-> 0]

Init ==
    /\ stored = [e \in Events |-> "absent"]
    /\ applied = [e \in Events |-> 0]
    /\ archive = [e \in Events |-> 0]
    /\ sent = [e \in Events |-> 0]
    /\ acknowledged = {}
    /\ processLock = None
    /\ writeLock = None
    /\ http = [t \in Threads |-> IdleCall]
    /\ sweep = IdleRound
    /\ missing = {}
    /\ failures = 0

-----------------------------------------------------------------------------
(* Deliveries.                                                             *)

Occurrences(b, e) == Cardinality({n \in DOMAIN b : b[n] = e})

Post(t, b) ==
    /\ http[t].phase = "idle"
    /\ sent' = [e \in Events |-> sent[e] + Occurrences(b, e)]
    /\ \A e \in Events : sent'[e] <= MaxSent[e]
    /\ http' = [http EXCEPT ![t] = NewCall(b)]

(* The source sends what it likes, again when it got no answer.             *)
Deliver(t) ==
    /\ \E b \in Batch : Post(t, b)
    /\ UNCHANGED <<stored, applied, archive, acknowledged, processLock, writeLock, sweep, missing,
                   failures>>

(* The tool compares the archive with the database once and then posts.     *)
BackfillScans ==
    /\ missing = {}
    /\ missing' = {e \in Events : archive[e] > 0 /\ stored[e] = "absent"}
    /\ missing' # {}
    /\ UNCHANGED <<stored, applied, archive, sent, acknowledged, processLock, writeLock, http,
                   sweep, failures>>

BackfillPosts(t) ==
    \E e \in missing :
        /\ Post(t, <<e>>)
        /\ missing' = missing \ {e}
        /\ UNCHANGED <<stored, applied, archive, acknowledged, processLock, writeLock, sweep, failures>>

-----------------------------------------------------------------------------
(* One batch: process_items and _process_one_with_retry.                    *)

NextItem(c, ok) ==
    [phase |-> IF Tail(c.todo) = <<>> THEN "answer" ELSE "begin",
     todo |-> Tail(c.todo), attempt |-> 0, cached |-> FALSE,
     done |-> IF ok THEN c.done \cup {Head(c.todo)} ELSE c.done]

(* Mutated: an attempt is not counted.                                      *)
RetriedForEver(c) == [c EXCEPT !.phase = "begin"]

(* Mutated: one attempt too many.                                           *)
RetriedOnceMore(c) ==
    IF c.attempt < MaxAttempts THEN [c EXCEPT !.phase = "begin", !.attempt = @ + 1]
    ELSE NextItem(c, FALSE)

(* Mutated: an item that was tried often enough counts as done.             *)
RetriedThenDone(c) ==
    IF c.attempt < MaxAttempts - 1 THEN [c EXCEPT !.phase = "begin", !.attempt = @ + 1]
    ELSE NextItem(c, TRUE)

(* "database is locked" is tried again, up to MaxAttempts times.            *)
Retried(c) ==
    IF c.attempt < MaxAttempts - 1 THEN [c EXCEPT !.phase = "begin", !.attempt = @ + 1]
    ELSE NextItem(c, FALSE)

Enter(t) ==
    /\ http[t].phase = "waiting"
    /\ processLock = None
    /\ processLock' = t
    /\ http' = [http EXCEPT ![t].phase = "begin"]
    /\ UNCHANGED <<stored, applied, archive, sent, acknowledged, writeLock, sweep, missing, failures>>

(* BEGIN IMMEDIATE.                                                        *)
Begin(t) ==
    /\ http[t].phase = "begin"
    /\ writeLock = None
    /\ writeLock' = t
    /\ http' = [http EXCEPT ![t].phase = "open"]
    /\ UNCHANGED <<stored, applied, archive, sent, acknowledged, processLock, sweep, missing, failures>>

(* busy_timeout is over.                                                   *)
BeginTimesOut(t) ==
    /\ http[t].phase = "begin"
    /\ writeLock # None
    /\ http' = [http EXCEPT ![t] = Retried(@)]
    /\ UNCHANGED <<stored, applied, archive, sent, acknowledged, processLock, writeLock, sweep,
                   missing, failures>>

(* Mutated: duplicates are looked for in this batch only.                   *)
KnownInBatch(c) == Head(c.todo) \in c.done

Known(c) == stored[Head(c.todo)] # "absent"

Duplicate(t) ==
    /\ http[t].phase = "open"
    /\ Known(http[t])
    /\ writeLock' = None
    /\ http' = [http EXCEPT ![t] = NextItem(@, TRUE)]
    /\ UNCHANGED <<stored, applied, archive, sent, acknowledged, processLock, sweep, missing, failures>>

(* Mutated: every attempt writes its line.                                  *)
PersistedAgain(c, e) == [archive EXCEPT ![e] = @ + 1]

Persisted(c, e) == IF c.cached THEN archive ELSE [archive EXCEPT ![e] = @ + 1]

(* raw_store.persist: what is in the file stays there after a rollback.     *)
Archive(t) ==
    /\ http[t].phase = "open"
    /\ ~Known(http[t])
    /\ archive' = Persisted(http[t], Head(http[t].todo))
    /\ http' = [http EXCEPT ![t].phase = "archived", ![t].cached = TRUE]
    /\ UNCHANGED <<stored, applied, sent, acknowledged, processLock, writeLock, sweep, missing, failures>>

(* The event changes alerts and incidents, or cannot be normalised; its row  *)
(* is committed with it.                                                   *)
Process(t, status) ==
    /\ http[t].phase = "archived"
    /\ stored' = [stored EXCEPT ![Head(http[t].todo)] = status]
    /\ applied' = [applied EXCEPT ![Head(http[t].todo)] = IF status = "PROCESSED" THEN @ + 1 ELSE @]
    /\ writeLock' = None
    /\ http' = [http EXCEPT ![t] = NextItem(@, status = "PROCESSED")]
    /\ UNCHANGED <<archive, sent, acknowledged, processLock, sweep, missing, failures>>

(* An error after BEGIN IMMEDIATE rolls back; only a locked database is      *)
(* worth another attempt.                                                  *)
ProcessFails(t) ==
    /\ http[t].phase \in {"open", "archived"}
    /\ failures < MaxFailures
    /\ failures' = failures + 1
    /\ writeLock' = None
    /\ \E c \in {Retried(http[t]), NextItem(http[t], FALSE)} : http' = [http EXCEPT ![t] = c]
    /\ UNCHANGED <<stored, applied, archive, sent, acknowledged, processLock, sweep, missing>>

(* Mutated: PROCESS_LOCK is kept when every item of the batch failed.       *)
ReleasedIfDone(c) == IF c.done = {} THEN processLock ELSE None

Released(c) == None

Answer(t) ==
    /\ http[t].phase = "answer"
    /\ processLock' = Released(http[t])
    /\ acknowledged' = acknowledged \cup http[t].done
    /\ http' = [http EXCEPT ![t] = IdleCall]
    /\ UNCHANGED <<stored, applied, archive, sent, writeLock, sweep, missing, failures>>

CallStep(t) ==
    \/ Begin(t) \/ BeginTimesOut(t) \/ Duplicate(t) \/ Archive(t)
    \/ \E status \in {"PROCESSED", "FAILED"} : Process(t, status)
    \/ Answer(t)

-----------------------------------------------------------------------------
(* The other writers.                                                      *)

(* The first section expires alerts, the last updates the gauges; verdicts   *)
(* and the purge come in between.                                          *)
SweepStarts ==
    /\ sweep = IdleRound
    /\ \E n \in 2..MaxSections : sweep' = [phase |-> "wants", left |-> n]
    /\ UNCHANGED <<stored, applied, archive, sent, acknowledged, processLock, writeLock, http,
                   missing, failures>>

SweepEnters ==
    /\ sweep.phase = "wants"
    /\ processLock = None
    /\ processLock' = "sweep"
    /\ sweep' = [phase |-> "section", left |-> sweep.left - 1]
    /\ UNCHANGED <<stored, applied, archive, sent, acknowledged, writeLock, http, missing, failures>>

SweepReads ==
    /\ sweep.phase = "section"
    /\ processLock' = None
    /\ sweep' = [sweep EXCEPT !.phase = "outside"]
    /\ UNCHANGED <<stored, applied, archive, sent, acknowledged, writeLock, http, missing, failures>>

SweepWrites ==
    /\ sweep.phase = "section"
    /\ sweep.left > 0
    /\ writeLock \in {None, "sweep"}
    /\ writeLock' = "sweep"
    /\ processLock' = None
    /\ sweep' = [sweep EXCEPT !.phase = "outside"]
    /\ UNCHANGED <<stored, applied, archive, sent, acknowledged, http, missing, failures>>

SweepGoesOn ==
    /\ sweep.phase = "outside"
    /\ sweep.left > 0
    /\ sweep' = [sweep EXCEPT !.phase = "wants"]
    /\ UNCHANGED <<stored, applied, archive, sent, acknowledged, processLock, writeLock, http,
                   missing, failures>>

FreedBy(holder) == IF writeLock = holder THEN None ELSE writeLock

SweepCommits ==
    /\ sweep.phase = "outside"
    /\ sweep.left = 0
    /\ sweep' = IdleRound
    /\ writeLock' = FreedBy("sweep")
    /\ UNCHANGED <<stored, applied, archive, sent, acknowledged, processLock, http, missing, failures>>

(* A write of the round waits longer than busy_timeout.                     *)
SweepTimesOut ==
    /\ sweep.phase = "section"
    /\ sweep.left > 0
    /\ writeLock \notin {None, "sweep"}
    /\ processLock' = None
    /\ sweep' = IdleRound
    /\ UNCHANGED <<stored, applied, archive, sent, acknowledged, writeLock, http, missing, failures>>

(* Any other error of the round, outside its sections or in one.            *)
SweepFails ==
    /\ sweep.phase \in {"section", "outside"}
    /\ failures < MaxFailures
    /\ failures' = failures + 1
    /\ processLock' = IF sweep.phase = "section" THEN None ELSE processLock
    /\ writeLock' = FreedBy("sweep")
    /\ sweep' = IdleRound
    /\ UNCHANGED <<stored, applied, archive, sent, acknowledged, http, missing>>

SweepStep ==
    SweepStarts \/ SweepReads \/ SweepWrites \/ SweepGoesOn \/ SweepCommits \/ SweepTimesOut

(* POST /resolve writes, posts a card and commits.                          *)
RouteWrites ==
    /\ writeLock = None
    /\ writeLock' = "route"
    /\ UNCHANGED <<stored, applied, archive, sent, acknowledged, processLock, http, sweep, missing,
                   failures>>

RouteCommits ==
    /\ writeLock = "route"
    /\ writeLock' = None
    /\ UNCHANGED <<stored, applied, archive, sent, acknowledged, processLock, http, sweep, missing,
                   failures>>

(* The database and the archive survive; nobody gets an answer.             *)
Crash ==
    /\ failures < MaxFailures
    /\ failures' = failures + 1
    /\ processLock' = None
    /\ writeLock' = None
    /\ http' = [t \in Threads |-> IdleCall]
    /\ sweep' = IdleRound
    /\ UNCHANGED <<stored, applied, archive, sent, acknowledged, missing>>

Next ==
    \/ \E t \in Threads :
        Deliver(t) \/ BackfillPosts(t) \/ Enter(t) \/ CallStep(t) \/ ProcessFails(t)
    \/ BackfillScans
    \/ SweepStep \/ SweepEnters \/ SweepFails
    \/ RouteWrites \/ RouteCommits
    \/ Crash

Spec == Init /\ [][Next]_vars

(* Threads go on and rounds begin; PROCESS_LOCK is free between sections for *)
(* long enough that whoever waits for it gets it.                           *)
LiveSpec ==
    /\ Spec
    /\ \A t \in Threads : WF_vars(CallStep(t)) /\ SF_vars(Enter(t))
    /\ WF_vars(SweepStep)
    /\ SF_vars(SweepEnters)
    /\ WF_vars(RouteCommits)

-----------------------------------------------------------------------------
(* Properties.                                                             *)

TypeOK ==
    /\ stored \in [Events -> {"absent", "PROCESSED", "FAILED"}]
    /\ applied \in [Events -> Nat]
    /\ archive \in [Events -> Nat]
    /\ sent \in [Events -> Nat]
    /\ acknowledged \subseteq Events
    /\ processLock \in Threads \cup {"sweep", None}
    /\ writeLock \in Threads \cup {"sweep", "route", None}
    /\ http \in [Threads -> Call]
    /\ sweep \in Round
    /\ missing \subseteq Events
    /\ failures \in 0..MaxFailures

(* However often an event is delivered, retried or backfilled, it changes    *)
(* alerts and incidents once.                                              *)
AppliedOnce == \A e \in Events : applied[e] <= 1

(* What was answered PROCESSED or DUPLICATE is in the database, also after a *)
(* crash.                                                                  *)
AcknowledgedIsStored == \A e \in acknowledged : stored[e] # "absent"

Inbox == INSTANCE EventInbox WITH kept <- stored, changes <- applied, answered <- acknowledged

(* Threads, locks, attempts, rollbacks and crashes come down to an inbox: an *)
(* event is committed once, together with what it changes, its verdict stays, *)
(* and what is answered PROCESSED or DUPLICATE was committed before.          *)
ImplementsInbox == Inbox!Spec

(* A delivery has PROCESS_LOCK from its first item to its answer and SQLite's *)
(* write lock within an item, a round has PROCESS_LOCK within a section:     *)
(* batches and sections never overlap, whatever times out, fails or crashes, *)
(* and who has gone home holds nothing.                                     *)
LocksHeld ==
    /\ \A t \in Threads :
        /\ processLock = t <=> http[t].phase \in {"begin", "open", "archived", "answer"}
        /\ writeLock = t <=> http[t].phase \in {"open", "archived"}
    /\ processLock = "sweep" <=> sweep.phase = "section"
    /\ writeLock = "sweep" => sweep.phase # "idle"

(* An event leaves at most one line per delivery, however many attempts; and *)
(* what is in the database is in the archive.                               *)
ArchivedPerDelivery ==
    \A e \in Events :
        /\ archive[e] <= sent[e]
        /\ stored[e] # "absent" => archive[e] > 0

(* A delivery is answered, although rounds and operators hold the locks it   *)
(* needs.                                                                  *)
DeliveryAnswered == \A t \in Threads : http[t].phase # "idle" ~> http[t].phase = "idle"

(* A round ends, although webhooks hold PROCESS_LOCK while they wait for it.  *)
RoundEnds == sweep.phase # "idle" ~> sweep.phase = "idle"

=============================================================================
