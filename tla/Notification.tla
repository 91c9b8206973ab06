----------------------------- MODULE Notification -----------------------------
(***************************************************************************)
(* Who posts cards about incidents to Feishu, and how feishu_messages keeps   *)
(* a card from being posted again (send_incident_card in                     *)
(* app/services/pipeline.py, _post in app/integrations/feishu.py, digest.py,   *)
(* the closing of incidents in sweeper.py and by POST /resolve).             *)
(*                                                                         *)
(* Every poster asks the table, posts, and only then writes the row: the      *)
(* worker in AUTOCOMMIT, a round and a route with the transaction that closes  *)
(* the incident, the digest with one of its own.                            *)
(***************************************************************************)
EXTENDS Naturals

CONSTANTS
    Incidents,
    None,         \* nobody
    MaxDays,      \* bound: local days
    MaxFailures   \* bound: failed posts, failed transactions and crashes

ASSUME DaysAssumption == MaxDays \in Nat \ {0}
ASSUME FailuresAssumption == MaxFailures \in Nat

VARIABLES
    clock,     \* local time, two steps a day: before nine and from nine on
    status,    \* committed status of an incident
    messages,  \* committed rows of feishu_messages with ok; no query asks for others
    posts,     \* history: how often a card reached the chat
    today,     \* history: capped cards of an incident, and digests, that reached it today
    told,      \* history: incidents whose recovery card was posted or tried since they last opened
    reopened,  \* history: incidents that recurred
    requests,  \* cards an analysis was requested for
    job,       \* what the worker does
    event,     \* card requested by the event whose transaction is open
    closing,   \* the transactions of the round and of a route that close incidents
    loaded,    \* incidents the round has read and means to close
    digest,    \* the daily digest
    failures

vars == <<clock, status, messages, posts, today, told, reopened, requests, job, event, closing,
          loaded, digest, failures>>

Days == 0..(MaxDays - 1)
Today == clock \div 2
FromNine == clock % 2 = 1

CARD_KINDS == {"incident_created", "incident_root_changed", "incident_resolved"}
DAILY_CAP_EXEMPT == {"incident_resolved"}

Card == Incidents \X CARD_KINDS
Digest == <<"everyone", "daily_digest">>
Addressees == Incidents \cup {"everyone"}
ASSUME NamesAssumption == "everyone" \notin Incidents /\ None \notin Card

Row == [card : Card \cup {Digest}, day : Days]

Job == [phase : {"post", "sent"}, card : Card]
Idle == [phase |-> "idle"]

(* left: incidents whose recovery card is still to be sent; sent: rows added  *)
(* to the session, which the commit inserts.                                *)
Closers == {"sweep", "route"}
Closing ==
    [closed : SUBSET Incidents, left : SUBSET Incidents, sent : SUBSET Card]
NotClosing == [closed |-> {}, left |-> {}, sent |-> {}]

Init ==
    /\ clock = 1
    /\ status = [i \in Incidents |-> "absent"]
    /\ messages = {}
    /\ posts = [c \in Card |-> 0]
    /\ today = [x \in Addressees |-> 0]
    /\ told = {}
    /\ reopened = {}
    /\ requests = {}
    /\ job = Idle
    /\ event = None
    /\ closing = [by \in Closers |-> NotClosing]
    /\ loaded = {}
    /\ digest = "idle"
    /\ failures = 0

-----------------------------------------------------------------------------
(* What the table answers.                                                 *)

already_notified(c) == \E r \in messages : r.card = c

(* Mutated: every kind has a cap of its own.                                *)
SameSentToday(c) == \E r \in messages : r.card = c /\ r.day >= Today

sent_today(c) ==
    \E r \in messages :
        r.card[1] = c[1] /\ r.card[2] \notin DAILY_CAP_EXEMPT /\ r.day >= Today

(* Mutated: the digest of any day counts.                                   *)
DigestEverSent == \E r \in messages : r.card = Digest

already_sent_today == \E r \in messages : r.card = Digest /\ r.day >= Today

(* Mutated: dated by a clock that is a day ahead.                           *)
RowAhead(c) == [card |-> c, day |-> Today + 1]

(* created_at is the time of the insert, which comes with the last commit.   *)
RowOf(c) == [card |-> c, day |-> Today]

Suppressed(c) ==
    \/ already_notified(c)
    \/ c[2] \notin DAILY_CAP_EXEMPT /\ sent_today(c)

(* httpx.post: the card arrives and so does the answer; or it fails, and the  *)
(* card may have arrived all the same.                                      *)
Arrives(c) ==
    /\ posts' = [x \in Card |-> IF x = c THEN posts[x] + 1 ELSE posts[x]]
    /\ today' = IF c[2] \in DAILY_CAP_EXEMPT THEN today ELSE [today EXCEPT ![c[1]] = @ + 1]

Posted(c, ok) ==
    \/ ok /\ Arrives(c) /\ UNCHANGED failures
    \/ /\ ~ok
       /\ failures < MaxFailures
       /\ failures' = failures + 1
       /\ Arrives(c) \/ UNCHANGED <<posts, today>>

(* SQLite has one writer.                                                  *)
Writing(by) == closing[by] # NotClosing
WriteLockFree == event = None /\ \A by \in Closers : ~Writing(by)

-----------------------------------------------------------------------------
(* Webhooks: the requests leave before the transaction commits.             *)

(* A new or recurring incident asks for incident_created, a new root for      *)
(* incident_root_changed.                                                  *)
EventHandled ==
    /\ WriteLockFree
    /\ \E i \in Incidents :
        \/ event' = <<i, "incident_created">>
        \/ status[i] = "OPEN" /\ event' = <<i, "incident_root_changed">>
    /\ requests' = requests \cup {event'}
    /\ UNCHANGED <<clock, status, messages, posts, today, told, reopened, job, closing, loaded,
                   digest, failures>>

EventCommits ==
    /\ event # None
    /\ LET i == event[1]
       IN /\ status' = [status EXCEPT ![i] = "OPEN"]
          /\ reopened' = IF status[i] = "RESOLVED" THEN reopened \cup {i} ELSE reopened
          /\ told' = IF status[i] = "RESOLVED" THEN told \ {i} ELSE told
    /\ event' = None
    /\ UNCHANGED <<clock, messages, posts, today, requests, job, closing, loaded, digest, failures>>

EventRollsBack ==
    /\ event # None
    /\ failures < MaxFailures
    /\ failures' = failures + 1
    /\ event' = None
    /\ UNCHANGED <<clock, status, messages, posts, today, told, reopened, requests, job, closing,
                   loaded, digest>>

-----------------------------------------------------------------------------
(* The worker: one thread, a job at a time.                                 *)

(* Mutated: the job does not look for its row.                              *)
Requested(c) == TRUE

(* analyze_incident_now finds the incident.                                 *)
Visible(c) == status[c[1]] # "absent"

(* An analysis may be asked for again at any time, by the sweep, a restart or *)
(* a drain (module AnalysisWorker), so requests stay.                        *)
TakeJob ==
    /\ job = Idle
    /\ \E c \in requests :
        /\ Visible(c) /\ ~Suppressed(c)
        /\ job' = [phase |-> "post", card |-> c]
    /\ UNCHANGED <<clock, status, messages, posts, today, told, reopened, requests, event, closing,
                   loaded, digest, failures>>

PostCard ==
    /\ job.phase = "post"
    /\ \E ok \in BOOLEAN :
        Posted(job.card, ok) /\ job' = IF ok THEN [job EXCEPT !.phase = "sent"] ELSE Idle
    /\ UNCHANGED <<clock, status, messages, told, reopened, requests, event, closing, loaded,
                   digest>>

RecordCard ==
    /\ job.phase = "sent"
    /\ WriteLockFree
    /\ messages' = messages \cup {RowOf(job.card)}
    /\ job' = Idle
    /\ UNCHANGED <<clock, status, posts, today, told, reopened, requests, event, closing, loaded,
                   digest, failures>>

(* "database is locked", in a session that does not roll back what it sent.  *)
RecordFails ==
    /\ job.phase = "sent"
    /\ failures < MaxFailures
    /\ failures' = failures + 1
    /\ job' = Idle
    /\ UNCHANGED <<clock, status, messages, posts, today, told, reopened, requests, event, closing,
                   loaded, digest>>

-----------------------------------------------------------------------------
(* A round or a route closes incidents and posts before it commits.          *)

Unresolved == {i \in Incidents : status[i] = "OPEN"}

(* Mutated: the card is looked up before the write lock is held.             *)
NoEvent == event = None

CanClose == WriteLockFree

Closes(by, d) ==
    /\ ~Writing(by)
    /\ CanClose
    /\ closing' = [closing EXCEPT ![by] = [closed |-> d, left |-> d, sent |-> {}]]

SweepLoads ==
    /\ ~Writing("sweep")
    /\ loaded = {}
    /\ \E d \in SUBSET Unresolved : d # {} /\ loaded' = d
    /\ UNCHANGED <<clock, status, messages, posts, today, told, reopened, requests, job, event,
                   closing, digest, failures>>

SweepCloses ==
    /\ loaded # {}
    /\ Closes("sweep", loaded)
    /\ loaded' = {}
    /\ UNCHANGED <<clock, status, messages, posts, today, told, reopened, requests, job, event,
                   digest, failures>>

RouteCloses ==
    /\ \E i \in Incidents : status[i] # "absent" /\ Closes("route", {i})
    /\ UNCHANGED <<clock, status, messages, posts, today, told, reopened, requests, job, event,
                   loaded, digest, failures>>

RecoveryCard(i) == <<i, "incident_resolved">>

SendRecoveryCard(by) ==
    /\ \E i \in closing[by].left :
        \/ /\ already_notified(RecoveryCard(i))
           /\ closing' = [closing EXCEPT ![by].left = @ \ {i}]
           /\ UNCHANGED <<posts, today, told, failures>>
        \/ /\ ~already_notified(RecoveryCard(i))
           /\ \E ok \in BOOLEAN :
                /\ Posted(RecoveryCard(i), ok)
                /\ closing' = [closing EXCEPT ![by].left = @ \ {i},
                                              ![by].sent = IF ok THEN @ \cup {RecoveryCard(i)} ELSE @]
           /\ told' = told \cup {i}
    /\ UNCHANGED <<clock, status, messages, reopened, requests, job, event, loaded, digest>>

(* Mutated: the commit does not wait for the cards.                         *)
Decided(by) == Writing(by)

CardsSent(by) == Writing(by) /\ closing[by].left = {}

ClosingCommits(by) ==
    /\ CardsSent(by)
    /\ status' = [i \in Incidents |-> IF i \in closing[by].closed THEN "RESOLVED" ELSE status[i]]
    /\ messages' = messages \cup {RowOf(c) : c \in closing[by].sent}
    /\ closing' = [closing EXCEPT ![by] = NotClosing]
    /\ UNCHANGED <<clock, posts, today, told, reopened, requests, job, event, loaded, digest, failures>>

(* The cards are out, the rows are not.                                     *)
ClosingFails(by) ==
    /\ Writing(by)
    /\ failures < MaxFailures
    /\ failures' = failures + 1
    /\ closing' = [closing EXCEPT ![by] = NotClosing]
    /\ UNCHANGED <<clock, status, messages, posts, today, told, reopened, requests, job, event,
                   loaded, digest>>

-----------------------------------------------------------------------------
(* The daily digest.                                                       *)

DigestDue ==
    /\ digest = "idle"
    /\ FromNine
    /\ ~already_sent_today
    /\ Unresolved # {}
    /\ digest' = "post"
    /\ UNCHANGED <<clock, status, messages, posts, today, told, reopened, requests, job, event,
                   closing, loaded, failures>>

PostDigest ==
    /\ digest = "post"
    /\ \E ok \in BOOLEAN : Posted(Digest, ok) /\ digest' = IF ok THEN "sent" ELSE "idle"
    /\ UNCHANGED <<clock, status, messages, told, reopened, requests, job, event, closing,
                   loaded>>

DigestCommits ==
    /\ digest = "sent"
    /\ WriteLockFree
    /\ messages' = messages \cup {RowOf(Digest)}
    /\ digest' = "idle"
    /\ UNCHANGED <<clock, status, posts, today, told, reopened, requests, job, event, closing,
                   loaded, failures>>

DigestFails ==
    /\ digest = "sent"
    /\ failures < MaxFailures
    /\ failures' = failures + 1
    /\ digest' = "idle"
    /\ UNCHANGED <<clock, status, messages, posts, today, told, reopened, requests, job, event,
                   closing, loaded>>

DigestStep == DigestDue \/ PostDigest \/ DigestCommits

-----------------------------------------------------------------------------

TimePasses ==
    /\ clock < 2 * MaxDays - 1
    /\ clock' = clock + 1
    /\ today' = IF clock' \div 2 = Today THEN today ELSE [x \in Addressees |-> 0]
    /\ UNCHANGED <<status, messages, posts, told, reopened, requests, job, event, closing,
                   loaded, digest, failures>>

(* The columns of the incidents keep the requests.  Those of an event that    *)
(* rolled back are kept too, which the memory did not outlive.               *)
Crash ==
    /\ failures < MaxFailures
    /\ failures' = failures + 1
    /\ job' = Idle
    /\ event' = None
    /\ closing' = [by \in Closers |-> NotClosing]
    /\ loaded' = {}
    /\ digest' = "idle"
    /\ UNCHANGED <<clock, status, messages, posts, today, told, reopened, requests>>

Next ==
    \/ EventHandled \/ EventCommits \/ EventRollsBack
    \/ TakeJob \/ PostCard \/ RecordCard \/ RecordFails
    \/ SweepLoads \/ SweepCloses \/ RouteCloses
    \/ \E by \in Closers : SendRecoveryCard(by) \/ ClosingCommits(by) \/ ClosingFails(by)
    \/ DigestStep \/ DigestFails
    \/ TimePasses \/ Crash

Spec == Init /\ [][Next]_vars

(* Threads go on.  The loop asks for the digest after every round, whatever   *)
(* became of it, and its commit waits up to busy_timeout for the write lock,   *)
(* longer than others hold it.                                             *)
LiveSpec ==
    /\ Spec
    /\ WF_vars(EventCommits)
    /\ \A by \in Closers : WF_vars(SendRecoveryCard(by) \/ ClosingCommits(by))
    /\ WF_vars(DigestDue \/ PostDigest)
    /\ SF_vars(DigestCommits)

-----------------------------------------------------------------------------
(* Properties.                                                             *)

TypeOK ==
    /\ clock \in 0..(2 * MaxDays - 1)
    /\ status \in [Incidents -> {"absent", "OPEN", "RESOLVED"}]
    /\ messages \subseteq Row
    /\ posts \in [Card -> Nat]
    /\ today \in [Addressees -> Nat]
    /\ told \subseteq Incidents
    /\ reopened \subseteq Incidents
    /\ requests \subseteq Card
    /\ job \in Job \cup {Idle}
    /\ event \in Card \cup {None}
    /\ closing \in [Closers -> Closing]
    /\ loaded \subseteq Incidents
    /\ digest \in {"idle", "post", "sent"}
    /\ failures \in 0..MaxFailures

(* A card that reached the chat and whose row its poster is yet to commit.   *)
Underway(c) ==
    \/ job.phase = "sent" /\ job.card = c
    \/ \E by \in Closers : c \in closing[by].sent

(* Whoever posts it and however long after the lookup: a card reaches the     *)
(* chat only while it has no row, committed or on its way, and the digest     *)
(* only on a day that has none.  What comes a second time has thus lost its   *)
(* earlier row to a failed commit, a crash or an answer that failed.         *)
RepeatsOnlyIfLost ==
    [][/\ \A c \in Card : posts'[c] > posts[c] => ~already_notified(c) /\ ~Underway(c)
       /\ today'["everyone"] > today["everyone"] => ~already_sent_today]_vars

(* An incident gets one card a day, recovery aside; each failure accounts for *)
(* one more at most.                                                       *)
DailyCap == \A i \in Incidents : today[i] <= 1 + failures

(* No card tells of an incident that never came to be because its event was   *)
(* rolled back.                                                            *)
CreatedIsCommitted == \A c \in Card : posts[c] > 0 => status[c[1]] # "absent"

(* Nobody closes an incident for the first time without a try at its recovery *)
(* card.                                                                   *)
FirstRecoveryTold ==
    \A i \in Incidents : status[i] = "RESOLVED" /\ i \notin reopened => i \in told

(* digest.py, lines 7-9: restarts, failures and rounds notwithstanding, a     *)
(* digest that is due is sent that day while anything is unresolved.          *)
DigestNotLost ==
    \A d \in Days :
        clock = 2 * d + 1 /\ Unresolved # {} ~>
            \/ clock # 2 * d + 1
            \/ Unresolved = {}
            \/ \E r \in messages : r.card = Digest /\ r.day = d

(* Claims of comments that the code does not keep.                           *)

(* send_incident_card and already_notified: retries, and a restart after the  *)
(* card and before DONE, do not push a card again.                          *)
CardsNeverRepeat == \A c \in Card : posts[c] <= 1

(* digest.py: after a restart the digest is neither lost nor repeated.        *)
DigestNeverRepeats == today["everyone"] <= 1

(* The weaker of the two: what violates this violates both claims at once.    *)
OneIsNeverRepeated == CardsNeverRepeat \/ DigestNeverRepeats

=============================================================================
