--------------------------- MODULE NotificationProofs ---------------------------
(***************************************************************************)
(* Proofs, for any incidents, days and failures, of the invariants of        *)
(* Notification.                                                           *)
(***************************************************************************)
EXTENDS Notification, TLAPS

Exempt(c) == c[2] \in DAILY_CAP_EXEMPT

Recorded(c) == already_notified(c)

CapUsed(i) ==
    \E r \in messages : r.card[1] = i /\ r.card[2] \notin DAILY_CAP_EXEMPT /\ r.day >= Today

PendingToday(i) == job.phase = "sent" /\ job.card[1] = i

(* The worker does not post recovery cards, and it has looked the card up.   *)
WorkerFits ==
    /\ \A c \in requests : ~Exempt(c)
    /\ event # None => ~Exempt(event)
    /\ job # Idle => ~Exempt(job.card) /\ status[job.card[1]] # "absent"
    /\ job.phase = "post" => ~Recorded(job.card) /\ ~CapUsed(job.card[1])

(* One transaction writes at a time; what it has sent is not to be sent again. *)
ClosersFit ==
    /\ \A by \in Closers :
        /\ Writing(by) => event = None
        /\ \A other \in Closers : Writing(by) /\ Writing(other) => by = other
        /\ closing[by].left \subseteq closing[by].closed
        /\ \A c \in closing[by].sent : Exempt(c) /\ c[1] \in closing[by].closed \ closing[by].left
        /\ \A i \in closing[by].closed : status[i] # "absent"
    /\ \A i \in loaded : status[i] # "absent"

(* A card that is out has its row, has it on the way, or has lost it with a   *)
(* failure.                                                                *)
PostsAccounted ==
    \A c \in Card : posts[c] <= failures + (IF Recorded(c) \/ Underway(c) THEN 1 ELSE 0)

TodayAccounted ==
    \A i \in Incidents : today[i] <= failures + (IF CapUsed(i) \/ PendingToday(i) THEN 1 ELSE 0)

DigestAccounted ==
    /\ digest = "post" => ~already_sent_today
    /\ today["everyone"] <= failures + (IF already_sent_today \/ digest = "sent" THEN 1 ELSE 0)

(* A recovery card that needs no try had one before the incident recurred.    *)
RecoveryTold ==
    /\ \A i \in Incidents : Recorded(RecoveryCard(i)) => i \in told \cup reopened
    /\ \A by \in Closers : closing[by].closed \ closing[by].left \subseteq told \cup reopened

IInv ==
    /\ TypeOK
    /\ \A r \in messages : r.day <= Today
    /\ WorkerFits
    /\ ClosersFit
    /\ PostsAccounted
    /\ TodayAccounted
    /\ DigestAccounted
    /\ CreatedIsCommitted
    /\ RecoveryTold
    /\ FirstRecoveryTold

-----------------------------------------------------------------------------
(* The digest is no card of an incident.                                    *)
LEMMA DigestIsApart ==
    /\ Digest \notin Card
    /\ Digest[1] = "everyone" /\ Digest[2] \notin DAILY_CAP_EXEMPT
    /\ \A i \in Incidents : i # "everyone"
  BY NamesAssumption DEF Digest, Card, DAILY_CAP_EXEMPT

(* The cards webhooks ask for, and the one that closes an incident.          *)
LEMMA CardsOfIncident ==
    ASSUME NEW i \in Incidents
    PROVE  /\ <<i, "incident_created">> \in Card /\ ~Exempt(<<i, "incident_created">>)
           /\ <<i, "incident_root_changed">> \in Card /\ ~Exempt(<<i, "incident_root_changed">>)
           /\ RecoveryCard(i) \in Card /\ Exempt(RecoveryCard(i)) /\ RecoveryCard(i)[1] = i
  BY DEF Card, CARD_KINDS, DAILY_CAP_EXEMPT, Exempt, RecoveryCard

(* The clock counts days from zero.                                         *)
LEMMA TodayType ==
    ASSUME TypeOK
    PROVE  Today \in Days /\ Today \in Nat
  BY DaysAssumption DEF TypeOK, Today, Days

(* What the queries answer after an insert.                                 *)
LEMMA RowsAdded ==
    ASSUME TypeOK, \A r \in messages : r.day <= Today,
           NEW S \in SUBSET (Card \cup {Digest}),
           messages' = messages \cup {RowOf(c) : c \in S}, clock' = clock
    PROVE  /\ (messages \subseteq Row)' /\ (\A r \in messages : r.day <= Today)'
           /\ \A x : Recorded(x)' <=> Recorded(x) \/ x \in S
           /\ \A i \in Incidents : CapUsed(i)' <=> CapUsed(i) \/ \E c \in S : c[1] = i /\ ~Exempt(c)
           /\ already_sent_today' <=> already_sent_today \/ Digest \in S
<1>1. Today' = Today /\ Today \in Nat /\ Today \in Days
  <2>1. Today' = Today
    BY DEF Today
  <2>. QED
    BY <2>1, TodayType
<1>2. \A c \in S : /\ RowOf(c) \in messages' /\ RowOf(c).card = c /\ RowOf(c).day = Today
                  /\ RowOf(c) \in Row
  BY <1>1 DEF RowOf, Row
<1>3. \A r \in messages' : r \in messages \/ \E c \in S : r = RowOf(c)
  OBVIOUS
<1>4. messages \subseteq messages'
  OBVIOUS
<1>5. (messages \subseteq Row)' /\ (\A r \in messages : r.day <= Today)'
  BY <1>1, <1>2, <1>3 DEF TypeOK
<1>6. ASSUME NEW x PROVE Recorded(x)' <=> Recorded(x) \/ x \in S
  BY <1>2, <1>3, <1>4 DEF Recorded, already_notified
<1>7. ASSUME NEW i \in Incidents
      PROVE  CapUsed(i)' <=> CapUsed(i) \/ \E c \in S : c[1] = i /\ ~Exempt(c)
  BY <1>1, <1>2, <1>3, <1>4 DEF CapUsed, Exempt
<1>8. already_sent_today' <=> already_sent_today \/ Digest \in S
  BY <1>1, <1>2, <1>3, <1>4 DEF already_sent_today
<1>. QED
  BY <1>5, <1>6, <1>7, <1>8

(* Nothing is out when the program first starts.                             *)
LEMMA InitSound == Init => IInv
  BY DaysAssumption, FailuresAssumption, NamesAssumption
  DEF Init, IInv, TypeOK, WorkerFits, ClosersFit, PostsAccounted, TodayAccounted, DigestAccounted,
      CreatedIsCommitted, RecoveryTold, FirstRecoveryTold, Recorded, already_notified, Underway,
      PendingToday, CapUsed, already_sent_today, Writing, NotClosing, Closing, Closers, Card,
      Addressees, Idle

(***************************************************************************)
(* What happens in an event.                                               *)
(***************************************************************************)
(* A request leaves, nothing else changes.                                 *)
LEMMA EventHandledSound == IInv /\ EventHandled => IInv'
<1> SUFFICES ASSUME IInv, EventHandled PROVE IInv'
  OBVIOUS
<1>1. event' \in Card /\ ~Exempt(event') /\ requests' = requests \cup {event'}
  BY CardsOfIncident DEF EventHandled
<1>2. /\ UNCHANGED <<clock, status, messages, posts, today, told, reopened, job, closing, loaded,
                     digest, failures>>
      /\ event = None /\ \A by \in Closers : ~Writing(by)
  BY DEF EventHandled, WriteLockFree
<1>3. TypeOK'
  BY <1>1, <1>2 DEF IInv, TypeOK
<1>4. WorkerFits'
  BY <1>1, <1>2 DEF IInv, WorkerFits, Exempt, Recorded, already_notified, CapUsed, Today
<1>5. ClosersFit'
  BY <1>2 DEF IInv, ClosersFit, Writing, Exempt
<1>. QED
  BY <1>2, <1>3, <1>4, <1>5
  DEF IInv, PostsAccounted, TodayAccounted, DigestAccounted, CreatedIsCommitted, RecoveryTold,
      FirstRecoveryTold, Recorded, already_notified, Underway, PendingToday, CapUsed,
      already_sent_today, Today

(* A recurring incident is to be told of again and counts as reopened.     *)
LEMMA EventCommitsSound == IInv /\ EventCommits => IInv'
<1> SUFFICES ASSUME IInv, EventCommits PROVE IInv'
  OBVIOUS
<1> DEFINE i == event[1]
<1>1. event \in Card /\ i \in Incidents
  BY DEF IInv, TypeOK, EventCommits, Card
<1>2. /\ status' = [status EXCEPT ![i] = "OPEN"] /\ event' = None
      /\ reopened \subseteq reopened' /\ reopened' \subseteq Incidents
      /\ told' \subseteq told /\ told \cup reopened \subseteq told' \cup reopened'
      /\ UNCHANGED <<clock, messages, posts, today, requests, job, closing, loaded, digest, failures>>
  BY <1>1 DEF EventCommits, IInv, TypeOK
<1>3. \A x \in Incidents : status[x] # "absent" => status'[x] # "absent"
  BY <1>1, <1>2 DEF IInv, TypeOK
<1>4. TypeOK'
  BY <1>1, <1>2 DEF IInv, TypeOK
<1>5. WorkerFits'
  BY <1>2, <1>3 DEF IInv, TypeOK, Job, Card, WorkerFits, Exempt, Recorded, already_notified, CapUsed, Today
<1>6. ClosersFit'
  BY <1>2, <1>3 DEF IInv, TypeOK, ClosersFit, Closing, Writing, Exempt
<1>7. CreatedIsCommitted'
  BY <1>2, <1>3 DEF IInv, CreatedIsCommitted, Card
<1>8. RecoveryTold'
  BY <1>2 DEF IInv, RecoveryTold, Recorded, already_notified
<1>9. FirstRecoveryTold'
  <2> SUFFICES ASSUME NEW x \in Incidents, status'[x] = "RESOLVED", x \notin reopened'
               PROVE  x \in told'
    BY DEF FirstRecoveryTold
  <2>1. x # i /\ status[x] = "RESOLVED"
    BY <1>2, <1>1 DEF IInv, TypeOK
  <2>. QED
    BY <2>1, <1>2 DEF IInv, FirstRecoveryTold
<1>. QED
  BY <1>2, <1>4, <1>5, <1>6, <1>7, <1>8, <1>9
  DEF IInv, PostsAccounted, TodayAccounted, DigestAccounted, Recorded, already_notified, Underway,
      PendingToday, CapUsed, already_sent_today, Today

(* A rollback costs a failure and undoes nothing that was sent.            *)
LEMMA EventRollsBackSound == IInv /\ EventRollsBack => IInv'
<1> SUFFICES ASSUME IInv, EventRollsBack PROVE IInv'
  OBVIOUS
<1>1. /\ failures' = failures + 1 /\ failures' <= MaxFailures /\ event' = None
      /\ UNCHANGED <<clock, status, messages, posts, today, told, reopened, requests, job, closing,
                     loaded, digest>>
  BY FailuresAssumption DEF EventRollsBack, IInv, TypeOK
<1>2. TypeOK'
  BY <1>1, FailuresAssumption DEF IInv, TypeOK
<1>3. WorkerFits' /\ ClosersFit'
  BY <1>1 DEF IInv, WorkerFits, ClosersFit, Writing, Exempt, Recorded, already_notified, CapUsed, Today
<1>4. PostsAccounted' /\ TodayAccounted' /\ DigestAccounted'
  BY <1>1, FailuresAssumption
  DEF IInv, TypeOK, Addressees, PostsAccounted, TodayAccounted, DigestAccounted, Recorded,
      already_notified, Underway, PendingToday, CapUsed, already_sent_today, Today
<1>. QED
  BY <1>1, <1>2, <1>3, <1>4
  DEF IInv, CreatedIsCommitted, RecoveryTold, FirstRecoveryTold, Recorded, already_notified, Today

(***************************************************************************)
(* The worker.                                                             *)
(***************************************************************************)
(* The table lets the card pass: it has no row and the cap is not used.    *)
LEMMA TakeJobSound == IInv /\ TakeJob => IInv'
<1> SUFFICES ASSUME IInv, TakeJob PROVE IInv'
  OBVIOUS
<1>1. PICK c \in requests :
        /\ Visible(c) /\ ~Suppressed(c)
        /\ job' = [phase |-> "post", card |-> c]
        /\ job = Idle
        /\ UNCHANGED <<clock, status, messages, posts, today, told, reopened, requests, event,
                       closing, loaded, digest, failures>>
  BY DEF TakeJob
<1>2. c \in Card /\ ~Exempt(c) /\ status[c[1]] # "absent" /\ ~Recorded(c) /\ ~CapUsed(c[1])
  BY <1>1 DEF IInv, TypeOK, WorkerFits, Visible, Suppressed, sent_today, Exempt, Recorded, CapUsed
<1>3. TypeOK'
  BY <1>1, <1>2 DEF IInv, TypeOK, Job
<1>4. WorkerFits'
  BY <1>1, <1>2 DEF IInv, WorkerFits, Exempt, Recorded, already_notified, CapUsed, Today
<1>5. ClosersFit'
  BY <1>1 DEF IInv, ClosersFit, Writing, Exempt
<1>6. PostsAccounted' /\ TodayAccounted'
  BY <1>1
  DEF IInv, Idle, PostsAccounted, TodayAccounted, Recorded, already_notified, Underway,
      PendingToday, CapUsed, Today
<1>. QED
  BY <1>1, <1>3, <1>4, <1>5, <1>6
  DEF IInv, DigestAccounted, CreatedIsCommitted, RecoveryTold, FirstRecoveryTold, Recorded,
      already_notified, already_sent_today, Today

(* The card is on the way, or a failure accounts for it.                   *)
LEMMA PostCardSound == IInv /\ PostCard => IInv'
<1> SUFFICES ASSUME IInv, PostCard PROVE IInv'
  OBVIOUS
<1> DEFINE c == job.card
<1>1. PICK ok \in BOOLEAN :
        /\ Posted(c, ok)
        /\ job' = IF ok THEN [job EXCEPT !.phase = "sent"] ELSE Idle
        /\ UNCHANGED <<clock, status, messages, told, reopened, requests, event, closing, loaded,
                       digest>>
  BY DEF PostCard
<1>2. /\ job \in Job /\ job.phase = "post" /\ c \in Card /\ c[1] \in Incidents /\ ~Exempt(c)
      /\ status[c[1]] # "absent" /\ ~Recorded(c) /\ ~CapUsed(c[1])
  BY DEF PostCard, IInv, TypeOK, WorkerFits, Idle, Job, Card
<1>3. /\ failures' = IF ok THEN failures ELSE failures + 1
      /\ failures \in Nat /\ failures' \in 0..MaxFailures
      /\ \A x \in Card : posts'[x] = posts[x] \/ (x = c /\ posts'[x] = posts[x] + 1)
      /\ \A x \in Addressees : today'[x] = today[x] \/ (x = c[1] /\ today'[x] = today[x] + 1)
      /\ posts \in [Card -> Nat] /\ today \in [Addressees -> Nat]
      /\ posts' \in [Card -> Nat] /\ today' \in [Addressees -> Nat]
  BY <1>1, <1>2, FailuresAssumption DEF Posted, Arrives, Exempt, IInv, TypeOK, Addressees
<1>4. ok => job' \in Job /\ job'.phase = "sent" /\ job'.card = c
  BY <1>1, <1>2 DEF Job
<1>5. TypeOK'
  BY <1>1, <1>3, <1>4 DEF IInv, TypeOK
<1>6. WorkerFits'
  BY <1>1, <1>2, <1>4 DEF IInv, WorkerFits, Exempt, Idle, Recorded, already_notified, CapUsed, Today
<1>7. ClosersFit'
  BY <1>1 DEF IInv, ClosersFit, Writing, Exempt
<1>8. PostsAccounted'
  <2> SUFFICES ASSUME NEW x \in Card
               PROVE  posts'[x] <= failures' + (IF Recorded(x)' \/ Underway(x)' THEN 1 ELSE 0)
    BY DEF PostsAccounted
  <2>1. posts[x] <= failures + (IF Recorded(x) \/ Underway(x) THEN 1 ELSE 0)
    BY DEF IInv, PostsAccounted
  <2>2. /\ Recorded(x)' <=> Recorded(x)
        /\ Underway(x) => Underway(x)'
        /\ x = c => ~Recorded(x) /\ ~Underway(x)
        /\ x = c /\ ok => Underway(x)'
    BY <1>1, <1>2, <1>4 DEF Recorded, already_notified, Underway, IInv, ClosersFit
  <2>. QED
    BY <2>1, <2>2, <1>2, <1>3
<1>9. TodayAccounted'
  <2> SUFFICES ASSUME NEW x \in Incidents
               PROVE  today'[x] <= failures' + (IF CapUsed(x)' \/ PendingToday(x)' THEN 1 ELSE 0)
    BY DEF TodayAccounted
  <2>1. today[x] <= failures + (IF CapUsed(x) \/ PendingToday(x) THEN 1 ELSE 0)
    BY DEF IInv, TodayAccounted
  <2>2. /\ CapUsed(x)' <=> CapUsed(x)
        /\ ~PendingToday(x)
        /\ x = c[1] => ~CapUsed(x)
        /\ x = c[1] /\ ok => PendingToday(x)'
    BY <1>1, <1>2, <1>4 DEF CapUsed, PendingToday, Today
  <2>. QED
    BY <2>1, <2>2, <1>2, <1>3 DEF Addressees
<1>10. DigestAccounted'
  <2>1. today'["everyone"] = today["everyone"]
    BY <1>2, <1>3, DigestIsApart DEF Addressees
  <2>. QED
    BY <2>1, <1>1, <1>3 DEF IInv, DigestAccounted, already_sent_today, Today, Addressees
<1>11. CreatedIsCommitted'
  BY <1>1, <1>2, <1>3 DEF IInv, CreatedIsCommitted
<1>. QED
  BY <1>1, <1>5, <1>6, <1>7, <1>8, <1>9, <1>10, <1>11
  DEF IInv, RecoveryTold, FirstRecoveryTold, Recorded, already_notified, Today

(* The row takes the place of the step in flight.                          *)
LEMMA RecordCardSound == IInv /\ RecordCard => IInv'
<1> SUFFICES ASSUME IInv, RecordCard PROVE IInv'
  OBVIOUS
<1> DEFINE c == job.card
<1>1. /\ job.phase = "sent" /\ job \in Job /\ c \in Card /\ c[1] \in Incidents /\ ~Exempt(c)
      /\ messages' = messages \cup {RowOf(c)}
      /\ job' = Idle
      /\ UNCHANGED <<clock, status, posts, today, told, reopened, requests, event, closing, loaded,
                     digest, failures>>
  BY DEF RecordCard, IInv, TypeOK, WorkerFits, Idle, Job, Card
<1>2. /\ (messages \subseteq Row)' /\ (\A r \in messages : r.day <= Today)'
      /\ \A x : Recorded(x)' <=> Recorded(x) \/ x = c
      /\ \A i \in Incidents : CapUsed(i) \/ i = c[1] => CapUsed(i)'
      /\ already_sent_today' <=> already_sent_today
  <2>1. {c} \in SUBSET (Card \cup {Digest}) /\ Digest \notin {c}
    BY <1>1, DigestIsApart
  <2>2. messages' = messages \cup {RowOf(x) : x \in {c}}
    BY <1>1
  <2>. QED
    BY <1>1, <2>1, <2>2, RowsAdded DEF IInv
<1>3. TypeOK'
  BY <1>1, <1>2 DEF IInv, TypeOK
<1>4. WorkerFits' /\ ClosersFit'
  BY <1>1 DEF IInv, WorkerFits, ClosersFit, Writing, Exempt, Idle
<1>5. PostsAccounted'
  <2> SUFFICES ASSUME NEW x \in Card
               PROVE  posts[x] <= failures + (IF Recorded(x)' \/ Underway(x)' THEN 1 ELSE 0)
    BY <1>1 DEF PostsAccounted
  <2>1. Recorded(x) \/ Underway(x) => Recorded(x)' \/ Underway(x)'
    BY <1>1, <1>2 DEF Underway
  <2>. QED
    BY <2>1, FailuresAssumption DEF IInv, PostsAccounted, TypeOK
<1>6. TodayAccounted'
  <2> SUFFICES ASSUME NEW x \in Incidents
               PROVE  today[x] <= failures + (IF CapUsed(x)' \/ PendingToday(x)' THEN 1 ELSE 0)
    BY <1>1 DEF TodayAccounted
  <2>1. CapUsed(x) \/ PendingToday(x) => CapUsed(x)' \/ PendingToday(x)'
    BY <1>1, <1>2 DEF PendingToday
  <2>. QED
    BY <2>1, FailuresAssumption DEF IInv, TodayAccounted, TypeOK, Addressees
<1>7. RecoveryTold'
  BY <1>1, <1>2, CardsOfIncident DEF IInv, RecoveryTold
<1>. QED
  BY <1>1, <1>2, <1>3, <1>4, <1>5, <1>6, <1>7
  DEF IInv, DigestAccounted, CreatedIsCommitted, FirstRecoveryTold

(* A failure takes the place of the row.                                   *)
LEMMA RecordFailsSound == IInv /\ RecordFails => IInv'
<1> SUFFICES ASSUME IInv, RecordFails PROVE IInv'
  OBVIOUS
<1>1. /\ failures' = failures + 1 /\ failures' <= MaxFailures /\ job' = Idle
      /\ failures \in Nat /\ posts \in [Card -> Nat] /\ today \in [Addressees -> Nat]
      /\ UNCHANGED <<clock, status, messages, posts, today, told, reopened, requests, event,
                     closing, loaded, digest>>
  BY FailuresAssumption DEF RecordFails, IInv, TypeOK
<1>2. TypeOK'
  BY <1>1, FailuresAssumption DEF IInv, TypeOK
<1>3. WorkerFits' /\ ClosersFit'
  BY <1>1 DEF IInv, WorkerFits, ClosersFit, Writing, Exempt, Idle
<1>4. PostsAccounted'
  BY <1>1 DEF IInv, PostsAccounted, Recorded, already_notified, Underway
<1>5. TodayAccounted' /\ DigestAccounted'
  BY <1>1 DEF IInv, TodayAccounted, DigestAccounted, CapUsed, PendingToday, already_sent_today, Today, Addressees
<1>. QED
  BY <1>1, <1>2, <1>3, <1>4, <1>5
  DEF IInv, CreatedIsCommitted, RecoveryTold, FirstRecoveryTold, Recorded, already_notified, Today

(***************************************************************************)
(* Rounds and routes.                                                      *)
(***************************************************************************)
(* What a round reads exists.                                              *)
LEMMA SweepLoadsSound == IInv /\ SweepLoads => IInv'
<1> SUFFICES ASSUME IInv, SweepLoads PROVE IInv'
  OBVIOUS
<1>1. /\ loaded' \subseteq Unresolved
      /\ UNCHANGED <<clock, status, messages, posts, today, told, reopened, requests, job, event,
                     closing, digest, failures>>
  BY DEF SweepLoads
<1>2. TypeOK'
  BY <1>1 DEF IInv, TypeOK, Unresolved
<1>3. WorkerFits' /\ ClosersFit'
  BY <1>1 DEF IInv, WorkerFits, ClosersFit, Writing, Exempt, Unresolved, Recorded, already_notified,
      CapUsed, Today
<1>. QED
  BY <1>1, <1>2, <1>3
  DEF IInv, PostsAccounted, TodayAccounted, DigestAccounted, CreatedIsCommitted, RecoveryTold,
      FirstRecoveryTold, Recorded, already_notified, Underway, PendingToday, CapUsed,
      already_sent_today, Today

(* A transaction that begins to close incidents has sent nothing yet.        *)
LEMMA ClosesSound ==
    ASSUME IInv, NEW by \in Closers, NEW d \in SUBSET Incidents, Closes(by, d),
           \A i \in d : status[i] # "absent",
           loaded' \subseteq loaded,
           UNCHANGED <<clock, status, messages, posts, today, told, reopened, requests, job, event,
                       digest, failures>>
    PROVE  IInv'
<1>1. /\ closing' = [closing EXCEPT ![by] = [closed |-> d, left |-> d, sent |-> {}]]
      /\ event = None /\ \A other \in Closers : closing[other] = NotClosing
  BY DEF Closes, CanClose, WriteLockFree, Writing
<1>2. /\ closing' \in [Closers -> Closing] /\ closing \in [Closers -> Closing]
      /\ closing'[by] = [closed |-> d, left |-> d, sent |-> {}]
      /\ \A other \in Closers : other # by => closing'[other] = NotClosing
      /\ \A other \in Closers : closing'[other].sent = {} /\ closing[other].sent = {}
  BY <1>1 DEF IInv, TypeOK, Closing, NotClosing
<1>3. TypeOK'
  BY <1>2 DEF IInv, TypeOK
<1>4. WorkerFits'
  BY DEF IInv, WorkerFits, Exempt, Recorded, already_notified, CapUsed, Today
<1>5. ClosersFit'
  BY <1>1, <1>2 DEF IInv, ClosersFit, Writing, NotClosing
<1>6. PostsAccounted' /\ TodayAccounted'
  BY <1>2
  DEF IInv, PostsAccounted, TodayAccounted, Recorded, already_notified, Underway, PendingToday,
      CapUsed, Today
<1>7. RecoveryTold'
  BY <1>2 DEF IInv, RecoveryTold, Recorded, already_notified, NotClosing
<1>. QED
  BY <1>3, <1>4, <1>5, <1>6, <1>7
  DEF IInv, DigestAccounted, CreatedIsCommitted, FirstRecoveryTold, already_sent_today, Today

(* A round begins to write.                                                *)
LEMMA SweepClosesSound == IInv /\ SweepCloses => IInv'
  BY ClosesSound DEF SweepCloses, Closers, IInv, TypeOK, ClosersFit

(* A route begins to write.                                                *)
LEMMA RouteClosesSound == IInv /\ RouteCloses => IInv'
  BY ClosesSound DEF RouteCloses, Closers, IInv, TypeOK

(* One closer writes, so nobody else has sent the card meanwhile.          *)
LEMMA SendRecoveryCardSound ==
    ASSUME NEW by \in Closers
    PROVE  IInv /\ SendRecoveryCard(by) => IInv'
<1> SUFFICES ASSUME IInv, SendRecoveryCard(by) PROVE IInv'
  OBVIOUS
<1>1. /\ UNCHANGED <<clock, status, messages, reopened, requests, job, event, loaded, digest>>
      /\ closing \in [Closers -> Closing]
  BY DEF SendRecoveryCard, IInv, TypeOK
<1>2. PICK i \in closing[by].left :
        \/ /\ already_notified(RecoveryCard(i))
           /\ closing' = [closing EXCEPT ![by].left = @ \ {i}]
           /\ UNCHANGED <<posts, today, told, failures>>
        \/ /\ ~already_notified(RecoveryCard(i))
           /\ \E ok \in BOOLEAN :
                /\ Posted(RecoveryCard(i), ok)
                /\ closing' = [closing EXCEPT ![by].left = @ \ {i},
                                              ![by].sent = IF ok THEN @ \cup {RecoveryCard(i)} ELSE @]
           /\ told' = told \cup {i}
  BY DEF SendRecoveryCard
<1> DEFINE c == RecoveryCard(i)
<1>3. /\ i \in Incidents /\ c \in Card /\ Exempt(c) /\ c[1] = i
      /\ i \in closing[by].closed /\ c \notin closing[by].sent /\ status[i] # "absent"
      /\ Writing(by) /\ \A other \in Closers : other # by => closing[other] = NotClosing
  <2>1. /\ closing[by].left \subseteq closing[by].closed /\ closing[by].closed \subseteq Incidents
        /\ i \in closing[by].left
    BY <1>1, <1>2 DEF Closing, IInv, ClosersFit
  <2>2. i \in Incidents /\ c \in Card /\ Exempt(c) /\ c[1] = i
    BY <2>1, CardsOfIncident
  <2>3. c \notin closing[by].sent /\ status[i] # "absent"
    BY <2>1, <2>2 DEF IInv, ClosersFit
  <2>4. Writing(by)
    BY <2>1 DEF Writing, NotClosing
  <2>5. ASSUME NEW other \in Closers, other # by PROVE closing[other] = NotClosing
    BY <2>4, <2>5 DEF IInv, ClosersFit, Writing
  <2>. QED
    BY <2>1, <2>2, <2>3, <2>4, <2>5
<1>4. CASE already_notified(c) /\ UNCHANGED <<posts, today, told, failures>>
           /\ closing' = [closing EXCEPT ![by].left = @ \ {i}]
  <2>1. /\ closing' \in [Closers -> Closing]
        /\ closing'[by] = [closing[by] EXCEPT !.left = @ \ {i}]
        /\ closing'[by].closed = closing[by].closed /\ closing'[by].sent = closing[by].sent
        /\ closing'[by].left = closing[by].left \ {i}
        /\ \A other \in Closers : other # by => closing'[other] = closing[other]
    BY <1>1, <1>4 DEF Closing
  <2>2. TypeOK'
    BY <1>1, <1>4, <2>1 DEF IInv, TypeOK
  <2>3. WorkerFits'
    BY <1>1 DEF IInv, WorkerFits, Exempt, Recorded, already_notified, CapUsed, Today
  <2>4. ClosersFit'
    <3>1. ASSUME NEW o \in Closers
          PROVE  /\ Writing(o)' => Writing(o)
                 /\ closing'[o].closed = closing[o].closed /\ closing'[o].sent = closing[o].sent
                 /\ closing'[o].left \subseteq closing[o].left
      BY <1>3, <2>1 DEF Writing
    <3>. QED
      BY <1>1, <3>1 DEF IInv, ClosersFit, Exempt
  <2>5. PostsAccounted'
    BY <1>1, <1>4, <2>1 DEF IInv, PostsAccounted, Recorded, already_notified, Underway
  <2>6. RecoveryTold'
    BY <1>1, <1>3, <1>4, <2>1 DEF IInv, RecoveryTold, Recorded, already_notified
  <2>. QED
    BY <1>1, <1>4, <2>2, <2>3, <2>4, <2>5, <2>6
    DEF IInv, TodayAccounted, DigestAccounted, CreatedIsCommitted, FirstRecoveryTold, CapUsed,
        PendingToday, already_sent_today, Today
<1>5. CASE ~already_notified(c) /\ told' = told \cup {i}
           /\ \E ok \in BOOLEAN :
                /\ Posted(c, ok)
                /\ closing' = [closing EXCEPT ![by].left = @ \ {i},
                                              ![by].sent = IF ok THEN @ \cup {c} ELSE @]
  <2>1. PICK ok \in BOOLEAN :
          /\ Posted(c, ok)
          /\ closing' = [closing EXCEPT ![by].left = @ \ {i},
                                        ![by].sent = IF ok THEN @ \cup {c} ELSE @]
    BY <1>5
  <2>2. /\ closing' \in [Closers -> Closing]
        /\ closing'[by].closed = closing[by].closed
        /\ closing'[by].left = closing[by].left \ {i}
        /\ closing'[by].sent = IF ok THEN closing[by].sent \cup {c} ELSE closing[by].sent
        /\ \A other \in Closers : other # by => closing'[other] = closing[other]
    <3>1. closing \in [Closers -> Closing] /\ by \in Closers /\ c \in Card
      BY <1>1, <1>3 DEF IInv, TypeOK
    <3>. DEFINE row == [[closing[by] EXCEPT !.left = closing[by].left \ {i}]
                           EXCEPT !.sent = IF ok THEN closing[by].sent \cup {c}
                                           ELSE closing[by].sent]
    <3>2. closing[by] \in Closing
      BY <3>1
    <3>3. row \in Closing
      BY <3>1, <3>2 DEF Closing
    <3>4. closing' = [closing EXCEPT ![by] = row]
      BY <2>1, <3>1, <3>2 DEF Closing
    <3>5. /\ row.closed = closing[by].closed /\ row.left = closing[by].left \ {i}
          /\ row.sent = IF ok THEN closing[by].sent \cup {c} ELSE closing[by].sent
      BY <3>2 DEF Closing
    <3>. HIDE DEF row
    <3>. QED
      BY <3>1, <3>3, <3>4, <3>5
  <2>3. /\ failures' = IF ok THEN failures ELSE failures + 1
        /\ failures \in Nat /\ failures' \in 0..MaxFailures
        /\ \A x \in Card : posts'[x] = posts[x] \/ (x = c /\ posts'[x] = posts[x] + 1)
        /\ posts \in [Card -> Nat] /\ posts' \in [Card -> Nat]
        /\ today' = today
    BY <1>3, <2>1, FailuresAssumption DEF Posted, Arrives, Exempt, IInv, TypeOK
  <2>4. TypeOK'
    BY <1>1, <1>3, <1>5, <2>2, <2>3 DEF IInv, TypeOK
  <2>5. WorkerFits'
    BY <1>1 DEF IInv, WorkerFits, Exempt, Recorded, already_notified, CapUsed, Today
  <2>6. ClosersFit'
    BY <1>1, <1>3, <2>2 DEF IInv, ClosersFit, Writing, Exempt
  <2>7. PostsAccounted'
    <3> SUFFICES ASSUME NEW x \in Card
                 PROVE  posts'[x] <= failures' + (IF Recorded(x)' \/ Underway(x)' THEN 1 ELSE 0)
      BY DEF PostsAccounted
    <3>1. posts[x] <= failures + (IF Recorded(x) \/ Underway(x) THEN 1 ELSE 0)
      BY DEF IInv, PostsAccounted
    <3>2. /\ Recorded(x)' <=> Recorded(x)
          /\ Underway(x) => Underway(x)'
          /\ x = c => ~Recorded(x)
          /\ x = c /\ ok => Underway(x)'
      BY <1>1, <1>5, <2>2 DEF Recorded, already_notified, Underway
    <3>3. x = c => ~Underway(x)
      BY <1>3 DEF Underway, NotClosing, IInv, WorkerFits, Idle
    <3>. QED
      BY <3>1, <3>2, <3>3, <2>3
  <2>8. TodayAccounted' /\ DigestAccounted'
    BY <1>1, <2>3
    DEF IInv, TypeOK, Addressees, TodayAccounted, DigestAccounted, CapUsed, PendingToday,
        already_sent_today, Today
  <2>9. CreatedIsCommitted'
    BY <1>1, <1>3, <2>3 DEF IInv, CreatedIsCommitted
  <2>10. RecoveryTold' /\ FirstRecoveryTold'
    BY <1>1, <1>5, <2>2 DEF IInv, RecoveryTold, FirstRecoveryTold, Recorded, already_notified
  <2>. QED
    BY <1>1, <2>4, <2>5, <2>6, <2>7, <2>8, <2>9, <2>10 DEF IInv, Today
<1>. QED
  BY <1>2, <1>4, <1>5

(* Rows take the place of the cards; every incident closed was told of.    *)
LEMMA ClosingCommitsSound ==
    ASSUME NEW by \in Closers
    PROVE  IInv /\ ClosingCommits(by) => IInv'
<1> SUFFICES ASSUME IInv, ClosingCommits(by) PROVE IInv'
  OBVIOUS
<1> DEFINE S == closing[by].sent
           D == closing[by].closed
<1>1. /\ Writing(by) /\ closing[by].left = {}
      /\ status' = [i \in Incidents |-> IF i \in D THEN "RESOLVED" ELSE status[i]]
      /\ messages' = messages \cup {RowOf(c) : c \in S}
      /\ closing' = [closing EXCEPT ![by] = NotClosing]
      /\ UNCHANGED <<clock, posts, today, told, reopened, requests, job, event, loaded, digest, failures>>
  BY DEF ClosingCommits, CardsSent
<1>2. /\ closing \in [Closers -> Closing] /\ closing' \in [Closers -> Closing]
      /\ S \subseteq Card /\ D \subseteq Incidents /\ closing'[by] = NotClosing
      /\ \A other \in Closers : other # by => closing'[other] = closing[other] /\ closing[other] = NotClosing
      /\ \A c \in S : Exempt(c) /\ c[1] \in D
      /\ D \subseteq told \cup reopened
  BY <1>1 DEF IInv, TypeOK, Closing, NotClosing, ClosersFit, Writing, RecoveryTold
<1>3. /\ (messages \subseteq Row)' /\ (\A r \in messages : r.day <= Today)'
      /\ \A x : Recorded(x)' <=> Recorded(x) \/ x \in S
      /\ \A i \in Incidents : CapUsed(i)' <=> CapUsed(i)
      /\ already_sent_today' <=> already_sent_today
  <2>1. S \in SUBSET (Card \cup {Digest}) /\ Digest \notin S
    BY <1>2, DigestIsApart
  <2>. QED
    BY <1>1, <1>2, <2>1, RowsAdded DEF IInv
<1>4. \A i \in Incidents : status[i] # "absent" => status'[i] # "absent"
  BY <1>1
<1>5. TypeOK'
  BY <1>1, <1>2, <1>3 DEF IInv, TypeOK
<1>6. WorkerFits'
  <2>1. job # Idle => /\ job.card \in Card /\ job.card[1] \in Incidents /\ ~Exempt(job.card)
                      /\ status'[job.card[1]] # "absent"
    BY <1>4 DEF IInv, TypeOK, WorkerFits, Job, Card
  <2>2. job.phase = "post" => ~Recorded(job.card)' /\ ~CapUsed(job.card[1])'
    <3> SUFFICES ASSUME job.phase = "post" PROVE ~Recorded(job.card)' /\ ~CapUsed(job.card[1])'
      OBVIOUS
    <3>1. job # Idle /\ job' = job /\ job.card \notin S
      BY <1>1, <1>2, <2>1 DEF Idle
    <3>2. ~Recorded(job.card) /\ ~CapUsed(job.card[1])
      BY DEF IInv, WorkerFits
    <3>3. ~\E r \in messages' : r.card = job.card
      BY <1>3, <3>1, <3>2 DEF Recorded, already_notified
    <3>4. ~CapUsed(job.card[1])'
      BY <1>3, <2>1, <3>1, <3>2
    <3>. QED
      BY <3>1, <3>3, <3>4 DEF Recorded, already_notified
  <2>. QED
    BY <1>1, <2>1, <2>2 DEF IInv, WorkerFits, Exempt
<1>7. ClosersFit'
  <2>1. ASSUME NEW o \in Closers
        PROVE  /\ ~Writing(o)' /\ closing'[o].left = {} /\ closing'[o].closed = {}
               /\ closing'[o].sent = {}
    BY <1>2 DEF Writing, NotClosing
  <2>2. \A i \in loaded : status'[i] # "absent"
    BY <1>4 DEF IInv, TypeOK, ClosersFit
  <2>. QED
    BY <1>1, <2>1, <2>2 DEF ClosersFit
<1>8. PostsAccounted'
  <2> SUFFICES ASSUME NEW x \in Card
               PROVE  posts[x] <= failures + (IF Recorded(x)' \/ Underway(x)' THEN 1 ELSE 0)
    BY <1>1 DEF PostsAccounted
  <2>1. Recorded(x) \/ Underway(x) => Recorded(x)' \/ Underway(x)'
    BY <1>1, <1>2, <1>3 DEF Underway, NotClosing
  <2>. QED
    BY <2>1, FailuresAssumption DEF IInv, PostsAccounted, TypeOK
<1>9. TodayAccounted' /\ DigestAccounted'
  BY <1>1, <1>3 DEF IInv, TodayAccounted, DigestAccounted, PendingToday
<1>10. CreatedIsCommitted'
  BY <1>1, <1>4 DEF IInv, CreatedIsCommitted, Card
<1>11. RecoveryTold'
  <2>1. ASSUME NEW i \in Incidents, Recorded(RecoveryCard(i))' PROVE i \in told \cup reopened
    <3> DEFINE c == RecoveryCard(i)
    <3>1. c \in Card /\ c[1] = i
      BY CardsOfIncident
    <3>2. Recorded(c) \/ c \in S
      BY <1>3, <2>1 DEF Recorded, already_notified, RecoveryCard
    <3>. QED
      BY <1>2, <3>1, <3>2 DEF IInv, RecoveryTold
  <2>2. ASSUME NEW o \in Closers PROVE closing'[o].closed = {}
    BY <1>2 DEF NotClosing
  <2>. QED
    BY <1>1, <2>1, <2>2 DEF RecoveryTold
<1>12. FirstRecoveryTold'
  BY <1>1, <1>2 DEF IInv, FirstRecoveryTold
<1>. QED
  BY <1>3, <1>5, <1>6, <1>7, <1>8, <1>9, <1>10, <1>11, <1>12 DEF IInv

(* Each card that loses its row is paid for by the failure.                  *)
LEMMA FailureSound ==
    ASSUME IInv, failures < MaxFailures, failures' = failures + 1,
           job' \in {job, Idle}, event' \in {event, None},
           digest' \in {digest, "idle"}, loaded' \subseteq loaded,
           closing' \in [Closers -> Closing],
           \A by \in Closers : closing'[by] = closing[by] \/ closing'[by] = NotClosing,
           UNCHANGED <<clock, status, messages, posts, today, told, reopened, requests>>
    PROVE  IInv'
<1>1. /\ failures \in Nat /\ failures' \in 0..MaxFailures
      /\ posts \in [Card -> Nat] /\ today \in [Addressees -> Nat]
  BY FailuresAssumption DEF IInv, TypeOK
<1>2. TypeOK'
  BY <1>1 DEF IInv, TypeOK
<1>3. WorkerFits'
  BY DEF IInv, WorkerFits, Exempt, Idle, Recorded, already_notified, CapUsed, Today
<1>4. ClosersFit'
  BY DEF IInv, ClosersFit, Writing, Exempt, NotClosing
<1>5. PostsAccounted' /\ TodayAccounted' /\ DigestAccounted'
  BY <1>1
  DEF IInv, PostsAccounted, TodayAccounted, DigestAccounted, Recorded, already_notified, CapUsed,
      already_sent_today, Today, Addressees
<1>6. RecoveryTold'
  BY DEF IInv, RecoveryTold, Recorded, already_notified, NotClosing
<1>. QED
  BY <1>2, <1>3, <1>4, <1>5, <1>6 DEF IInv, CreatedIsCommitted, FirstRecoveryTold, Today

(* The closing and the rows of its cards are rolled back.                  *)
LEMMA ClosingFailsSound ==
    ASSUME NEW by \in Closers
    PROVE  IInv /\ ClosingFails(by) => IInv'
<1>1. NotClosing \in Closing
  BY DEF NotClosing, Closing
<1>. QED
  BY <1>1, FailureSound DEF ClosingFails, IInv, TypeOK

(***************************************************************************)
(* The digest, the clock and the end of the process.                        *)
(***************************************************************************)
(* No digest of today has a row.                                           *)
LEMMA DigestDueSound == IInv /\ DigestDue => IInv'
<1> SUFFICES ASSUME IInv, DigestDue PROVE IInv'
  OBVIOUS
<1>1. /\ digest = "idle" /\ digest' = "post" /\ ~already_sent_today
      /\ UNCHANGED <<clock, status, messages, posts, today, told, reopened, requests, job, event,
                     closing, loaded, failures>>
  BY DEF DigestDue
<1>2. TypeOK'
  BY <1>1 DEF IInv, TypeOK
<1>3. WorkerFits' /\ ClosersFit'
  BY <1>1 DEF IInv, WorkerFits, ClosersFit, Writing, Exempt, Recorded, already_notified, CapUsed, Today
<1>4. DigestAccounted'
  BY <1>1 DEF IInv, DigestAccounted, already_sent_today, Today
<1>. QED
  BY <1>1, <1>2, <1>3, <1>4
  DEF IInv, PostsAccounted, TodayAccounted, CreatedIsCommitted, RecoveryTold, FirstRecoveryTold,
      Recorded, already_notified, Underway, PendingToday, CapUsed, Today

(* The digest is on the way, or a failure accounts for it.                 *)
LEMMA PostDigestSound == IInv /\ PostDigest => IInv'
<1> SUFFICES ASSUME IInv, PostDigest PROVE IInv'
  OBVIOUS
<1>1. PICK ok \in BOOLEAN : Posted(Digest, ok) /\ digest' = IF ok THEN "sent" ELSE "idle"
  BY DEF PostDigest
<1>2. /\ digest = "post"
      /\ UNCHANGED <<clock, status, messages, told, reopened, requests, job, event, closing, loaded>>
  BY DEF PostDigest
<1>3. /\ failures' = IF ok THEN failures ELSE failures + 1
      /\ failures \in Nat /\ failures' \in 0..MaxFailures
      /\ posts' = posts /\ posts \in [Card -> Nat]
      /\ today \in [Addressees -> Nat] /\ today' \in [Addressees -> Nat]
      /\ \A i \in Incidents : today'[i] = today[i]
      /\ \/ today'["everyone"] = today["everyone"]
         \/ today'["everyone"] = today["everyone"] + 1
  BY <1>1, DigestIsApart, FailuresAssumption DEF Posted, Arrives, IInv, TypeOK, Addressees
<1>4. TypeOK'
  BY <1>1, <1>2, <1>3 DEF IInv, TypeOK
<1>5. WorkerFits' /\ ClosersFit'
  BY <1>2 DEF IInv, WorkerFits, ClosersFit, Writing, Exempt, Recorded, already_notified, CapUsed, Today
<1>6. PostsAccounted' /\ TodayAccounted'
  BY <1>2, <1>3
  DEF IInv, Addressees, PostsAccounted, TodayAccounted, Recorded, already_notified, Underway,
      PendingToday, CapUsed, Today
<1>7. DigestAccounted'
  BY <1>1, <1>2, <1>3 DEF IInv, Addressees, DigestAccounted, already_sent_today, Today
<1>. QED
  BY <1>2, <1>3, <1>4, <1>5, <1>6, <1>7
  DEF IInv, CreatedIsCommitted, RecoveryTold, FirstRecoveryTold, Recorded, already_notified, Today

(* The row of the digest is of today.                                      *)
LEMMA DigestCommitsSound == IInv /\ DigestCommits => IInv'
<1> SUFFICES ASSUME IInv, DigestCommits PROVE IInv'
  OBVIOUS
<1>1. /\ digest = "sent" /\ digest' = "idle" /\ messages' = messages \cup {RowOf(Digest)}
      /\ UNCHANGED <<clock, status, posts, today, told, reopened, requests, job, event, closing,
                     loaded, failures>>
  BY DEF DigestCommits
<1>2. /\ (messages \subseteq Row)' /\ (\A r \in messages : r.day <= Today)'
      /\ \A x \in Card : Recorded(x)' <=> Recorded(x)
      /\ \A i \in Incidents : CapUsed(i)' <=> CapUsed(i)
      /\ already_sent_today'
  <2>1. {Digest} \in SUBSET (Card \cup {Digest}) /\ Digest \in {Digest}
    OBVIOUS
  <2>2. messages' = messages \cup {RowOf(x) : x \in {Digest}}
    BY <1>1
  <2>. QED
    BY <1>1, <2>1, <2>2, RowsAdded, DigestIsApart DEF IInv
<1>3. TypeOK'
  BY <1>1, <1>2 DEF IInv, TypeOK
<1>4. WorkerFits'
  BY <1>1, <1>2 DEF IInv, TypeOK, Job, Card, Idle, WorkerFits, Exempt
<1>5. ClosersFit'
  BY <1>1 DEF IInv, ClosersFit, Writing, Exempt
<1>6. PostsAccounted' /\ TodayAccounted' /\ DigestAccounted'
  BY <1>1, <1>2 DEF IInv, PostsAccounted, TodayAccounted, DigestAccounted, Underway, PendingToday
<1>7. RecoveryTold'
  BY <1>1, <1>2, CardsOfIncident DEF IInv, RecoveryTold
<1>. QED
  BY <1>1, <1>2, <1>3, <1>4, <1>5, <1>6, <1>7 DEF IInv, CreatedIsCommitted, FirstRecoveryTold

(* A failure takes the place of the digest's row.                          *)
LEMMA DigestFailsSound == IInv /\ DigestFails => IInv'
  BY FailureSound DEF DigestFails, IInv, TypeOK

(* A new day begins without cards, and no row is of that day yet.            *)
LEMMA TimePassesSound == IInv /\ TimePasses => IInv'
<1> SUFFICES ASSUME IInv, TimePasses PROVE IInv'
  OBVIOUS
<1>1. /\ clock' = clock + 1 /\ clock' <= 2 * MaxDays - 1 /\ clock \in Nat
      /\ today' = IF clock' \div 2 = Today THEN today ELSE [x \in Addressees |-> 0]
      /\ UNCHANGED <<status, messages, posts, told, reopened, requests, job, event, closing,
                     loaded, digest, failures>>
  BY DaysAssumption DEF TimePasses, IInv, TypeOK
<1>2. Today \in Nat /\ Today' \in Nat /\ Today <= Today'
  BY <1>1 DEF Today
<1>3. TypeOK'
  BY <1>1, DaysAssumption DEF IInv, TypeOK
<1>4. /\ \A i \in Incidents : CapUsed(i)' => CapUsed(i)
      /\ already_sent_today' => already_sent_today
      /\ Today' = Today => (\A i \in Incidents : CapUsed(i)' <=> CapUsed(i))
                           /\ (already_sent_today' <=> already_sent_today)
      /\ \A x : Recorded(x)' <=> Recorded(x)
  BY <1>1, <1>2
  DEF IInv, TypeOK, Row, Days, CapUsed, already_sent_today, Recorded, already_notified
<1>5. WorkerFits'
  BY <1>1, <1>4 DEF IInv, TypeOK, Job, Card, Idle, WorkerFits, Exempt
<1>6. ClosersFit'
  BY <1>1 DEF IInv, ClosersFit, Writing, Exempt
<1>7. PostsAccounted'
  BY <1>1, <1>4 DEF IInv, PostsAccounted, Underway
<1>8. TodayAccounted' /\ DigestAccounted'
  <2>1. CASE Today' = Today
    BY <1>1, <1>4, <2>1 DEF IInv, TodayAccounted, DigestAccounted, PendingToday, Today
  <2>2. CASE Today' # Today
    BY <1>1, <1>4, <2>2, FailuresAssumption
    DEF IInv, TypeOK, TodayAccounted, DigestAccounted, Addressees, Today
  <2>. QED
    BY <2>1, <2>2
<1>9. (\A r \in messages : r.day <= Today)'
  BY <1>1, <1>2 DEF IInv, TypeOK, Row, Days
<1>. QED
  BY <1>1, <1>3, <1>4, <1>5, <1>6, <1>7, <1>8, <1>9
  DEF IInv, CreatedIsCommitted, RecoveryTold, FirstRecoveryTold

(* Everything in flight is lost, each card at most once.                   *)
LEMMA CrashSound == IInv /\ Crash => IInv'
<1>1. NotClosing \in Closing
  BY DEF NotClosing, Closing
<1>. QED
  BY <1>1, FailureSound DEF Crash

-----------------------------------------------------------------------------
(* Nothing changes.                                                        *)
LEMMA StutterSound == IInv /\ UNCHANGED vars => IInv'
  BY DEF vars, IInv, TypeOK, WorkerFits, ClosersFit, PostsAccounted, TodayAccounted, DigestAccounted,
         CreatedIsCommitted, RecoveryTold, FirstRecoveryTold, Recorded, already_notified, Underway,
         PendingToday, CapUsed, already_sent_today, Writing, Exempt, Today

(* Each disjunct of Next, and stuttering.                                  *)
LEMMA NextSound == IInv /\ [Next]_vars => IInv'
<1> SUFFICES ASSUME IInv, [Next]_vars PROVE IInv'
  OBVIOUS
<1>1. CASE EventHandled \/ EventCommits \/ EventRollsBack
  BY <1>1, EventHandledSound, EventCommitsSound, EventRollsBackSound
<1>2. CASE TakeJob \/ PostCard \/ RecordCard \/ RecordFails
  BY <1>2, TakeJobSound, PostCardSound, RecordCardSound, RecordFailsSound
<1>3. CASE SweepLoads \/ SweepCloses \/ RouteCloses
  BY <1>3, SweepLoadsSound, SweepClosesSound, RouteClosesSound
<1>4. CASE \E by \in Closers : SendRecoveryCard(by) \/ ClosingCommits(by) \/ ClosingFails(by)
  BY <1>4, SendRecoveryCardSound, ClosingCommitsSound, ClosingFailsSound
<1>5. CASE DigestStep \/ DigestFails
  BY <1>5, DigestDueSound, PostDigestSound, DigestCommitsSound, DigestFailsSound DEF DigestStep
<1>6. CASE TimePasses \/ Crash
  BY <1>6, TimePassesSound, CrashSound
<1>7. CASE UNCHANGED vars
  BY <1>7, StutterSound
<1>. QED
  BY <1>1, <1>2, <1>3, <1>4, <1>5, <1>6, <1>7 DEF Next

(* Every card that is out is accounted for by a row, a step in flight or a    *)
(* failure, for any incidents, days and failures.                           *)
THEOREM NotificationInvariant == Spec => []IInv
  BY InitSound, NextSound, PTL DEF Spec

(* Clock, tables and the steps in flight keep their types.                   *)
THEOREM NotificationTypeCorrect == Spec => []TypeOK
<1>1. IInv => TypeOK
  BY DEF IInv
<1>. QED
  BY <1>1, NotificationInvariant, PTL

(* A step that posts a card finds it without a row.  The worker's card is no   *)
(* recovery card, so no closing has it; of the closings one writes at a time. *)
LEMMA PostsAreNew ==
    ASSUME IInv, [Next]_vars, NEW c \in Card, posts'[c] > posts[c]
    PROVE  ~already_notified(c) /\ ~Underway(c)
<1>1. posts \in [Card -> Nat]
  BY DEF IInv, TypeOK
<1>2. posts' # posts
  BY <1>1
<1>3. PostCard \/ \E by \in Closers : SendRecoveryCard(by)
  <2>1. \A by \in Closers : ClosingCommits(by) \/ ClosingFails(by) => UNCHANGED posts
    BY DEF ClosingCommits, ClosingFails
  <2>2. PostDigest => UNCHANGED posts
    BY DigestIsApart DEF PostDigest, Posted, Arrives, IInv, TypeOK
  <2>. QED
    BY <1>2, <2>1, <2>2
    DEF Next, vars, EventHandled, EventCommits, EventRollsBack, TakeJob, RecordCard, RecordFails,
        SweepLoads, SweepCloses, RouteCloses, DigestStep, DigestDue, DigestCommits, DigestFails,
        TimePasses, Crash
<1>4. CASE PostCard
  <2>1. c = job.card /\ job.phase = "post"
    BY <1>1, <1>4 DEF PostCard, Posted, Arrives
  <2>2. ~already_notified(c) /\ ~Exempt(c)
    BY <2>1 DEF IInv, WorkerFits, Recorded, Idle
  <2>. QED
    BY <2>1, <2>2 DEF Underway, IInv, ClosersFit
<1>5. CASE \E by \in Closers : SendRecoveryCard(by)
  <2>1. PICK by \in Closers : SendRecoveryCard(by)
    BY <1>5
  <2>2. PICK i \in closing[by].left : c = RecoveryCard(i) /\ ~already_notified(RecoveryCard(i))
    BY <1>1, <2>1 DEF SendRecoveryCard, Posted, Arrives
  <2>3. i \in Incidents /\ Exempt(c) /\ c[1] = i
    BY <2>2, CardsOfIncident DEF IInv, TypeOK, Closing
  <2>4. ~(job.phase = "sent" /\ job.card = c)
    BY <2>3 DEF IInv, WorkerFits, Idle
  <2>5. ASSUME NEW other \in Closers, c \in closing[other].sent PROVE FALSE
    <3>1. Writing(by) /\ Writing(other)
      BY <2>2, <2>5 DEF Writing, NotClosing
    <3>2. other = by
      BY <3>1 DEF IInv, ClosersFit
    <3>. QED
      BY <2>2, <2>3, <2>5, <3>2 DEF IInv, ClosersFit
  <2>. QED
    BY <2>2, <2>4, <2>5 DEF Underway
<1>. QED
  BY <1>3, <1>4, <1>5

(* The digest is posted by a round that has found no row of the day, and a     *)
(* midnight since can only leave fewer rows of the day.                      *)
LEMMA DigestIsNew ==
    ASSUME IInv, [Next]_vars, today'["everyone"] > today["everyone"]
    PROVE  ~already_sent_today
<1>1. today \in [Addressees -> Nat] /\ "everyone" \in Addressees
  BY DEF IInv, TypeOK, Addressees
<1>2. today'["everyone"] # today["everyone"]
  BY <1>1
<1>3. CASE PostDigest
  BY <1>3 DEF PostDigest, IInv, DigestAccounted
<1>4. CASE TimePasses
  <2>1. today' = today \/ today' = [x \in Addressees |-> 0]
    BY <1>4 DEF TimePasses
  <2>. QED
    BY <1>1, <2>1
<1>5. CASE PostCard
  <2>1. job.card \in Card /\ job.card[1] \in Incidents
    BY <1>5 DEF PostCard, IInv, TypeOK, Idle, Job, Card
  <2>. QED
    BY <1>1, <1>2, <1>5, <2>1, DigestIsApart DEF PostCard, Posted, Arrives
<1>6. CASE \E by \in Closers : SendRecoveryCard(by)
  <2>1. PICK by \in Closers : SendRecoveryCard(by)
    BY <1>6
  <2>2. \A i \in closing[by].left : RecoveryCard(i)[2] \in DAILY_CAP_EXEMPT
    BY DEF RecoveryCard, DAILY_CAP_EXEMPT
  <2>. QED
    BY <1>2, <2>1, <2>2 DEF SendRecoveryCard, Posted, Arrives
<1>7. PostDigest \/ TimePasses \/ PostCard \/ \E by \in Closers : SendRecoveryCard(by)
  <2>1. \A by \in Closers : ClosingCommits(by) \/ ClosingFails(by) => UNCHANGED today
    BY DEF ClosingCommits, ClosingFails
  <2>. QED
    BY <1>2, <2>1
    DEF Next, vars, EventHandled, EventCommits, EventRollsBack, TakeJob, RecordCard, RecordFails,
        SweepLoads, SweepCloses, RouteCloses, DigestStep, DigestDue, DigestCommits, DigestFails,
        Crash
<1>. QED
  BY <1>3, <1>4, <1>5, <1>6, <1>7

(* Only what has lost its row comes a second time.                           *)
THEOREM RepeatsAreLostRows == Spec => RepeatsOnlyIfLost
<1> DEFINE New == /\ \A c \in Card : posts'[c] > posts[c] => ~already_notified(c) /\ ~Underway(c)
                  /\ today'["everyone"] > today["everyone"] => ~already_sent_today
<1>1. IInv /\ [Next]_vars => [New]_vars
  BY PostsAreNew, DigestIsNew
<1>. QED
  BY <1>1, NotificationInvariant, PTL DEF Spec, RepeatsOnlyIfLost

(* Each repetition of a card, or of the digest of a day, has cost a failure:   *)
(* without one both claims of the comments would hold.                       *)
THEOREM RepetitionsCostFailures ==
    Spec => [](/\ \A c \in Card : posts[c] <= 1 + failures
               /\ today["everyone"] <= 1 + failures)
<1>1. IInv => \A c \in Card : posts[c] <= 1 + failures
  BY FailuresAssumption DEF IInv, TypeOK, PostsAccounted
<1>2. IInv => today["everyone"] <= 1 + failures
  BY FailuresAssumption DEF IInv, TypeOK, DigestAccounted, Addressees
<1>. QED
  BY <1>1, <1>2, NotificationInvariant, PTL

(* One card of an incident a day, recovery aside, but for one per failure.    *)
THEOREM DailyCapHolds == Spec => []DailyCap
<1>1. IInv => DailyCap
  <2> SUFFICES ASSUME IInv, NEW i \in Incidents PROVE today[i] <= 1 + failures
    BY DEF DailyCap
  <2>1. failures \in Nat /\ today[i] \in Nat
    BY FailuresAssumption DEF IInv, TypeOK, Addressees
  <2>. QED
    BY <2>1 DEF IInv, TodayAccounted
<1>. QED
  BY <1>1, NotificationInvariant, PTL

(* Cards tell of incidents that are committed.                              *)
THEOREM CreatedAlwaysCommitted == Spec => []CreatedIsCommitted
<1>1. IInv => CreatedIsCommitted
  BY DEF IInv
<1>. QED
  BY <1>1, NotificationInvariant, PTL

(* A first closing has its recovery card tried before it is committed.       *)
THEOREM FirstRecoveryAlwaysTold == Spec => []FirstRecoveryTold
<1>1. IInv => FirstRecoveryTold
  BY DEF IInv
<1>. QED
  BY <1>1, NotificationInvariant, PTL

=============================================================================
