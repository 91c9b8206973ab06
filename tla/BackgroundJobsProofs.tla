-------------------------- MODULE BackgroundJobsProofs --------------------------
(***************************************************************************)
(* For any alerts, retries of the model and failures: the requests keep        *)
(* their types, and the chat hears of committed alerts only, of an alarm       *)
(* before its recovery, and of nothing twice but once per failure.            *)
(***************************************************************************)
EXTENDS BackgroundJobs, FiniteSetTheorems, TLAPS

Alarm(a) == <<a, "alert_created">>
Recovery(a) == <<a, "alert_resolved">>

(* The worker has card c in hand.                                           *)
Held(c) == job # Idle /\ job.request = c

Settled(c) == Told(c) \/ c \in missed

(* A card leaves the worker's hand told or missed: what it found is           *)
(* committed, what it posted is told or counted as missed, and the rows in    *)
(* feishu_messages are about cards that arrived.                             *)
HandFits ==
    /\ event # None => event.alert \in named
    /\ InPhase("found") \/ InPhase("posted") => status[About] # "absent"
    /\ InPhase("posted") => IF job.ok THEN Told(job.request) ELSE job.request \in missed
    /\ \A c \in messages : Told(c)

(* No alarm gets lost on its way, and none is overtaken by its recovery.      *)
AlarmFirst ==
    /\ \A a \in named :
          \/ Settled(Alarm(a)) \/ Held(Alarm(a))
          \/ \E k \in DOMAIN queue : queue[k] = Alarm(a)
    /\ \A a \in Alerts : \A k \in DOMAIN queue : queue[k] = Recovery(a) =>
          \/ Settled(Alarm(a)) \/ Held(Alarm(a))
          \/ \E j \in 1..(k - 1) : queue[j] = Alarm(a)
    /\ \A a \in Alerts : Held(Recovery(a)) => Settled(Alarm(a))

ChatFits ==
    /\ \A a \in Alerts : chat[a] # <<>> => status[a] # "absent"
    /\ \A a \in Alerts : \A k \in DOMAIN chat[a] :
          \/ chat[a][k] = "alert_created"
          \/ \E j \in 1..(k - 1) : chat[a][j] = "alert_created"
          \/ Alarm(a) \in missed

(* Cards that arrived although no row says so and none is about to: each cost *)
(* a failure, and pays for one repetition.                                  *)
Unpaid ==
    {c \in Card : /\ Told(c) /\ c \notin messages
                  /\ ~(InPhase("posted") /\ job.ok /\ job.request = c)}

Paid ==
    /\ IsFiniteSet(Unpaid) /\ IsFiniteSet(Repeats)
    /\ Cardinality(Unpaid) + Cardinality(Repeats) <= failures

IInv == TypeOK /\ HandFits /\ AlarmFirst /\ ChatFits /\ Paid

-----------------------------------------------------------------------------
(* What the worker may have in hand.                                        *)
LEMMA JobShapes ==
    ASSUME TypeOK
    PROVE  /\ job # Idle => job.request \in Card \cup {Analysis}
           /\ \A phase : InPhase(phase) =>
                /\ job \in Job /\ job # Idle /\ job.request \in Card
                /\ About \in Alerts /\ job.request[2] \in Kinds
                /\ job.request = <<About, job.request[2]>>
           /\ \A phase : Analyses(phase) => job \in AnalysisJob /\ job # Idle
           /\ \A c \in Card : Held(c) => job \in Job
<1>1. Analysis \notin Card
  BY NamesAssumption
<1>2. job \in Job \cup AnalysisJob \cup {Idle}
  BY DEF TypeOK
<1>3. job \in Job => job.request \in Card
  BY DEF Job
<1>4. job \in AnalysisJob => job.request = Analysis
  BY DEF AnalysisJob
<1>5. \A c \in Card : c[1] \in Alerts /\ c[2] \in Kinds /\ c = <<c[1], c[2]>>
  BY DEF Card
<1>. QED
  BY <1>1, <1>2, <1>3, <1>4, <1>5 DEF InPhase, Analyses, Held, About

LEMMA Messages ==
    /\ \A a \in Alerts : Alarm(a) \in Card /\ Recovery(a) \in Card /\ Alarm(a) # Recovery(a)
    /\ \A a \in Alerts : Alarm(a)[1] = a /\ Alarm(a)[2] = "alert_created"
    /\ \A a \in Alerts : Recovery(a)[1] = a /\ Recovery(a)[2] = "alert_resolved"
BY DEF Alarm, Recovery, Card, Kinds

(* An event asks for cards: the requests it adds are behind those that wait.  *)
LEMMA AsksKeepType ==
    ASSUME TypeOK
    PROVE  /\ \A a : EventFires(a) /\ a \in Alerts => TypeOK'
           /\ \A a : EventResolves(a) /\ a \in Alerts => TypeOK'
           /\ AnalysisRequested => TypeOK'
<1>1. \A a \in Alerts : Alarm(a) \in Card /\ Recovery(a) \in Card
  BY Messages
<1>2. ASSUME NEW x \in Card \cup {Analysis}
      PROVE  Append(queue, x) \in Seq(Card \cup {Analysis})
  BY DEF TypeOK
<1>3. ASSUME NEW a \in Alerts, EventFires(a) PROVE TypeOK'
  <2>1. event' \in Event /\ \A b \in Alerts : status[b] # "absent" => b \in named'
    BY <1>3 DEF EventFires, Event, TypeOK
  <2>2. queue' \in Seq(Card \cup {Analysis})
    <3>1. Append(queue, Alarm(a)) \in Seq(Card \cup {Analysis})
      BY <1>1, <1>2
    <3>2. Append(Append(queue, Alarm(a)), Analysis) \in Seq(Card \cup {Analysis})
      BY <3>1
    <3>. QED
      BY <1>3, <3>1, <3>2 DEF EventFires, Alarm
  <2>. QED
    BY <1>3, <2>1, <2>2 DEF EventFires, TypeOK
<1>4. ASSUME NEW a \in Alerts, EventResolves(a) PROVE TypeOK'
  <2>1. event' \in Event
    BY <1>4 DEF EventResolves, Event
  <2>2. queue' \in Seq(Card \cup {Analysis})
    BY <1>1, <1>2, <1>4 DEF EventResolves, Recovery
  <2>. QED
    BY <1>4, <2>1, <2>2 DEF EventResolves, TypeOK
<1>5. CASE AnalysisRequested
  <2>1. queue' \in Seq(Card \cup {Analysis})
    BY <1>2, <1>5 DEF AnalysisRequested
  <2>. QED
    BY <1>5, <2>1 DEF AnalysisRequested, TypeOK
<1>. QED
  BY <1>3, <1>4, <1>5

LEMMA EventsKeepType ==
    ASSUME TypeOK, HandFits,
           Commit \/ RollBack \/ (\E a \in Alerts : Expire(a))
    PROVE  TypeOK'
<1>1. CASE Commit
  <2>1. event \in Event /\ event.alert \in Alerts /\ event.status \in {"FIRING", "resolved"}
    BY <1>1 DEF Commit, TypeOK, Event
  <2>2. status' \in [Alerts -> {"absent", "FIRING", "resolved", "stale"}]
    BY <1>1, <2>1 DEF Commit, TypeOK
  <2>3. \A a \in Alerts : status'[a] # "absent" => a \in named
    BY <1>1, <2>1 DEF Commit, TypeOK, HandFits
  <2>. QED
    BY <1>1, <2>2, <2>3 DEF Commit, TypeOK
<1>2. CASE RollBack
  BY <1>2, FailuresAssumption DEF RollBack, Fail, TypeOK
<1>3. ASSUME NEW a \in Alerts, Expire(a) PROVE TypeOK'
  <2>1. status' \in [Alerts -> {"absent", "FIRING", "resolved", "stale"}]
    BY <1>3 DEF Expire, TypeOK
  <2>2. \A b \in Alerts : status'[b] # "absent" => b \in named
    BY <1>3 DEF Expire, TypeOK
  <2>. QED
    BY <1>3, <2>1, <2>2 DEF Expire, TypeOK
<1>. QED
  BY <1>1, <1>2, <1>3

LEMMA WorkerKeepsType ==
    ASSUME TypeOK, WorkerStep
    PROVE  TypeOK'
<1>1. Idle \in Job \cup AnalysisJob \cup {Idle}
  OBVIOUS
<1>2. CASE TakeJob
  <2>1. queue \in Seq(Card \cup {Analysis}) /\ queue # <<>>
    BY <1>2 DEF TakeJob, TypeOK
  <2>2. Head(queue) \in Card \cup {Analysis} /\ Tail(queue) \in Seq(Card \cup {Analysis})
    BY <2>1
  <2>3. job' \in Job \cup AnalysisJob
    BY <1>2, <2>2, RetriesAssumption DEF TakeJob, Taken, Job, AnalysisJob
  <2>. QED
    BY <1>2, <2>2, <2>3 DEF TakeJob, Taken, TypeOK
<1>3. CASE WaitEnds
  <2>1. job \in Job
    BY <1>3, JobShapes DEF WaitEnds
  <2>2. job' \in Job
    BY <1>3, <2>1 DEF WaitEnds, Job
  <2>. QED
    BY <1>3, <2>2 DEF WaitEnds, TypeOK
<1>4. CASE WaitTimesOut
  <2>1. job.request \in Card
    BY <1>4 DEF WaitTimesOut, InPhase
  <2>2. failures' \in 0..MaxFailures
    BY <1>4, FailuresAssumption DEF WaitTimesOut, Fail, TypeOK
  <2>. QED
    BY <1>1, <1>4, <2>1, <2>2 DEF WaitTimesOut, TypeOK
<1>5. CASE Skip
  BY <1>1, <1>5 DEF Skip, TypeOK
<1>6. ASSUME NEW ok \in BOOLEAN, Post(ok) PROVE TypeOK'
  <2>1. job \in Job /\ job.request \in Card /\ About \in Alerts /\ job.request[2] \in Kinds
    BY <1>6, JobShapes DEF Post
  <2>2. job' \in Job
    BY <1>6, <2>1 DEF Post, Job
  <2>3. chat' \in [Alerts -> Seq(Kinds)]
    <3>1. chat[About] \in Seq(Kinds)
      BY <2>1 DEF TypeOK
    <3>2. Append(chat[About], job.request[2]) \in Seq(Kinds)
      BY <2>1, <3>1
    <3>3. \/ chat' = chat
          \/ chat' = [chat EXCEPT ![About] = Append(chat[About], job.request[2])]
      BY <1>6, <2>1 DEF Post, Arrives, About, TypeOK
    <3>. QED
      BY <3>2, <3>3 DEF TypeOK
  <2>4. failures' \in 0..MaxFailures /\ missed' \subseteq Card
    BY <1>6, <2>1, FailuresAssumption DEF Post, Fail, TypeOK
  <2>. QED
    BY <1>6, <2>2, <2>3, <2>4 DEF Post, TypeOK
<1>7. CASE Record
  BY <1>1, <1>7 DEF Record, InPhase, TypeOK
<1>8. CASE RecordFails
  BY <1>1, <1>8, FailuresAssumption DEF RecordFails, Fail, TypeOK
<1>9. CASE AnalysisStarts \/ CallFails \/ AnalysisEnds
  <2>1. job \in AnalysisJob
    BY <1>9, JobShapes DEF AnalysisStarts, CallFails, AnalysisEnds
  <2>2. job' \in AnalysisJob \cup {Idle}
    BY <1>9, <2>1, RetriesAssumption DEF AnalysisStarts, CallFails, AnalysisEnds, Repeated, AnalysisJob
  <2>. QED
    BY <1>9, <2>2 DEF AnalysisStarts, CallFails, AnalysisEnds, TypeOK
<1>. QED
  BY <1>2, <1>3, <1>4, <1>5, <1>6, <1>7, <1>8, <1>9 DEF WorkerStep

LEMMA CrashKeepsType ==
    ASSUME TypeOK, Crash
    PROVE  TypeOK'
<1>1. Asked \subseteq Card \cup {Analysis}
  <2>1. \A k \in DOMAIN queue : queue[k] \in Card \cup {Analysis}
    BY DEF TypeOK
  <2>2. job # Idle => job.request \in Card \cup {Analysis}
    BY JobShapes
  <2>. QED
    BY <2>1, <2>2 DEF Asked
<1>2. missed' \subseteq Card
  BY <1>1 DEF Crash, TypeOK
<1>3. queue' \in Seq(Card \cup {Analysis}) /\ failures' \in 0..MaxFailures
  BY FailuresAssumption DEF Crash, Fail, TypeOK
<1>. QED
  BY <1>2, <1>3 DEF Crash, TypeOK

(* The types of the state, by any step.                                     *)
LEMMA NextKeepsType == TypeOK /\ HandFits /\ [Next]_vars => TypeOK'
<1>1. UNCHANGED vars /\ TypeOK => TypeOK'
  BY DEF vars, TypeOK
<1>. QED
  BY <1>1, AsksKeepType, EventsKeepType, WorkerKeepsType, CrashKeepsType DEF Next

-----------------------------------------------------------------------------
(* What no step takes back, and how a card leaves the worker's hand.         *)
LEMMA ChatGrows ==
    ASSUME TypeOK, NEW c \in Card, Arrives(c)
    PROVE  /\ Told(c)'
           /\ \A d \in Card : Told(d) => Told(d)'
           /\ \A d \in Card : Told(d)' => Told(d) \/ d = c
           /\ chat'[c[1]] = Append(chat[c[1]], c[2])
           /\ \A a \in Alerts : a # c[1] => chat'[a] = chat[a]
<1>1. c[1] \in Alerts /\ c[2] \in Kinds /\ c = <<c[1], c[2]>>
  BY DEF Card
<1>2. /\ chat'[c[1]] = Append(chat[c[1]], c[2])
      /\ \A a \in Alerts : a # c[1] => chat'[a] = chat[a]
  BY <1>1 DEF Arrives, TypeOK
<1>3. chat[c[1]] \in Seq(Kinds)
  BY <1>1 DEF TypeOK
<1>4. /\ DOMAIN chat'[c[1]] = 1..(Len(chat[c[1]]) + 1)
      /\ DOMAIN chat[c[1]] = 1..Len(chat[c[1]]) /\ Len(chat[c[1]]) \in Nat
      /\ chat'[c[1]][Len(chat[c[1]]) + 1] = c[2]
      /\ \A k \in DOMAIN chat[c[1]] : chat'[c[1]][k] = chat[c[1]][k]
  BY <1>1, <1>2, <1>3
<1>5. Told(c)'
  <2>1. Len(chat[c[1]]) + 1 \in DOMAIN chat'[c[1]]
    BY <1>4
  <2>. QED
    BY <1>4, <2>1 DEF Told
<1>6. ASSUME NEW d \in Card PROVE (Told(d) => Told(d)') /\ (Told(d)' => Told(d) \/ d = c)
  <2>1. d[1] \in Alerts /\ d = <<d[1], d[2]>>
    BY DEF Card
  <2>2. CASE d[1] # c[1]
    BY <1>2, <2>1, <2>2 DEF Told
  <2>3. CASE d[1] = c[1]
    <3>1. Told(d) => Told(d)'
      BY <1>4, <2>3 DEF Told
    <3>2. ASSUME Told(d)' PROVE Told(d) \/ d = c
      <4>1. PICK k \in DOMAIN chat'[c[1]] : chat'[c[1]][k] = d[2]
        BY <2>3, <3>2 DEF Told
      <4>2. CASE k = Len(chat[c[1]]) + 1
        BY <1>1, <1>4, <2>1, <2>3, <4>1, <4>2
      <4>3. CASE k # Len(chat[c[1]]) + 1
        <5>1. k \in DOMAIN chat[c[1]] /\ chat[c[1]][k] = d[2]
          BY <1>4, <4>1, <4>3
        <5>. QED
          BY <2>3, <5>1 DEF Told
      <4>. QED
        BY <4>2, <4>3
    <3>. QED
      BY <3>1, <3>2
  <2>. QED
    BY <2>2, <2>3
<1>. QED
  BY <1>2, <1>5, <1>6

(* What was told or counted as missed stays so, whatever the step.           *)
LEMMA SettledStays ==
    ASSUME TypeOK, [Next]_vars
    PROVE  \A c \in Card : (Told(c) => Told(c)') /\ (Settled(c) => Settled(c)')
<1>1. CASE UNCHANGED <<chat, missed>>
  BY <1>1 DEF Told, Settled
<1>2. CASE UNCHANGED chat /\ missed \subseteq missed'
  BY <1>2 DEF Told, Settled
<1>3. ASSUME NEW ok \in BOOLEAN, Post(ok) PROVE \A c \in Card : (Told(c) => Told(c)') /\ (Settled(c) => Settled(c)')
  <2>1. job.request \in Card /\ missed \subseteq missed'
    BY <1>3 DEF Post, InPhase
  <2>2. CASE Arrives(job.request)
    BY <2>1, <2>2, ChatGrows DEF Settled
  <2>3. CASE UNCHANGED chat
    BY <1>2, <2>1, <2>3
  <2>. QED
    BY <1>3, <2>2, <2>3 DEF Post
<1>4. \A a \in Alerts : EventFires(a) \/ EventResolves(a) \/ Expire(a) => UNCHANGED <<chat, missed>>
  BY DEF EventFires, EventResolves, Expire
<1>5. \/ Commit \/ RollBack \/ AnalysisRequested \/ TakeJob \/ WaitEnds \/ Skip \/ Record
      \/ RecordFails \/ AnalysisStarts \/ CallFails \/ AnalysisEnds \/ UNCHANGED vars
      => UNCHANGED <<chat, missed>>
  BY DEF Commit, RollBack, AnalysisRequested, TakeJob, WaitEnds, Skip, Record, RecordFails,
         AnalysisStarts, CallFails, AnalysisEnds, vars
<1>6. Crash \/ WaitTimesOut => UNCHANGED chat /\ missed \subseteq missed'
  BY DEF Crash, WaitTimesOut
<1>. QED
  BY <1>1, <1>2, <1>3, <1>4, <1>5, <1>6 DEF Next, WorkerStep

(* What the worker has in hand and lets go is told or missed; it takes new    *)
(* requests from the queue only.                                            *)
LEMMA HandSettles ==
    ASSUME TypeOK, HandFits, [Next]_vars
    PROVE  /\ \A c \in Card : Held(c) => Held(c)' \/ Settled(c)'
           /\ \A c \in Card : Held(c)' => Held(c) \/ TakeJob
<1>0. \A c \in Card : (Told(c) => Told(c)') /\ (Settled(c) => Settled(c)')
  BY SettledStays
<1>1. CASE UNCHANGED job
  BY <1>1 DEF Held
<1>2. CASE TakeJob
  BY <1>2 DEF TakeJob, Held
<1>3. CASE job' = Idle /\ (\A c \in Card : Held(c) => Settled(c)')
  BY <1>3 DEF Held
<1>4. CASE \E ok \in BOOLEAN : WaitEnds \/ Post(ok)
  <2>1. job \in Job /\ job # Idle
    BY <1>4, JobShapes DEF WaitEnds, Post
  <2>2. job' \in Job /\ job'.request = job.request
    BY <1>4, <2>1 DEF WaitEnds, Post, Job
  <2>3. job' # Idle
    BY <2>2 DEF Job, Idle
  <2>. QED
    BY <2>1, <2>2, <2>3 DEF Held
<1>5. CASE AnalysisStarts \/ CallFails \/ AnalysisEnds
  <2>1. job \in AnalysisJob
    BY <1>5, JobShapes DEF AnalysisStarts, CallFails, AnalysisEnds
  <2>2. job' \in AnalysisJob \cup {Idle}
    BY <1>5, <2>1, RetriesAssumption DEF AnalysisStarts, CallFails, AnalysisEnds, Repeated, AnalysisJob
  <2>3. \A c \in Card : ~Held(c)
    BY <2>1, NamesAssumption DEF AnalysisJob, Held
  <2>4. \A c \in Card : ~Held(c)'
    BY <2>2, NamesAssumption DEF AnalysisJob, Held
  <2>. QED
    BY <2>3, <2>4
<1>6. CASE WaitTimesOut
  <2>1. \A c \in Card : Held(c) => c \in missed'
    BY <1>6 DEF WaitTimesOut, Held
  <2>. QED
    BY <1>3, <1>6, <2>1 DEF WaitTimesOut, Settled
<1>7. CASE Skip
  <2>1. \A c \in Card : Held(c) => Told(c)
    BY <1>7 DEF Skip, already_notified, HandFits, Held
  <2>. QED
    BY <1>0, <1>3, <1>7, <2>1 DEF Skip, Settled
<1>8. CASE Record \/ RecordFails
  <2>1. InPhase("posted") /\ job' = Idle
    BY <1>8 DEF Record, RecordFails
  <2>2. \A c \in Card : Held(c) => Settled(c)
    BY <2>1 DEF HandFits, Held, Settled
  <2>. QED
    BY <1>0, <1>3, <2>1, <2>2
<1>9. CASE Crash
  <2>1. \A c \in Card : Held(c) => c \in missed'
    BY <1>9, NamesAssumption DEF Crash, Asked, Held
  <2>. QED
    BY <1>3, <1>9, <2>1 DEF Crash, Settled
<1>10. \A a \in Alerts : EventFires(a) \/ EventResolves(a) \/ Expire(a) => UNCHANGED job
  BY DEF EventFires, EventResolves, Expire
<1>11. Commit \/ RollBack \/ AnalysisRequested \/ UNCHANGED vars => UNCHANGED job
  BY DEF Commit, RollBack, AnalysisRequested, vars
<1>. QED
  BY <1>1, <1>2, <1>4, <1>5, <1>6, <1>7, <1>8, <1>9, <1>10, <1>11 DEF Next, WorkerStep

-----------------------------------------------------------------------------
(* A committed alert stays known.                                           *)
LEMMA StatusStays ==
    ASSUME TypeOK, [Next]_vars
    PROVE  \A a \in Alerts : status[a] # "absent" => status'[a] # "absent"
<1>1. CASE UNCHANGED status
  BY <1>1
<1>2. CASE Commit
  <2>1. event.status # "absent"
    BY <1>2 DEF Commit, TypeOK, Event
  <2>. QED
    BY <1>2, <2>1 DEF Commit, TypeOK
<1>3. ASSUME NEW a \in Alerts, Expire(a)
      PROVE  \A b \in Alerts : status[b] # "absent" => status'[b] # "absent"
  BY <1>3 DEF Expire, TypeOK
<1>4. \A a \in Alerts : EventFires(a) \/ EventResolves(a) => UNCHANGED status
  BY DEF EventFires, EventResolves
<1>5. RollBack \/ AnalysisRequested \/ Crash \/ WorkerStep \/ UNCHANGED vars => UNCHANGED status
  BY DEF RollBack, AnalysisRequested, Crash, WorkerStep, TakeJob, WaitEnds, WaitTimesOut, Skip,
         Post, Record, RecordFails, AnalysisStarts, CallFails, AnalysisEnds, vars
<1>. QED
  BY <1>1, <1>2, <1>3, <1>4, <1>5 DEF Next

(* An event in its transaction is about a name that was given out.           *)
LEMMA EventStaysNamed ==
    ASSUME TypeOK, HandFits, [Next]_vars
    PROVE  event' # None => event'.alert \in named'
<1>1. ASSUME NEW a \in Alerts, EventFires(a) PROVE event'.alert \in named'
  BY <1>1 DEF EventFires
<1>2. ASSUME NEW a \in Alerts, EventResolves(a) PROVE event'.alert \in named'
  BY <1>2 DEF EventResolves, TypeOK
<1>3. CASE UNCHANGED <<event, named>>
  BY <1>3 DEF HandFits
<1>4. Commit \/ RollBack \/ Crash => event' = None
  BY DEF Commit, RollBack, Crash
<1>5. \A a \in Alerts : Expire(a) => UNCHANGED <<event, named>>
  BY DEF Expire
<1>6. AnalysisRequested \/ WorkerStep \/ UNCHANGED vars => UNCHANGED <<event, named>>
  BY DEF AnalysisRequested, WorkerStep, TakeJob, WaitEnds, WaitTimesOut, Skip,
         Post, Record, RecordFails, AnalysisStarts, CallFails, AnalysisEnds, vars
<1>. QED
  BY <1>1, <1>2, <1>3, <1>4, <1>5, <1>6 DEF Next

(* The worker's steps leave the hand, the chat and the rows consistent.       *)
LEMMA HandKeepsFit ==
    ASSUME TypeOK, HandFits, [Next]_vars
    PROVE  HandFits'
<1>1. event' # None => event'.alert \in named'
  BY EventStaysNamed
<1>2. \A a \in Alerts : status[a] # "absent" => status'[a] # "absent"
  BY StatusStays
<1>3. \A c \in Card : (Told(c) => Told(c)')
  BY SettledStays
<1>4. messages \subseteq Card
  BY DEF TypeOK
<1>. DEFINE Committed == InPhase("found") \/ InPhase("posted") => status[About] # "absent"
            Posted == \A c \in Card : InPhase("posted") /\ job.request = c =>
                          IF job.ok THEN Told(c) ELSE c \in missed
            Rows == \A c \in messages : Told(c)
<1>5. Committed /\ Posted /\ Rows
  BY DEF HandFits
<1>6. SUFFICES Committed' /\ Posted' /\ Rows'
  <2>1. ASSUME Posted', InPhase("posted")'
        PROVE  (IF job.ok THEN Told(job.request) ELSE job.request \in missed)'
    <3>1. job'.request \in Card
      BY <2>1 DEF InPhase
    <3>. QED
      BY <2>1, <3>1
  <2>. QED
    BY <1>1, <2>1 DEF HandFits
<1>. HIDE DEF Rows
<1>7. UNCHANGED messages => Rows'
  BY <1>3, <1>4, <1>5 DEF Rows
<1>8. CASE UNCHANGED <<job, messages>> /\ missed \subseteq missed'
  <2>1. Committed'
    BY <1>2, <1>5, <1>8, JobShapes DEF InPhase, About
  <2>2. Posted'
    BY <1>3, <1>5, <1>8 DEF InPhase
  <2>. QED
    BY <1>7, <1>8, <2>1, <2>2
<1>9. CASE job' = Idle /\ UNCHANGED messages
  BY <1>7, <1>9 DEF InPhase
<1>10. CASE TakeJob
  <2>1. job'.phase = "wait"
    BY <1>10 DEF TakeJob, Taken
  <2>. QED
    BY <1>7, <1>10, <2>1 DEF TakeJob, InPhase
<1>11. CASE WaitEnds
  <2>1. job \in Job
    BY <1>11, JobShapes DEF WaitEnds
  <2>2. job'.phase = "found" /\ job'.request = job.request
    BY <1>11, <2>1 DEF WaitEnds, Job
  <2>3. Committed'
    BY <1>11, <2>2 DEF WaitEnds, Visible, About
  <2>. QED
    BY <1>7, <1>11, <2>2, <2>3 DEF WaitEnds, InPhase
<1>12. ASSUME NEW ok \in BOOLEAN, Post(ok) PROVE Committed' /\ Posted' /\ Rows'
  <2>1. job \in Job /\ job.request \in Card /\ InPhase("found")
    BY <1>12, JobShapes DEF Post
  <2>2. job'.request = job.request /\ job'.ok = ok
    BY <1>12, <2>1 DEF Post, Job
  <2>3. Committed'
    BY <1>5, <1>12, <2>1, <2>2 DEF Post, About
  <2>4. Posted'
    <3>1. ok => Told(job.request)'
      <4>1. ASSUME ok PROVE Arrives(job.request)
        BY <1>12, <4>1 DEF Post
      <4>2. ASSUME NEW c \in Card, Arrives(c) PROVE Told(c)'
        BY <4>2, ChatGrows
      <4>. QED
        BY <2>1, <2>2, <4>1, <4>2 DEF Told
    <3>2. ~ok => job.request \in missed'
      BY <1>12 DEF Post
    <3>. QED
      BY <2>2, <3>1, <3>2 DEF Told
  <2>. QED
    BY <1>7, <1>12, <2>3, <2>4 DEF Post
<1>13. CASE Record
  <2>1. job.request \in Card /\ InPhase("posted") /\ job' = Idle
    BY <1>13 DEF Record, InPhase
  <2>2. \A c \in messages' : c \in Card /\ Told(c)
    BY <1>4, <1>5, <1>13, <2>1 DEF Record, Rows
  <2>3. Rows'
    BY <1>3, <2>2 DEF Rows
  <2>. QED
    BY <2>1, <2>3 DEF InPhase
<1>14. CASE AnalysisStarts \/ CallFails \/ AnalysisEnds
  <2>1. job \in AnalysisJob
    BY <1>14, JobShapes DEF AnalysisStarts, CallFails, AnalysisEnds
  <2>2. job' \in AnalysisJob \cup {Idle}
    BY <1>14, <2>1, RetriesAssumption DEF AnalysisStarts, CallFails, AnalysisEnds, Repeated, AnalysisJob
  <2>3. \A phase : ~InPhase(phase)'
    BY <2>2, NamesAssumption DEF AnalysisJob, InPhase
  <2>. QED
    BY <1>7, <1>14, <2>3 DEF AnalysisStarts, CallFails, AnalysisEnds
<1>15. WaitTimesOut \/ Skip \/ RecordFails \/ Crash => job' = Idle /\ UNCHANGED messages
  BY DEF WaitTimesOut, Skip, RecordFails, Crash
<1>16. \A a \in Alerts : EventFires(a) \/ EventResolves(a) \/ Expire(a) =>
          UNCHANGED <<job, messages>> /\ missed \subseteq missed'
  BY DEF EventFires, EventResolves, Expire
<1>17. Commit \/ RollBack \/ AnalysisRequested \/ UNCHANGED vars =>
          UNCHANGED <<job, messages>> /\ missed \subseteq missed'
  BY DEF Commit, RollBack, AnalysisRequested, vars
<1>. QED
  BY <1>8, <1>9, <1>10, <1>11, <1>12, <1>13, <1>14, <1>15, <1>16, <1>17 DEF Next, WorkerStep
-----------------------------------------------------------------------------
(* No alarm is lost on its way, step by step.                               *)

(* Requests join the queue behind those that wait, and a recovery is asked    *)
(* for only when its alert has been named.                                  *)
QueueGrows ==
    /\ UNCHANGED job
    /\ DOMAIN queue \subseteq DOMAIN queue'
    /\ \A k \in DOMAIN queue : queue'[k] = queue[k]
    /\ \A k \in DOMAIN queue' \ DOMAIN queue :
          /\ \A j \in DOMAIN queue : j \in 1..(k - 1)
          /\ \A a \in Alerts : queue'[k] = Recovery(a) => a \in named
    /\ \A a \in named' \ named : \E k \in DOMAIN queue' : queue'[k] = Alarm(a)

LEMMA GrownQueueKeepsAlarms ==
    ASSUME TypeOK, HandFits, AlarmFirst, [Next]_vars, QueueGrows, named' \subseteq Alerts
    PROVE  AlarmFirst'
<1>1. \A a \in Alerts : Alarm(a) \in Card /\ Recovery(a) \in Card
  BY Messages
<1>2. \A c \in Card : (Settled(c) => Settled(c)') /\ (Held(c) => Held(c)') /\ (Held(c)' => Held(c))
  BY SettledStays DEF QueueGrows, Held
<1>3. ASSUME NEW a \in named'
      PROVE  Settled(Alarm(a))' \/ Held(Alarm(a))' \/ \E k \in DOMAIN queue' : queue'[k] = Alarm(a)
  BY <1>1, <1>2, <1>3 DEF AlarmFirst, QueueGrows
<1>4. ASSUME NEW a \in Alerts, NEW k \in DOMAIN queue', queue'[k] = Recovery(a)
      PROVE  Settled(Alarm(a))' \/ Held(Alarm(a))' \/ \E j \in 1..(k - 1) : queue'[j] = Alarm(a)
  <2>1. CASE k \in DOMAIN queue
    <3>1. queue[k] = Recovery(a)
      BY <1>4, <2>1 DEF QueueGrows
    <3>2. Settled(Alarm(a)) \/ Held(Alarm(a)) \/ \E j \in 1..(k - 1) : queue[j] = Alarm(a)
      BY <2>1, <3>1 DEF AlarmFirst
    <3>3. \A j \in 1..(k - 1) : j \in DOMAIN queue
      BY <2>1 DEF TypeOK
    <3>. QED
      BY <1>1, <1>2, <3>2, <3>3 DEF QueueGrows
  <2>2. CASE k \notin DOMAIN queue
    <3>1. a \in named /\ \A j \in DOMAIN queue : j \in 1..(k - 1)
      BY <1>4, <2>2 DEF QueueGrows
    <3>. QED
      BY <1>1, <1>2, <3>1 DEF AlarmFirst, QueueGrows
  <2>. QED
    BY <2>1, <2>2
<1>5. \A a \in Alerts : Held(Recovery(a))' => Settled(Alarm(a))'
  BY <1>1, <1>2 DEF AlarmFirst
<1>. QED
  BY <1>3, <1>4, <1>5 DEF AlarmFirst

LEMMA AppendGrows ==
    ASSUME TypeOK, NEW x \in Card \cup {Analysis}
    PROVE  /\ DOMAIN Append(queue, x) = DOMAIN queue \cup {Len(queue) + 1}
           /\ \A k \in DOMAIN queue : Append(queue, x)[k] = queue[k] /\ k \in 1..Len(queue)
           /\ Append(queue, x)[Len(queue) + 1] = x
           /\ Len(queue) \in Nat /\ DOMAIN queue = 1..Len(queue)
           /\ Append(queue, x) \in Seq(Card \cup {Analysis}) /\ Len(Append(queue, x)) = Len(queue) + 1
BY DEF TypeOK

LEMMA RequestsGrow ==
    ASSUME TypeOK, AnalysisRequested \/ \E a \in Alerts : EventFires(a) \/ EventResolves(a)
    PROVE  QueueGrows
<1>1. \A a \in Alerts : Alarm(a) \in Card /\ Recovery(a) \in Card /\ Analysis \notin Card
  BY Messages, NamesAssumption
<1>2. CASE AnalysisRequested
  <2>1. Analysis \in Card \cup {Analysis} /\ queue' = Append(queue, Analysis) /\ UNCHANGED <<job, named>>
    BY <1>2 DEF AnalysisRequested
  <2>. QED
    BY <1>1, <2>1, AppendGrows DEF QueueGrows
<1>3. ASSUME NEW a \in Alerts, EventResolves(a) PROVE QueueGrows
  <2>1. queue' = Append(queue, Recovery(a)) /\ UNCHANGED <<job, named>> /\ a \in named
    BY <1>3 DEF EventResolves, Recovery, TypeOK
  <2>2. \A b \in Alerts : Recovery(a) = Recovery(b) => a = b
    BY DEF Recovery
  <2>3. Recovery(a) \in Card \cup {Analysis}
    BY <1>1
  <2>. QED
    BY <2>1, <2>2, <2>3, AppendGrows DEF QueueGrows
<1>4. ASSUME NEW a \in Alerts, EventFires(a) PROVE QueueGrows
  <2>. DEFINE asked == Append(queue, Alarm(a))
  <2>1. UNCHANGED job /\ named' = named \cup {a} /\ queue' \in {asked, Append(asked, Analysis)}
    BY <1>4 DEF EventFires, Alarm
  <2>2. Alarm(a) \in Card \cup {Analysis} /\ \A b \in Alerts : Alarm(a) # Recovery(b) /\ Analysis # Recovery(b)
    BY <1>1 DEF Alarm, Recovery
  <2>3. /\ DOMAIN asked = DOMAIN queue \cup {Len(queue) + 1}
        /\ \A k \in DOMAIN queue : asked[k] = queue[k] /\ k \in 1..Len(queue)
        /\ asked[Len(queue) + 1] = Alarm(a)
        /\ Len(queue) \in Nat /\ Len(asked) = Len(queue) + 1 /\ asked \in Seq(Card \cup {Analysis})
    BY <2>2, AppendGrows
  <2>. HIDE DEF asked
  <2>4. CASE queue' = asked
    BY <2>1, <2>2, <2>3, <2>4 DEF QueueGrows
  <2>5. CASE queue' = Append(asked, Analysis)
    <3>1. /\ DOMAIN queue' = DOMAIN asked \cup {Len(queue) + 2}
          /\ \A k \in DOMAIN asked : queue'[k] = asked[k]
          /\ queue'[Len(queue) + 2] = Analysis
      BY <2>3, <2>5
    <3>. QED
      BY <2>1, <2>2, <2>3, <3>1 DEF QueueGrows
  <2>. QED
    BY <2>1, <2>4, <2>5
<1>. QED
  BY <1>2, <1>3, <1>4

LEMMA TakeKeepsAlarms ==
    ASSUME TypeOK, HandFits, AlarmFirst, TakeJob
    PROVE  AlarmFirst'
<1>1. \A a \in Alerts : Alarm(a) \in Card /\ Recovery(a) \in Card
  BY Messages
<1>2. \A c \in Card : (Settled(c) <=> Settled(c)') /\ ~Held(c)
  BY DEF TakeJob, Held, Settled, Told
<1>3. /\ queue \in Seq(Card \cup {Analysis}) /\ queue # <<>> /\ Len(queue) \in Nat \ {0}
      /\ DOMAIN queue = 1..Len(queue) /\ queue' = Tail(queue)
      /\ DOMAIN queue' = 1..(Len(queue) - 1)
      /\ \A k \in 1..(Len(queue) - 1) : queue'[k] = queue[k + 1]
  BY DEF TakeJob, Taken, TypeOK
<1>4. job' # Idle /\ job'.request = queue[1]
  BY <1>3 DEF TakeJob, Taken, Idle
<1>5. \A c \in Card : queue[1] = c <=> Held(c)'
  BY <1>4 DEF Held
<1>6. UNCHANGED named
  BY DEF TakeJob
<1>7. ASSUME NEW a \in Alerts, NEW k \in DOMAIN queue, queue[k] = Alarm(a), NEW n \in Nat, k <= n
      PROVE  Held(Alarm(a))' \/ \E j \in 1..(n - 1) : j \in DOMAIN queue' /\ queue'[j] = Alarm(a)
  <2>1. CASE k = 1
    BY <1>1, <1>5, <1>7, <2>1
  <2>2. CASE k # 1
    <3>1. k - 1 \in 1..(Len(queue) - 1) /\ queue'[k - 1] = Alarm(a) /\ k - 1 \in 1..(n - 1)
      BY <1>3, <1>7, <2>2
    <3>. QED
      BY <1>3, <3>1
  <2>. QED
    BY <2>1, <2>2
<1>8. ASSUME NEW a \in Alerts, a \in named
      PROVE  Settled(Alarm(a))' \/ Held(Alarm(a))' \/ \E k \in DOMAIN queue' : queue'[k] = Alarm(a)
  <2>1. Settled(Alarm(a)) \/ \E k \in DOMAIN queue : queue[k] = Alarm(a)
    BY <1>1, <1>2, <1>8 DEF AlarmFirst
  <2>2. ASSUME NEW k \in DOMAIN queue, queue[k] = Alarm(a)
        PROVE  Held(Alarm(a))' \/ \E j \in DOMAIN queue' : queue'[j] = Alarm(a)
    <3>1. Len(queue) \in Nat /\ k <= Len(queue)
      BY <1>3
    <3>. QED
      BY <1>7, <2>2, <3>1
  <2>. QED
    BY <1>1, <1>2, <2>1, <2>2
<1>9. ASSUME NEW a \in Alerts, NEW k \in DOMAIN queue', queue'[k] = Recovery(a)
      PROVE  Settled(Alarm(a))' \/ Held(Alarm(a))' \/ \E j \in 1..(k - 1) : queue'[j] = Alarm(a)
  <2>1. k + 1 \in DOMAIN queue /\ queue[k + 1] = Recovery(a) /\ k \in Nat
    BY <1>3, <1>9
  <2>2. Settled(Alarm(a)) \/ \E j \in 1..k : queue[j] = Alarm(a)
    <3>1. (k + 1) - 1 = k
      BY <2>1
    <3>. QED
      BY <1>1, <1>2, <2>1, <3>1 DEF AlarmFirst
  <2>3. ASSUME NEW j \in 1..k, queue[j] = Alarm(a)
        PROVE  Held(Alarm(a))' \/ \E i \in 1..(k - 1) : queue'[i] = Alarm(a)
    <3>1. j \in DOMAIN queue /\ j <= k
      BY <1>3, <2>1
    <3>. QED
      BY <1>7, <2>1, <2>3, <3>1
  <2>. QED
    BY <1>1, <1>2, <2>2, <2>3
<1>10. ASSUME NEW a \in Alerts, Held(Recovery(a))' PROVE Settled(Alarm(a))'
  <2>1. 1 \in DOMAIN queue /\ queue[1] = Recovery(a) /\ 1..(1 - 1) = {}
    BY <1>1, <1>3, <1>5, <1>10
  <2>. QED
    BY <1>1, <1>2, <2>1 DEF AlarmFirst
<1>11. named \subseteq Alerts
  BY DEF TypeOK
<1>. QED
  BY <1>6, <1>8, <1>9, <1>10, <1>11 DEF AlarmFirst

(* A step that leaves the queue alone may only settle what was in hand.       *)
LEMMA RestKeepsAlarms ==
    ASSUME TypeOK, HandFits, AlarmFirst, [Next]_vars, ~TakeJob, UNCHANGED <<queue, named>>
    PROVE  AlarmFirst'
<1>1. \A a \in Alerts : Alarm(a) \in Card /\ Recovery(a) \in Card
  BY Messages
<1>2. \A c \in Card : /\ Settled(c) => Settled(c)'
                      /\ Held(c) => Held(c)' \/ Settled(c)'
                      /\ Held(c)' => Held(c)
  BY SettledStays, HandSettles
<1>3. named \subseteq Alerts
  BY DEF TypeOK
<1>. QED
  BY <1>1, <1>2, <1>3 DEF AlarmFirst

(* A crash drops what waits, and the alarms it drops are counted as missed.   *)
LEMMA CrashKeepsAlarms ==
    ASSUME TypeOK, HandFits, AlarmFirst, [Next]_vars, Crash
    PROVE  AlarmFirst'
<1>1. \A a \in Alerts : Alarm(a) \in Card /\ Recovery(a) \in Card /\ Analysis \notin Card
  BY Messages, NamesAssumption
<1>2. \A c \in Card : Settled(c) \/ Held(c) => Settled(c)'
  BY SettledStays, HandSettles DEF Crash, Held
<1>3. ASSUME NEW a \in named PROVE Settled(Alarm(a))'
  <2>1. Alarm(a) \in Card /\ Alarm(a) # Analysis
    BY <1>1 DEF TypeOK
  <2>2. (\E k \in DOMAIN queue : queue[k] = Alarm(a)) => Alarm(a) \in missed'
    BY <2>1 DEF Crash, Asked
  <2>. QED
    BY <1>2, <2>1, <2>2 DEF AlarmFirst, Settled
<1>4. DOMAIN queue' = {} /\ job' = Idle /\ UNCHANGED named
  BY DEF Crash
<1>. QED
  BY <1>3, <1>4 DEF AlarmFirst, Held

LEMMA NextKeepsAlarms ==
    ASSUME TypeOK, HandFits, AlarmFirst, [Next]_vars
    PROVE  AlarmFirst'
<1>1. CASE AnalysisRequested \/ \E a \in Alerts : EventFires(a) \/ EventResolves(a)
  <2>1. named' \subseteq Alerts
    BY NextKeepsType DEF TypeOK
  <2>. QED
    BY <1>1, <2>1, RequestsGrow, GrownQueueKeepsAlarms
<1>2. \/ \E a \in Alerts : Expire(a)
      \/ Commit \/ RollBack \/ WaitEnds \/ WaitTimesOut \/ Skip \/ (\E ok \in BOOLEAN : Post(ok))
      \/ Record \/ RecordFails \/ AnalysisStarts \/ CallFails \/ AnalysisEnds \/ UNCHANGED vars
      => UNCHANGED <<queue, named>>
  BY DEF Expire, Commit, RollBack, WaitEnds, WaitTimesOut, Skip, Post, Record, RecordFails,
         AnalysisStarts, CallFails, AnalysisEnds, vars
<1>. QED
  BY <1>1, <1>2, TakeKeepsAlarms, RestKeepsAlarms, CrashKeepsAlarms DEF Next, WorkerStep

-----------------------------------------------------------------------------
(* What the chat shows, step by step.                                       *)
LEMMA NextKeepsChat ==
    ASSUME TypeOK, HandFits, AlarmFirst, ChatFits, [Next]_vars
    PROVE  ChatFits'
<1>1. \A a \in Alerts : status[a] # "absent" => status'[a] # "absent"
  BY StatusStays
<1>2. missed \subseteq missed'
  BY DEF Next, WorkerStep, EventFires, EventResolves, Expire, Commit, RollBack,
         AnalysisRequested, Crash, TakeJob, WaitEnds, WaitTimesOut, Skip, Post, Record, RecordFails,
         AnalysisStarts, CallFails, AnalysisEnds, vars
<1>3. CASE UNCHANGED chat
  BY <1>1, <1>2, <1>3 DEF ChatFits
<1>4. ASSUME NEW c \in Card, Arrives(c), Held(c), status[c[1]] # "absent"
      PROVE  ChatFits'
  <2>. DEFINE n == Len(chat[c[1]])
  <2>1. c[1] \in Alerts /\ c[2] \in Kinds /\ c = <<c[1], c[2]>>
    BY DEF Card
  <2>2. chat[c[1]] \in Seq(Kinds)
    BY <2>1 DEF TypeOK
  <2>3. chat'[c[1]] = Append(chat[c[1]], c[2]) /\ \A a \in Alerts : a # c[1] => chat'[a] = chat[a]
    BY <1>4, ChatGrows
  <2>4. /\ DOMAIN chat[c[1]] = 1..n /\ n \in Nat
        /\ DOMAIN chat'[c[1]] = 1..(n + 1)
        /\ chat'[c[1]][n + 1] = c[2]
        /\ \A k \in 1..n : chat'[c[1]][k] = chat[c[1]][k]
    BY <2>1, <2>2, <2>3
  <2>. HIDE DEF n
  <2>5. \A a \in Alerts : chat'[a] # <<>> => status'[a] # "absent"
    BY <1>1, <1>4, <2>1, <2>3 DEF ChatFits
  <2>6. ASSUME NEW k \in 1..n
        PROVE  \/ chat'[c[1]][k] = "alert_created"
               \/ \E j \in 1..(k - 1) : chat'[c[1]][j] = "alert_created"
               \/ Alarm(c[1]) \in missed'
    <3>1. \A j \in 1..(k - 1) : chat'[c[1]][j] = chat[c[1]][j]
      BY <2>4
    <3>2. \/ chat[c[1]][k] = "alert_created"
          \/ \E j \in 1..(k - 1) : chat[c[1]][j] = "alert_created"
          \/ Alarm(c[1]) \in missed
      BY <2>1, <2>4 DEF ChatFits
    <3>3. chat'[c[1]][k] = chat[c[1]][k]
      BY <2>4
    <3>. QED
      BY <1>2, <3>1, <3>2, <3>3
  <2>7. \/ c[2] = "alert_created"
        \/ \E j \in 1..n : chat'[c[1]][j] = "alert_created"
        \/ Alarm(c[1]) \in missed'
    <3>1. CASE c[2] = "alert_resolved"
      <4>1. c = Recovery(c[1])
        BY <2>1, <3>1 DEF Recovery
      <4>2. Held(Recovery(c[1]))
        BY <1>4, <4>1
      <4>3. Settled(Alarm(c[1]))
        BY <2>1, <4>2 DEF AlarmFirst
      <4>4. CASE Told(Alarm(c[1]))
        <5>1. \E j \in 1..n : chat[c[1]][j] = "alert_created"
          BY <2>1, <2>4, <4>4, Messages DEF Told
        <5>. QED
          BY <2>4, <5>1
      <4>. QED
        BY <1>2, <4>3, <4>4 DEF Settled
    <3>. QED
      BY <2>1, <3>1 DEF Kinds
  <2>8. ASSUME NEW a \in Alerts, NEW k \in DOMAIN chat'[a]
        PROVE  \/ chat'[a][k] = "alert_created"
               \/ \E j \in 1..(k - 1) : chat'[a][j] = "alert_created"
               \/ Alarm(a) \in missed'
    <3>1. CASE a # c[1]
      BY <1>2, <2>3, <3>1 DEF ChatFits
    <3>2. CASE a = c[1] /\ k = n + 1
      <4>1. 1..(k - 1) = 1..n
        BY <2>4, <3>2
      <4>. QED
        BY <2>4, <2>7, <3>2, <4>1
    <3>3. CASE a = c[1] /\ k # n + 1
      <4>1. k \in 1..n
        BY <2>4, <3>3
      <4>. QED
        BY <2>6, <3>3, <4>1
    <3>. QED
      BY <3>1, <3>2, <3>3
  <2>. QED
    BY <2>5, <2>8 DEF ChatFits
<1>5. ASSUME NEW ok \in BOOLEAN, Post(ok) PROVE ChatFits'
  <2>1. job.request \in Card /\ Held(job.request) /\ status[job.request[1]] # "absent"
    BY <1>5 DEF Post, InPhase, Held, HandFits, About
  <2>2. CASE Arrives(job.request)
    BY <1>4, <2>1, <2>2
  <2>. QED
    BY <1>3, <1>5, <2>2 DEF Post
<1>6. \/ AnalysisRequested \/ (\E a \in Alerts : EventFires(a) \/ EventResolves(a) \/ Expire(a))
      \/ Commit \/ RollBack \/ Crash \/ TakeJob \/ WaitEnds \/ WaitTimesOut \/ Skip
      \/ Record \/ RecordFails \/ AnalysisStarts \/ CallFails \/ AnalysisEnds \/ UNCHANGED vars
      => UNCHANGED chat
  BY DEF AnalysisRequested, EventFires, EventResolves, Crash, TakeJob,
         Expire, Commit, RollBack, WaitEnds, WaitTimesOut, Skip, Record, RecordFails,
         AnalysisStarts, CallFails, AnalysisEnds, vars
<1>. QED
  BY <1>3, <1>5, <1>6 DEF Next, WorkerStep

-----------------------------------------------------------------------------
(* The balance of cards without a row, repetitions and failures.              *)

(* How much larger or smaller a finite set gets by one element.               *)
LEMMA SizeOf ==
    ASSUME NEW U, NEW V, NEW c, IsFiniteSet(U), V \subseteq U \cup {c}
    PROVE  /\ IsFiniteSet(V) /\ Cardinality(V) \in Nat /\ Cardinality(U) \in Nat
           /\ Cardinality(V) <= Cardinality(U) + 1
           /\ V \subseteq U => Cardinality(V) <= Cardinality(U)
           /\ c \in U /\ V \subseteq U \ {c} => Cardinality(V) <= Cardinality(U) - 1
<1>1. Cardinality(U) \in Nat
  BY FS_CardinalityType
<1>2. IsFiniteSet(U \cup {c}) /\ Cardinality(U \cup {c}) <= Cardinality(U) + 1
  BY <1>1, FS_AddElement
<1>3. IsFiniteSet(V) /\ Cardinality(V) <= Cardinality(U \cup {c})
  BY <1>2, FS_Subset
<1>4. Cardinality(V) \in Nat /\ Cardinality(U \cup {c}) \in Nat
  BY <1>2, <1>3, FS_CardinalityType
<1>5. V \subseteq U => Cardinality(V) <= Cardinality(U)
  BY FS_Subset
<1>6. ASSUME c \in U, V \subseteq U \ {c}
      PROVE  Cardinality(V) <= Cardinality(U) - 1
  <2>1. IsFiniteSet(U \ {c}) /\ Cardinality(U \ {c}) = Cardinality(U) - 1
    BY <1>6, FS_RemoveElement
  <2>2. Cardinality(V) <= Cardinality(U \ {c})
    BY <1>6, <2>1, FS_Subset
  <2>. QED
    BY <2>1, <2>2
<1>. QED
  BY <1>1, <1>2, <1>3, <1>4, <1>5, <1>6

(* A card that arrives is one repetition more when it was told before.        *)
LEMMA ArrivalRepeats ==
    ASSUME TypeOK, NEW c \in Card, Arrives(c)
    PROVE  /\ Repeats' \subseteq Repeats \cup {<<c[1], Len(chat[c[1]]) + 1>>}
           /\ ~Told(c) => Repeats' \subseteq Repeats
<1>. DEFINE n == Len(chat[c[1]])
            IsRepeat(s, k) == \E j \in 1..(k - 1) : s[j] = s[k]
<1>1. c[1] \in Alerts /\ c[2] \in Kinds /\ chat[c[1]] \in Seq(Kinds)
  BY DEF Card, TypeOK
<1>2. chat'[c[1]] = Append(chat[c[1]], c[2]) /\ \A a \in Alerts : a # c[1] => chat'[a] = chat[a]
  BY ChatGrows
<1>3. /\ DOMAIN chat[c[1]] = 1..n /\ n \in Nat
      /\ DOMAIN chat'[c[1]] = 1..(n + 1)
      /\ chat'[c[1]][n + 1] = c[2]
      /\ \A k \in 1..n : chat'[c[1]][k] = chat[c[1]][k]
  BY <1>1, <1>2
<1>. HIDE DEF n
<1>4. ASSUME NEW a \in Alerts, NEW k \in DOMAIN chat'[a], IsRepeat(chat'[a], k)
      PROVE  \/ k \in DOMAIN chat[a] /\ IsRepeat(chat[a], k)
             \/ a = c[1] /\ k = n + 1 /\ Told(c)
  <2>1. CASE a # c[1]
    BY <1>2, <1>4, <2>1
  <2>2. CASE a = c[1] /\ k = n + 1
    <3>1. PICK j \in 1..n : chat'[c[1]][j] = c[2]
      BY <1>3, <1>4, <2>2
    <3>. QED
      BY <1>3, <2>2, <3>1 DEF Told
  <2>3. CASE a = c[1] /\ k # n + 1
    <3>1. k \in 1..n /\ \A j \in 1..(k - 1) : j \in 1..n
      BY <1>3, <2>3
    <3>. QED
      BY <1>3, <1>4, <2>3, <3>1
  <2>. QED
    BY <2>1, <2>2, <2>3
<1>5. ASSUME NEW x \in Repeats'
      PROVE  x \in Repeats \/ (x = <<c[1], n + 1>> /\ Told(c))
  <2>1. PICK a \in Alerts : \E k \in DOMAIN chat'[a] : x = <<a, k>> /\ IsRepeat(chat'[a], k)
    BY <1>5 DEF Repeats
  <2>2. PICK k \in DOMAIN chat'[a] : x = <<a, k>> /\ IsRepeat(chat'[a], k)
    BY <2>1
  <2>3. CASE k \in DOMAIN chat[a] /\ IsRepeat(chat[a], k)
    BY <2>2, <2>3 DEF Repeats
  <2>. QED
    BY <1>4, <2>2, <2>3
<1>. QED
  BY <1>5 DEF n

LEMMA QuietKeepsBalance ==
    ASSUME TypeOK, TypeOK', Paid, UNCHANGED chat, NEW c,
           \/ Unpaid' \subseteq Unpaid /\ failures <= failures'
           \/ Unpaid' \subseteq Unpaid \cup {c} /\ failures' = failures + 1
    PROVE  Paid'
<1>1. Repeats' = Repeats
  BY DEF Repeats
<1>2. failures \in Nat /\ failures' \in Nat
  BY FailuresAssumption DEF TypeOK
<1>3. IsFiniteSet(Unpaid) /\ IsFiniteSet(Repeats) /\ Cardinality(Unpaid) + Cardinality(Repeats) <= failures
  BY DEF Paid
<1>. DEFINE U == Unpaid
            V == Unpaid'
            R == Repeats
            S == Repeats'
<1>4. IsFiniteSet(V) /\ IsFiniteSet(S) /\ Cardinality(V) + Cardinality(S) <= failures'
  <2>1. \/ V \subseteq U /\ S \subseteq R /\ failures <= failures'
        \/ V \subseteq U \cup {c} /\ S \subseteq R /\ failures' = failures + 1
    BY <1>1
  <2>2. IsFiniteSet(U) /\ IsFiniteSet(R) /\ Cardinality(U) + Cardinality(R) <= failures
    BY <1>3
  <2>. HIDE DEF U, V, R, S
  <2>. QED
    <3>1. V \subseteq U \cup {c} /\ S \subseteq R \cup {c}
      BY <2>1
    <3>2. /\ IsFiniteSet(V) /\ Cardinality(V) \in Nat /\ Cardinality(U) \in Nat
          /\ Cardinality(V) <= Cardinality(U) + 1
          /\ V \subseteq U => Cardinality(V) <= Cardinality(U)
      BY <2>2, <3>1, SizeOf
    <3>3. /\ IsFiniteSet(S) /\ Cardinality(S) \in Nat /\ Cardinality(R) \in Nat
          /\ S \subseteq R => Cardinality(S) <= Cardinality(R)
      BY <2>2, <3>1, SizeOf
    <3>. QED
      BY <1>2, <2>1, <2>2, <3>2, <3>3
<1>. QED
  BY <1>4 DEF Paid

(* A post: a card not told before is owed one failure unless its row follows; *)
(* a card told before is a repetition, which this or an earlier failure paid.  *)
LEMMA PostKeepsBalance ==
    ASSUME TypeOK, TypeOK', Paid, NEW ok \in BOOLEAN, Post(ok)
    PROVE  Paid'
<1>0. PICK c \in Card : c = job.request
  BY JobShapes DEF Post
<1>1. job \in Job /\ InPhase("found") /\ ~InPhase("posted") /\ c \notin messages
  BY <1>0, JobShapes DEF Post, InPhase, already_notified
<1>2. job' \in Job /\ job' # Idle /\ job'.phase = "posted" /\ job'.request = c /\ job'.ok = ok
  BY <1>0, <1>1 DEF Post, Job, Idle
<1>3. failures \in Nat /\ failures' \in Nat
  BY FailuresAssumption DEF TypeOK
<1>4. IF ok THEN failures' = failures ELSE failures' = failures + 1
  BY DEF Post, Fail
<1>5. UNCHANGED messages
  BY DEF Post
<1>6. \A d \in Card : d \in Unpaid <=> Told(d) /\ d \notin messages
  BY <1>1 DEF Unpaid
<1>7. \A d \in Card : d \in Unpaid' <=> Told(d)' /\ d \notin messages /\ ~(ok /\ d = c)
  BY <1>1, <1>2, <1>5 DEF Unpaid, InPhase
<1>8. Unpaid' \subseteq Card /\ Unpaid \subseteq Card
  BY DEF Unpaid
<1>9. CASE UNCHANGED chat
  <2>1. \A d \in Card : Told(d)' <=> Told(d)
    BY <1>9 DEF Told
  <2>2. Unpaid' \subseteq Unpaid /\ failures <= failures'
    BY <1>3, <1>4, <1>6, <1>7, <1>8, <2>1
  <2>. QED
    BY <1>9, <2>2, QuietKeepsBalance
<1>10. CASE Arrives(c)
  <2>. DEFINE p == <<c[1], Len(chat[c[1]]) + 1>>
  <2>1. Told(c)' /\ \A d \in Card : Told(d)' => Told(d) \/ d = c
    BY <1>1, <1>10, ChatGrows
  <2>2. Repeats' \subseteq Repeats \cup {p} /\ (~Told(c) => Repeats' \subseteq Repeats)
    BY <1>1, <1>10, ArrivalRepeats
  <2>3. Told(c) => c \in Unpaid
    BY <1>1, <1>6
  <2>4. Unpaid' \subseteq Unpaid \cup {c} /\ (ok => Unpaid' \subseteq Unpaid \ {c})
    BY <1>6, <1>7, <1>8, <2>1
  <2>5. \/ Unpaid' \subseteq Unpaid /\ Repeats' \subseteq Repeats /\ failures <= failures'
        \/ Unpaid' \subseteq Unpaid \cup {c} /\ Repeats' \subseteq Repeats /\ failures' = failures + 1
        \/ Unpaid' \subseteq Unpaid /\ Repeats' \subseteq Repeats \cup {p} /\ failures' = failures + 1
        \/ c \in Unpaid /\ Unpaid' \subseteq Unpaid \ {c} /\ Repeats' \subseteq Repeats \cup {p} /\ failures <= failures'
    BY <1>3, <1>4, <2>2, <2>3, <2>4
  <2>6. IsFiniteSet(Unpaid) /\ IsFiniteSet(Repeats) /\ Cardinality(Unpaid) + Cardinality(Repeats) <= failures
    BY DEF Paid
  <2>. DEFINE U == Unpaid
              V == Unpaid'
              R == Repeats
              S == Repeats'
  <2>7. IsFiniteSet(V) /\ IsFiniteSet(S) /\ Cardinality(V) + Cardinality(S) <= failures'
    <3>1. \/ V \subseteq U /\ S \subseteq R /\ failures <= failures'
          \/ V \subseteq U \cup {c} /\ S \subseteq R /\ failures' = failures + 1
          \/ V \subseteq U /\ S \subseteq R \cup {p} /\ failures' = failures + 1
          \/ c \in U /\ V \subseteq U \ {c} /\ S \subseteq R \cup {p} /\ failures <= failures'
      BY <2>5
    <3>2. IsFiniteSet(U) /\ IsFiniteSet(R) /\ Cardinality(U) + Cardinality(R) <= failures
      BY <2>6
    <3>. HIDE DEF U, V, R, S, p
    <3>3. failures \in Nat /\ failures' \in Nat
      BY <1>3
    <3>4. V \subseteq U \cup {c} /\ S \subseteq R \cup {p}
      BY <3>1
    <3>5. /\ IsFiniteSet(V) /\ Cardinality(V) \in Nat /\ Cardinality(U) \in Nat
          /\ Cardinality(V) <= Cardinality(U) + 1
          /\ V \subseteq U => Cardinality(V) <= Cardinality(U)
          /\ c \in U /\ V \subseteq U \ {c} => Cardinality(V) <= Cardinality(U) - 1
      BY <3>2, <3>4, SizeOf
    <3>6. /\ IsFiniteSet(S) /\ Cardinality(S) \in Nat /\ Cardinality(R) \in Nat
          /\ Cardinality(S) <= Cardinality(R) + 1
          /\ S \subseteq R => Cardinality(S) <= Cardinality(R)
      BY <3>2, <3>4, SizeOf
    <3>. QED
      BY <3>1, <3>2, <3>3, <3>5, <3>6
  <2>. QED
    BY <2>7 DEF Paid
<1>. QED
  BY <1>0, <1>9, <1>10 DEF Post

LEMMA NextKeepsBalance ==
    ASSUME TypeOK, TypeOK', Paid, [Next]_vars
    PROVE  Paid'
<1>. DEFINE Claimed(c) == InPhase("posted") /\ job.ok /\ job.request = c
<1>1. failures \in Nat /\ failures' \in Nat
  BY FailuresAssumption DEF TypeOK
<1>2. \A c \in Card : c \in Unpaid <=> Told(c) /\ c \notin messages /\ ~Claimed(c)
  BY DEF Unpaid
<1>3. \A c \in Card : c \in Unpaid' <=> Told(c)' /\ c \notin messages' /\ ~Claimed(c)'
  BY DEF Unpaid
<1>4. Unpaid \subseteq Card /\ Unpaid' \subseteq Card
  BY DEF Unpaid
<1>5. ASSUME UNCHANGED <<chat, messages>>, failures <= failures',
             \A c \in Card : Claimed(c) => Claimed(c)'
      PROVE  Paid'
  <2>1. \A c \in Card : Told(c)' <=> Told(c)
    BY <1>5 DEF Told
  <2>2. Unpaid' \subseteq Unpaid
    <3>. HIDE DEF Claimed
    <3>. QED
      BY <1>2, <1>3, <1>4, <1>5, <2>1
  <2>. QED
    BY <1>5, <2>2, QuietKeepsBalance
<1>6. CASE RecordFails \/ Crash
  <2>1. UNCHANGED <<chat, messages>> /\ failures' = failures + 1
    BY <1>6 DEF RecordFails, Crash, Fail
  <2>2. \A c \in Card : Told(c)' <=> Told(c)
    BY <2>1 DEF Told
  <2>3. \A c \in Card : Claimed(c) => c = job.request
    OBVIOUS
  <2>4. Unpaid' \subseteq Unpaid \cup {job.request}
    <3>. HIDE DEF Claimed
    <3>. QED
      BY <1>2, <1>3, <1>4, <2>1, <2>2, <2>3
  <2>. QED
    BY <2>1, <2>4, QuietKeepsBalance
<1>7. CASE Record
  <2>1. UNCHANGED <<chat, failures>> /\ InPhase("posted")
        /\ messages' = IF job.ok THEN messages \cup {job.request} ELSE messages
    BY <1>7 DEF Record
  <2>2. \A c \in Card : Told(c)' <=> Told(c)
    BY <2>1 DEF Told
  <2>3. \A c \in Card : Claimed(c) => c \in messages'
    BY <2>1
  <2>4. messages \subseteq messages'
    BY <2>1
  <2>5. Unpaid' \subseteq Unpaid
    <3>. HIDE DEF Claimed
    <3>. QED
      BY <1>2, <1>3, <1>4, <2>2, <2>3, <2>4
  <2>. QED
    BY <1>1, <2>1, <2>5, QuietKeepsBalance
<1>8. CASE TakeJob \/ WaitEnds \/ WaitTimesOut \/ Skip \/ AnalysisStarts \/ CallFails \/ AnalysisEnds
  <2>1. \A c \in Card : ~Claimed(c)
    BY <1>8, NamesAssumption DEF TakeJob, WaitEnds, WaitTimesOut, Skip, AnalysisStarts, CallFails,
                                 AnalysisEnds, InPhase, Analyses
  <2>2. UNCHANGED <<chat, messages>>
    BY <1>8 DEF TakeJob, WaitEnds, WaitTimesOut, Skip, AnalysisStarts, CallFails, AnalysisEnds
  <2>3. failures <= failures'
    BY <1>1, <1>8 DEF TakeJob, WaitEnds, WaitTimesOut, Skip, AnalysisStarts, CallFails, AnalysisEnds, Fail
  <2>. QED
    BY <1>5, <2>1, <2>2, <2>3
<1>9. ASSUME UNCHANGED <<job, chat, messages>>, failures' \in {failures, failures + 1} PROVE Paid'
  BY <1>1, <1>5, <1>9 DEF InPhase
<1>10. Commit \/ RollBack \/ AnalysisRequested \/ UNCHANGED vars =>
          UNCHANGED <<job, chat, messages>> /\ failures' \in {failures, failures + 1}
  BY DEF Commit, RollBack, AnalysisRequested, Fail, vars
<1>11. \A a \in Alerts : EventFires(a) \/ EventResolves(a) \/ Expire(a) =>
          UNCHANGED <<job, chat, messages>> /\ failures' \in {failures, failures + 1}
  BY DEF EventFires, EventResolves, Expire
<1>. QED
  BY <1>6, <1>7, <1>8, <1>9, <1>10, <1>11, PostKeepsBalance DEF Next, WorkerStep

-----------------------------------------------------------------------------
(* The theorems.                                                            *)

(* What the worker, its queue and the chat keep consistent is inductive.      *)
THEOREM JobsInvariant == Spec => []IInv
<1>1. Init => IInv
  <2>. SUFFICES ASSUME Init PROVE IInv
    OBVIOUS
  <2>1. TypeOK
    BY FailuresAssumption DEF Init, TypeOK
  <2>2. HandFits /\ AlarmFirst
    BY DEF Init, HandFits, AlarmFirst, InPhase, Held
  <2>3. ChatFits /\ (\A c \in Card : ~Told(c)) /\ Repeats = {}
    BY DEF Init, ChatFits, Told, Card, Repeats
  <2>4. Unpaid = {}
    BY <2>3 DEF Unpaid
  <2>5. Paid
    BY <2>3, <2>4, FS_EmptySet DEF Init, Paid
  <2>. QED
    BY <2>1, <2>2, <2>3, <2>5 DEF IInv
<1>2. IInv /\ [Next]_vars => IInv'
  BY NextKeepsType, HandKeepsFit, NextKeepsAlarms, NextKeepsChat, NextKeepsBalance DEF IInv
<1>. QED
  BY <1>1, <1>2, PTL DEF Spec

(* Requests, the open event and the chat always have their types; the worker   *)
(* never asks the model more often than llm_max_retries allows.              *)
THEOREM JobsTypeCorrect == Spec => []TypeOK
<1>1. IInv => TypeOK
  BY DEF IInv
<1>. QED
  BY <1>1, JobsInvariant, PTL

(* The chat hears of committed alerts only, of the alarm before the recovery   *)
(* unless a failure dropped the alarm, and has at most one repetition for     *)
(* every failure, however events, the worker and crashes interleave.          *)
THEOREM ChatAlwaysInOrder == Spec => []ChatInOrder
<1>1. IInv => ChatInOrder
  <2>. SUFFICES ASSUME IInv PROVE ChatInOrder
    OBVIOUS
  <2>1. Cardinality(Repeats) <= failures
    <3>1. Cardinality(Unpaid) \in Nat /\ Cardinality(Repeats) \in Nat /\ failures \in Nat
      BY FS_CardinalityType, FailuresAssumption DEF IInv, Paid, TypeOK
    <3>. QED
      BY <3>1 DEF IInv, Paid
  <2>. QED
    BY <2>1 DEF IInv, ChatFits, ChatInOrder, Alarm
<1>. QED
  BY <1>1, JobsInvariant, PTL

================================================================================
