---------------------------- MODULE BackgroundJobs ----------------------------
(***************************************************************************)
(* Cards about single alerts (notify_alert_now in app/services/pipeline.py).  *)
(* An event asks for them before it commits; one thread serves the requests  *)
(* in their order and shares its time with analyses, whose model calls        *)
(* (app/integrations/deepseek.py) may fail and be repeated.  Requests are in  *)
(* memory only, and nobody repeats one.                                      *)
(***************************************************************************)
EXTENDS Naturals, Sequences, FiniteSets

CONSTANTS
    Alerts,         \* names of alerts, each given out once
    None,           \* nothing
    llm_max_retries,
    MaxFailures     \* bound: posts, writes, transactions and processes that fail

ASSUME RetriesAssumption == llm_max_retries \in Nat
ASSUME FailuresAssumption == MaxFailures \in Nat

VARIABLES
    status,     \* committed status of an alert, or how it ended
    event,      \* what the open transaction of an event writes
    named,      \* names given out, those of rolled back events included
    queue,      \* requests the executor holds
    job,        \* what the worker does
    messages,   \* cards with a committed row in feishu_messages that says ok
    chat,       \* history: per alert the cards that arrived
    missed,     \* history: cards a failure has dropped
    failures

vars == <<status, event, named, queue, job, messages, chat, missed, failures>>

Kinds == {"alert_created", "alert_resolved"}
Card == Alerts \X Kinds
Analysis == <<"some incident", "analysis">>

Event == [alert : Alerts, status : {"FIRING", "resolved"}]
Job == [phase : {"wait", "found", "posted"}, request : Card, ok : BOOLEAN]
AnalysisJob == [phase : {"wait", "ask"}, request : {Analysis}, tries : 0..llm_max_retries]
Idle == [phase |-> "idle"]

ASSUME NamesAssumption == None \notin Event /\ Analysis \notin Card

Init ==
    /\ status = [a \in Alerts |-> "absent"]
    /\ event = None
    /\ named = {}
    /\ queue = <<>>
    /\ job = Idle
    /\ messages = {}
    /\ chat = [a \in Alerts |-> <<>>]
    /\ missed = {}
    /\ failures = 0

Fail == failures < MaxFailures /\ failures' = failures + 1

-----------------------------------------------------------------------------
(* Events, between their requests and the end of their transaction.          *)

(* One analysis of an incident at a time (module AnalysisWorker).            *)
InFlight == \/ job # Idle /\ job.request = Analysis
            \/ \E k \in DOMAIN queue : queue[k] = Analysis

(* A new alert, which may also ask for an analysis.                          *)
EventFires(a) ==
    /\ event = None
    /\ a \notin named
    /\ named' = named \cup {a}
    /\ event' = [alert |-> a, status |-> "FIRING"]
    /\ LET asked == Append(queue, <<a, "alert_created">>)
       IN  \/ queue' = asked
           \/ ~InFlight /\ queue' = Append(asked, Analysis)
    /\ UNCHANGED <<status, job, messages, chat, missed, failures>>

EventResolves(a) ==
    /\ event = None
    /\ status[a] = "FIRING"
    /\ event' = [alert |-> a, status |-> "resolved"]
    /\ queue' = Append(queue, <<a, "alert_resolved">>)
    /\ UNCHANGED <<status, named, job, messages, chat, missed, failures>>

Commit ==
    /\ event # None
    /\ status' = [status EXCEPT ![event.alert] = event.status]
    /\ event' = None
    /\ UNCHANGED <<named, queue, job, messages, chat, missed, failures>>

(* The event is tried again or given up; its requests stay.                  *)
RollBack ==
    /\ event # None
    /\ event' = None
    /\ Fail
    /\ UNCHANGED <<status, named, queue, job, messages, chat, missed>>

(* Silence ends an alert without a card.                                     *)
Expire(a) ==
    /\ event = None
    /\ status[a] = "FIRING"
    /\ status' = [status EXCEPT ![a] = "stale"]
    /\ UNCHANGED <<event, named, queue, job, messages, chat, missed, failures>>

(* A round, a route or a restart asks for an analysis.                       *)
AnalysisRequested ==
    /\ ~InFlight
    /\ queue' = Append(queue, Analysis)
    /\ UNCHANGED <<status, event, named, job, messages, chat, missed, failures>>

-----------------------------------------------------------------------------
(* The worker.                                                             *)

(* Mutated: a second look at the queue takes the newest request.             *)
LastTaken ==
    /\ job' = IF queue[Len(queue)] = Analysis
              THEN [phase |-> "wait", request |-> Analysis, tries |-> 0]
              ELSE [phase |-> "wait", request |-> queue[Len(queue)], ok |-> FALSE]
    /\ queue' = SubSeq(queue, 1, Len(queue) - 1)

Taken ==
    /\ job' = IF Head(queue) = Analysis
              THEN [phase |-> "wait", request |-> Analysis, tries |-> 0]
              ELSE [phase |-> "wait", request |-> Head(queue), ok |-> FALSE]
    /\ queue' = Tail(queue)

TakeJob ==
    /\ job = Idle
    /\ queue # <<>>
    /\ Taken
    /\ UNCHANGED <<status, event, named, messages, chat, missed, failures>>

InPhase(phase) == job # Idle /\ job.request \in Card /\ job.phase = phase

About == job.request[1]

(* _wait_for sees committed rows only, whatever their status.                *)
Visible == status[About] # "absent"

WaitEnds ==
    /\ InPhase("wait")
    /\ Visible
    /\ job' = [job EXCEPT !.phase = "found"]
    /\ UNCHANGED <<status, event, named, queue, messages, chat, missed, failures>>

(* After five seconds: the event was rolled back, or has still not committed. *)
WaitTimesOut ==
    /\ InPhase("wait")
    /\ ~Visible
    /\ job' = Idle
    /\ missed' = missed \cup {job.request}
    /\ IF event # None /\ event.alert = About THEN Fail ELSE UNCHANGED failures
    /\ UNCHANGED <<status, event, named, queue, messages, chat>>

already_notified(c) == c \in messages

Skip ==
    /\ InPhase("found")
    /\ already_notified(job.request)
    /\ job' = Idle
    /\ UNCHANGED <<status, event, named, queue, messages, chat, missed, failures>>

Arrives(c) == chat' = [chat EXCEPT ![c[1]] = Append(@, c[2])]

(* A post that fails may have arrived; its row will not count.               *)
Post(ok) ==
    /\ InPhase("found")
    /\ ~already_notified(job.request)
    /\ job' = [job EXCEPT !.phase = "posted", !.ok = ok]
    /\ \/ Arrives(job.request)
       \/ ~ok /\ UNCHANGED chat
    /\ IF ok THEN UNCHANGED <<failures, missed>>
       ELSE Fail /\ missed' = missed \cup {job.request}
    /\ UNCHANGED <<status, event, named, queue, messages>>

(* AUTOCOMMIT: the row needs the write lock the event may hold.              *)
Record ==
    /\ InPhase("posted")
    /\ event = None
    /\ messages' = IF job.ok THEN messages \cup {job.request} ELSE messages
    /\ job' = Idle
    /\ UNCHANGED <<status, event, named, queue, chat, missed, failures>>

RecordFails ==
    /\ InPhase("posted")
    /\ Fail
    /\ job' = Idle
    /\ UNCHANGED <<status, event, named, queue, messages, chat, missed>>

Analyses(phase) == job # Idle /\ job.request = Analysis /\ job.phase = phase

(* The wait for the incident ends in any case; a collection of context that  *)
(* fails is noted and the model is asked without it.                         *)
AnalysisStarts ==
    /\ Analyses("wait")
    /\ job' = [job EXCEPT !.phase = "ask"]
    /\ UNCHANGED <<status, event, named, queue, messages, chat, missed, failures>>

(* Mutated: after the last call the first comes again.                       *)
RepeatedForEver ==
    job' = IF job.tries < llm_max_retries THEN [job EXCEPT !.tries = @ + 1]
           ELSE [job EXCEPT !.tries = 0]

(* Mutated: off by one call.                                                *)
RepeatedOnceMore ==
    job' = IF job.tries <= llm_max_retries THEN [job EXCEPT !.tries = @ + 1] ELSE Idle

Repeated == job' = IF job.tries < llm_max_retries THEN [job EXCEPT !.tries = @ + 1] ELSE Idle

(* The model is asked again; after the last call the rules answer.           *)
CallFails ==
    /\ Analyses("ask")
    /\ Repeated
    /\ UNCHANGED <<status, event, named, queue, messages, chat, missed, failures>>

(* An answer, a bad one that the rules replace, no key at all, an incident    *)
(* that is gone, or an exception that ends the job.                          *)
AnalysisEnds ==
    /\ Analyses("ask")
    /\ job' = Idle
    /\ UNCHANGED <<status, event, named, queue, messages, chat, missed, failures>>

-----------------------------------------------------------------------------

Asked == {queue[k] : k \in DOMAIN queue} \cup (IF job = Idle THEN {} ELSE {job.request})

(* The executor's queue goes with the process.                               *)
Crash ==
    /\ Fail
    /\ event' = None
    /\ queue' = <<>>
    /\ job' = Idle
    /\ missed' = missed \cup (Asked \ {Analysis})
    /\ UNCHANGED <<status, named, messages, chat>>

WorkerStep ==
    \/ TakeJob \/ WaitEnds \/ WaitTimesOut \/ Skip \/ Record \/ RecordFails
    \/ \E ok \in BOOLEAN : Post(ok)
    \/ AnalysisStarts \/ CallFails \/ AnalysisEnds

Next ==
    \/ \E a \in Alerts : EventFires(a) \/ EventResolves(a) \/ Expire(a)
    \/ Commit \/ RollBack \/ AnalysisRequested \/ Crash
    \/ WorkerStep

Spec == Init /\ [][Next]_vars

(* Every job ends by its timeouts, and a transaction is over once its last    *)
(* statement is; that calls of the model succeed is not assumed.             *)
LiveSpec == Spec /\ WF_vars(Commit) /\ WF_vars(WorkerStep)

-----------------------------------------------------------------------------
(* Properties.                                                             *)

TypeOK ==
    /\ status \in [Alerts -> {"absent", "FIRING", "resolved", "stale"}]
    /\ event \in Event \cup {None}
    /\ named \subseteq Alerts
    /\ \A a \in Alerts : status[a] # "absent" => a \in named
    /\ queue \in Seq(Card \cup {Analysis})
    /\ job \in Job \cup AnalysisJob \cup {Idle}
    /\ messages \subseteq Card /\ missed \subseteq Card
    /\ chat \in [Alerts -> Seq(Kinds)]
    /\ failures \in 0..MaxFailures

Told(c) == \E k \in DOMAIN chat[c[1]] : chat[c[1]][k] = c[2]

(* Cards that had arrived before.                                           *)
Repeats ==
    UNION {{a} \X {k \in DOMAIN chat[a] : \E j \in 1..(k - 1) : chat[a][j] = chat[a][k]} :
              a \in Alerts}

(* What the chat shows of alerts: only alerts that were committed, the alarm  *)
(* before the recovery unless a failure dropped the alarm, and nothing twice  *)
(* but for one repetition per failure, although a retried event asks again.   *)
ChatInOrder ==
    /\ \A a \in Alerts : chat[a] # <<>> => status[a] # "absent"
    /\ \A a \in Alerts : \A k \in DOMAIN chat[a] :
          \/ chat[a][k] = "alert_created"
          \/ \E j \in 1..(k - 1) : chat[a][j] = "alert_created"
          \/ <<a, "alert_created">> \in missed
    /\ Cardinality(Repeats) <= failures

(* A committed alert is told of, and so is its recovery, unless a failure      *)
(* dropped the card; analyses with a model that never answers do not keep     *)
(* the worker from it.                                                     *)
EveryCardTried ==
    \A a \in Alerts :
        /\ status[a] # "absent" ~>
              Told(<<a, "alert_created">>) \/ <<a, "alert_created">> \in missed
        /\ status[a] = "resolved" ~>
              Told(<<a, "alert_resolved">>) \/ <<a, "alert_resolved">> \in missed

=============================================================================
