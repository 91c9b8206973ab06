---------------------------- MODULE IncidentStore ----------------------------
(***************************************************************************)
(* The tables alerts, incidents and incident_alerts, and the service       *)
(* functions that read and write them (app/db/queries.py,                  *)
(* app/services/alert_service.py, app/services/incident_service.py).  A    *)
(* store is a value: every operator maps a store to the store the function *)
(* leaves behind, so that the threads of IncidentLifecycle can hold a      *)
(* committed store and the uncommitted view of a transaction side by side. *)
(*                                                                         *)
(* Time is abstract: a recovery deadline is "none", "ahead" or "passed",   *)
(* and whichever comparison of timestamps decides a choice in the code is  *)
(* a set of possible results here.                                         *)
(***************************************************************************)

CONSTANTS
    Alerts,        \* identifiers of the rows of table alerts
    Incidents,     \* identifiers of the rows of table incidents
    Fingerprints,  \* fault identities: same rule on the same resource
    None           \* SQL NULL

ASSUME NoneAssumption == None \notin Alerts \cup Incidents \cup Fingerprints

AlertRow ==
    [status : {"absent", "FIRING", "RESOLVED"},
     fingerprint : Fingerprints \cup {None},
     reason : {"none", "resolved", "stale"},
     incident : Incidents \cup {None}]

ProbeResults == {"none", "recovered", "not_recovered", "unverified"}

IncidentStatus == {"absent", "OPEN", "ACKNOWLEDGED", "RECOVERING", "RESOLVED", "MERGED"}

Deadlines == {"none", "ahead", "passed"}

IncidentRow ==
    [status : IncidentStatus,
     deadline : Deadlines,
     merged : Incidents \cup {None},
     root : Alerts \cup {None},
     probe : ProbeResults]

(* link holds the rows of incident_alerts and rootLink those whose          *)
(* relation_type is ROOT.  released records the links an operator has cut;  *)
(* no code reads it, the properties do.                                     *)
Store ==
    [alert : [Alerts -> AlertRow],
     incident : [Incidents -> IncidentRow],
     link : SUBSET (Incidents \X Alerts),
     rootLink : SUBSET (Incidents \X Alerts),
     released : SUBSET (Incidents \X Alerts)]

AbsentAlert == [status |-> "absent", fingerprint |-> None, reason |-> "none", incident |-> None]

AbsentIncident ==
    [status |-> "absent", deadline |-> "none", merged |-> None, root |-> None, probe |-> "none"]

EmptyStore ==
    [alert |-> [a \in Alerts |-> AbsentAlert],
     incident |-> [i \in Incidents |-> AbsentIncident],
     link |-> {}, rootLink |-> {}, released |-> {}]

-----------------------------------------------------------------------------
(* Queries.                                                                *)

OpenStates == {"OPEN", "ACKNOWLEDGED", "RECOVERING"}

FreshAlerts(d) == {a \in Alerts : d.alert[a].status = "absent"}
FreshIncidents(d) == {i \in Incidents : d.incident[i].status = "absent"}

Firing(d) == {a \in Alerts : d.alert[a].status = "FIRING"}

(* Mutated: only alerts that belong to an incident are looked at.           *)
FindFiringOwned(d, f) ==
    {a \in Firing(d) : d.alert[a].fingerprint = f /\ d.alert[a].incident # None}

FindFiring(d, f) == {a \in Firing(d) : d.alert[a].fingerprint = f}

(* The two ways the code reaches the alerts of an incident: through the     *)
(* link table (cards, recovery checks) and through alerts.incident_id       *)
(* (refresh_state, merge).                                                  *)
Attached(d, i) == {a \in Alerts : <<i, a>> \in d.link}
Owned(d, i) == {a \in Alerts : d.alert[a].incident = i}

(* Mutated: the merged_into condition is missing.                           *)
OpenByStatus(d) == {i \in Incidents : d.incident[i].status \in OpenStates}

OpenIncidents(d) ==
    {i \in Incidents : d.incident[i].status \in OpenStates /\ d.incident[i].merged = None}

IncidentsByFingerprint(d, f) ==
    {i \in Incidents : /\ d.incident[i].merged = None
                       /\ \E a \in Attached(d, i) : d.alert[a].fingerprint = f}

HasFiring(d, i) == \E a \in Owned(d, i) : d.alert[a].status = "FIRING"
HasExplicitRecovery(d, i) == \E a \in Owned(d, i) : d.alert[a].reason = "resolved"

-----------------------------------------------------------------------------
(* Alert service.                                                          *)

(* resolution_reason has no default: "none" stands for its NULL.            *)
CreateAlert(d, a, f) ==
    [d EXCEPT !.alert[a] = [status |-> "FIRING", fingerprint |-> f,
                            reason |-> "none", incident |-> None]]

(* Mutated: resolution_reason is not written.                               *)
ResolveAlertsNoReason(d, S, why) ==
    [d EXCEPT !.alert = [a \in Alerts |->
        IF a \in S THEN [d.alert[a] EXCEPT !.status = "RESOLVED"] ELSE d.alert[a]]]

ResolveAlerts(d, S, why) ==
    [d EXCEPT !.alert = [a \in Alerts |->
        IF a \in S THEN [d.alert[a] EXCEPT !.status = "RESOLVED", !.reason = why]
                   ELSE d.alert[a]]]

-----------------------------------------------------------------------------
(* Incident service.                                                       *)

(* A closed or recovering incident is reopened by every alert attached.    *)
Reopened(row) ==
    IF row.status \in {"RECOVERING", "RESOLVED"}
    THEN [row EXCEPT !.status = "OPEN", !.deadline = "none"]
    ELSE row

(* Mutated: of the two relation updates of a promotion, the one that marks  *)
(* the new root's link is missing.                                          *)
AttachDemotesOnly(d, i, a, promote) ==
    LET row == Reopened(d.incident[i])
        old == d.incident[i].root
    IN  IF <<i, a>> \in d.link THEN d
        ELSE [d EXCEPT !.alert[a].incident = i,
                       !.incident[i] = IF promote THEN [row EXCEPT !.root = a] ELSE row,
                       !.link = @ \cup {<<i, a>>},
                       !.rootLink = IF promote THEN @ \ {<<i, old>>} ELSE @]

(* attach_alert with _maybe_promote_root: promote says whether the alert    *)
(* outranks the current root, which rules and alert names decide.           *)
AttachAlert(d, i, a, promote) ==
    LET row == Reopened(d.incident[i])
        old == d.incident[i].root
    IN  IF <<i, a>> \in d.link THEN d
        ELSE [d EXCEPT !.alert[a].incident = i,
                       !.incident[i] = IF promote THEN [row EXCEPT !.root = a] ELSE row,
                       !.link = @ \cup {<<i, a>>},
                       !.rootLink = IF promote THEN (@ \ {<<i, old>>}) \cup {<<i, a>>} ELSE @]

NewIncident(a) == [AbsentIncident EXCEPT !.status = "OPEN", !.root = a]

InsertIncident(d, i, a) == [d EXCEPT !.incident[i] = NewIncident(a)]

(* create_incident attaches its first alert, the root the new row names,    *)
(* with relation ROOT; an alert does not outrank itself, so there is no     *)
(* promotion.                                                              *)
CreateIncident(d, i, a) ==
    [AttachAlert(InsertIncident(d, i, a), i, a, FALSE) EXCEPT !.rootLink = @ \cup {<<i, a>>}]

Moved(pairs, keep, drop) ==
    {p \in pairs : p[1] # drop} \cup {<<keep, a>> : a \in {b \in Alerts : <<drop, b>> \in pairs}}

(* Mutated: links move, alerts.incident_id does not.                        *)
MergeLinksOnly(d, keep, drop) ==
    [d EXCEPT !.link = Moved(@, keep, drop),
              !.rootLink = Moved(@, keep, drop),
              !.incident[drop] = [@ EXCEPT !.status = "MERGED", !.merged = keep]]

(* Mutated: the alerts of the dropped incident lose their incident.         *)
MergeForgetsAlerts(d, keep, drop) ==
    [d EXCEPT !.alert = [a \in Alerts |->
                            IF d.alert[a].incident = drop
                            THEN [d.alert[a] EXCEPT !.incident = None] ELSE d.alert[a]],
              !.link = {p \in @ : p[1] # drop},
              !.rootLink = {p \in @ : p[1] # drop},
              !.incident[drop] = [@ EXCEPT !.status = "MERGED", !.merged = keep]]

(* Mutated: merged_into takes the wrong incident of the pair.               *)
MergeIntoItself(d, keep, drop) ==
    [d EXCEPT !.alert = [a \in Alerts |->
                            IF d.alert[a].incident = drop
                            THEN [d.alert[a] EXCEPT !.incident = keep] ELSE d.alert[a]],
              !.link = Moved(@, keep, drop),
              !.rootLink = Moved(@, keep, drop),
              !.incident[drop] = [@ EXCEPT !.status = "MERGED", !.merged = drop]]

(* merge_incidents moves links and alerts and closes drop; keep's status    *)
(* and its root are left as they are.                                       *)
MergeIncidents(d, keep, drop) ==
    [d EXCEPT !.alert = [a \in Alerts |->
                            IF d.alert[a].incident = drop
                            THEN [d.alert[a] EXCEPT !.incident = keep] ELSE d.alert[a]],
              !.link = Moved(@, keep, drop),
              !.rootLink = Moved({p \in @ : p[1] = drop => <<keep, p[2]>> \notin d.link}, keep, drop),
              !.incident[drop] = [@ EXCEPT !.status = "MERGED", !.merged = keep]]

(* reconcile_incidents merges at most one pair: the earlier incident of the *)
(* two is kept, and whether a pair matches is up to the rules.              *)
Reconciled(d, i) ==
    LET others == {j \in OpenIncidents(d) \ {i} : Attached(d, j) # {}}
    IN  {d} \cup (IF Attached(d, i) = {} THEN {}
                  ELSE {MergeIncidents(d, j, i) : j \in others}
                         \cup {MergeIncidents(d, i, j) : j \in others})

(* Mutated: silence counts as recovery.                                     *)
RefreshedOnSilence(d, i) ==
    LET row == d.incident[i]
    IN  IF HasFiring(d, i)
        THEN IF row.status = "RECOVERING"
             THEN [row EXCEPT !.status = "OPEN", !.deadline = "none"] ELSE row
        ELSE IF row.status \in {"RESOLVED", "RECOVERING"} THEN row
        ELSE [row EXCEPT !.status = "RECOVERING", !.deadline = "ahead"]

(* Mutated: one recovery signal is enough, whatever still fires.            *)
RefreshedOnFirstSignal(d, i) ==
    LET row == d.incident[i]
    IN  IF HasExplicitRecovery(d, i) /\ row.status \notin {"RESOLVED", "RECOVERING"}
        THEN [row EXCEPT !.status = "RECOVERING", !.deadline = "ahead"] ELSE row

(* The row refresh_state leaves: what the alerts of incident i say of it.   *)
RefreshedRow(d, i) ==
    LET row == d.incident[i]
        reopened == IF row.status = "RECOVERING"
                    THEN [row EXCEPT !.status = "OPEN", !.deadline = "none"] ELSE row
    IN  IF HasFiring(d, i) THEN reopened
        ELSE IF row.status = "RESOLVED" THEN row
        ELSE IF ~HasExplicitRecovery(d, i) THEN reopened
        ELSE IF row.status = "RECOVERING" THEN row
        ELSE [row EXCEPT !.status = "RECOVERING", !.deadline = "ahead"]

RefreshStates(d, S) ==
    [d EXCEPT !.incident = [i \in Incidents |->
        IF i \in S THEN RefreshedRow(d, i) ELSE d.incident[i]]]

OwnersOf(d, S) == {i \in Incidents : \E a \in S : d.alert[a].incident = i}

(* detach_alert cuts the link by its primary key, wherever a merge may have *)
(* moved it since it was read, and does not refresh the incident.           *)
DetachAlert(d, a) ==
    LET cut == {p \in d.link : p[2] = a}
    IN  [d EXCEPT !.alert[a].incident = None,
                  !.link = @ \ cut,
                  !.rootLink = @ \ cut,
                  !.released = @ \cup cut]

-----------------------------------------------------------------------------
(* What a store must satisfy; IncidentLifecycle states these of every store *)
(* a connection can see.                                                   *)

(* alerts.incident_id and incident_alerts say the same: the lifecycle reads *)
(* one (refresh_state), cards and recovery checks read the other.           *)
OwnersAreLinked(d) ==
    \A i \in Incidents, a \in Alerts : <<i, a>> \in d.link <=> d.alert[a].incident = i

(* A merged incident has handed over every alert, to an incident that       *)
(* exists; queries that filter on merged_into thus miss no alert.           *)
MergedIsEmpty(d) ==
    \A i \in Incidents : d.incident[i].merged # None =>
        /\ Owned(d, i) = {}
        /\ d.incident[d.incident[i].merged].status # "absent"

(* Following merged_into from any incident ends: every set of incidents has *)
(* one that is merged, if at all, into an incident outside the set.         *)
MergesEnd(d) ==
    \A S \in SUBSET Incidents : S # {} => \E i \in S : d.incident[i].merged \notin S

(* A firing alert is on some existing incident unless an operator took it   *)
(* off one: no fault is silently lost between correlation, recurrence and   *)
(* merging.                                                                *)
FaultsAreTracked(d) ==
    \A a \in Firing(d) :
        \/ /\ d.alert[a].incident # None
           /\ d.incident[d.alert[a].incident].status # "absent"
        \/ \E i \in Incidents : <<i, a>> \in d.released

(* An alert gives a reason exactly when it has ended: what cards and         *)
(* refresh_state read of the way an alert ended was written with its end.   *)
EndedWithReason(d) ==
    \A a \in Alerts : d.alert[a].status = "RESOLVED" <=> d.alert[a].reason # "none"

(* At most one firing alert per fault (uq_alerts_active_fingerprint).       *)
OneFiringPerFault(d) ==
    \A a, b \in Firing(d) : d.alert[a].fingerprint = d.alert[b].fingerprint => a = b

(* An incident under recovery observation has, or had until an operator     *)
(* took it off, an alert its source declared recovered.                     *)
RecoveryHasSignal(d) ==
    \A i \in Incidents : d.incident[i].status = "RECOVERING" =>
        \E a \in Alerts : /\ d.alert[a].reason = "resolved"
                          /\ d.alert[a].incident = i \/ <<i, a>> \in d.released

(* The root an unmerged incident names is one of its own alerts, linked to  *)
(* it with relation ROOT, unless an operator took it off.                   *)
RootIsMarked(d) ==
    \A i \in Incidents, a \in Alerts :
        d.incident[i].merged = None /\ d.incident[i].root = a =>
            <<i, a>> \in d.rootLink \/ d.alert[a].incident = None

=============================================================================
