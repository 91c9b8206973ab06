----------------------------- MODULE AlertLedger -----------------------------
(***************************************************************************)
(* What the alarm centre promises of alerts and of the incidents that hold  *)
(* them, without threads, transactions or statuses of incidents.           *)
(* IncidentLifecycle implements it; one step here is one commit there.     *)
(*                                                                         *)
(* An alert is raised on an incident, ends once, and is held by one         *)
(* incident until an operator releases it.  Two incidents may turn out to   *)
(* be one; the one that is given up hands over what it holds and is never   *)
(* used again.                                                             *)
(***************************************************************************)

CONSTANTS
    Alerts,
    Incidents,
    Faults,
    None       \* no fault, no incident

VARIABLES
    state,     \* per alert: absent, FIRING, or how it ended
    fault,     \* per alert: what it reports
    holder,    \* per alert: the incident that holds it
    merged     \* per incident: the incident it was merged into

vars == <<state, fault, holder, merged>>

Init ==
    /\ state = [a \in Alerts |-> "absent"]
    /\ fault = [a \in Alerts |-> None]
    /\ holder = [a \in Alerts |-> None]
    /\ merged = [i \in Incidents |-> None]

Quiet(f) == \A b \in Alerts : state[b] = "FIRING" => fault[b] # f

(* keep takes over what drop holds, where h says who holds what.            *)
Merge(h, keep, drop) ==
    /\ keep # drop
    /\ merged[keep] = None
    /\ merged[drop] = None
    /\ holder' = [b \in Alerts |-> IF h[b] = drop THEN keep ELSE h[b]]
    /\ merged' = [merged EXCEPT ![drop] = keep]

(* A fault that does not fire yet is raised on an incident in use, which     *)
(* may be merged with another one at once.                                  *)
Raise(a, f, i) ==
    /\ state[a] = "absent"
    /\ Quiet(f)
    /\ merged[i] = None
    /\ state' = [state EXCEPT ![a] = "FIRING"]
    /\ fault' = [fault EXCEPT ![a] = f]
    /\ LET held == [holder EXCEPT ![a] = i]
       IN  \/ holder' = held /\ UNCHANGED merged
           \/ \E keep, drop \in Incidents : i \in {keep, drop} /\ Merge(held, keep, drop)

(* Some firing alerts end for one reason.                                   *)
End(S, why) ==
    /\ S # {}
    /\ \A a \in S : state[a] = "FIRING"
    /\ state' = [a \in Alerts |-> IF a \in S THEN why ELSE state[a]]
    /\ UNCHANGED <<fault, holder, merged>>

(* A source declares one fault recovered; silence ends any number.          *)
Recover(a) == End({a}, "resolved")

Expire(S) == End(S, "stale")

(* An operator takes an alert off the incident that holds it.               *)
Release(a) ==
    /\ holder[a] # None
    /\ holder' = [holder EXCEPT ![a] = None]
    /\ UNCHANGED <<state, fault, merged>>

Next ==
    \/ \E a \in Alerts, f \in Faults, i \in Incidents : Raise(a, f, i)
    \/ \E a \in Alerts : Recover(a) \/ Release(a)
    \/ \E S \in SUBSET Alerts : Expire(S)

Spec == Init /\ [][Next]_vars

-----------------------------------------------------------------------------
(* What follows for everybody who relies on the ledger.                     *)

EndsStand ==
    \A a \in Alerts : state[a] \in {"resolved", "stale"} =>
        state'[a] = state[a] /\ fault'[a] = fault[a]

MergesStand == \A i \in Incidents : merged[i] # None => merged'[i] = merged[i]

(* Taken off, taken over when its incident is given up, or new.              *)
MovesFollow ==
    \A a \in Alerts : \/ holder'[a] = holder[a]
                      \/ holder'[a] = None
                      \/ state[a] = "absent"
                      \/ holder[a] \in Incidents /\ merged'[holder[a]] = holder'[a]

(* An alert that has ended keeps its end and its fault: a fault that comes   *)
(* back is a new alert.                                                     *)
HistoryIsFinal == [][EndsStand]_vars

(* merged_into is written once.                                             *)
MergeIsFinal == [][MergesStand]_vars

(* From raising to release an alert moves only along a merge of the          *)
(* incident that holds it.                                                  *)
MovesAreMerges == [][MovesFollow]_vars

=============================================================================
