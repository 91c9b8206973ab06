----------------------- MODULE IncidentLifecycleProofs -----------------------
(***************************************************************************)
(* The safety invariants of IncidentLifecycle, for every number of alerts, *)
(* incidents, fingerprints and operators.                                  *)
(*                                                                         *)
(* The first part shows what each service function of IncidentStore        *)
(* preserves; in the second every action of a webhook, of the sweep and of  *)
(* an operator is reduced to those functions.                              *)
(***************************************************************************)
EXTENDS IncidentLifecycle, TLAPS

-----------------------------------------------------------------------------
(* The service functions.                                                  *)

(* An alert gives a reason exactly when it has ended, an unused alert row   *)
(* belongs to no incident and is nobody's root, and the incident an alert   *)
(* belongs to exists.                                                      *)
AlertRowsFit(d) ==
    /\ \A a \in Alerts : d.alert[a].status = "RESOLVED" <=> d.alert[a].reason # "none"
    /\ \A a \in Alerts : d.alert[a].status = "absent" => d.alert[a].incident = None
    /\ \A i \in Incidents : d.incident[i].root # None =>
            d.alert[d.incident[i].root].status # "absent"
    /\ \A a \in Alerts : d.alert[a].incident # None =>
            d.incident[d.alert[a].incident].status # "absent"

(* Everything but FaultsAreTracked, which correlation breaks between the    *)
(* creation of an alert and its attachment.                                 *)
Base(d) ==
    /\ d \in Store
    /\ AlertRowsFit(d)
    /\ OwnersAreLinked(d)
    /\ MergedIsEmpty(d)
    /\ MergesEnd(d)
    /\ OneFiringPerFault(d)
    /\ RecoveryHasSignal(d)
    /\ RootIsMarked(d)

Tracked(d, a) ==
    d.alert[a].incident # None \/ \E i \in Incidents : <<i, a>> \in d.released

StoreInv(d) == Base(d) /\ FaultsAreTracked(d)

-----------------------------------------------------------------------------
(* The fields of the store each function returns, and that it is a store.  *)

LEMMA StoreParts ==
    ASSUME NEW d \in Store
    PROVE  /\ \A a \in Alerts : d.alert[a] \in AlertRow
           /\ \A i \in Incidents : d.incident[i] \in IncidentRow
           /\ d.alert \in [Alerts -> AlertRow]
           /\ d.incident \in [Incidents -> IncidentRow]
           /\ d.link \in SUBSET (Incidents \X Alerts)
           /\ d.rootLink \in SUBSET (Incidents \X Alerts)
           /\ d.released \in SUBSET (Incidents \X Alerts)
  BY DEF Store

LEMMA StoreOf ==
    ASSUME NEW A \in [Alerts -> AlertRow], NEW I \in [Incidents -> IncidentRow],
           NEW L \in SUBSET (Incidents \X Alerts), NEW R \in SUBSET (Incidents \X Alerts),
           NEW F \in SUBSET (Incidents \X Alerts),
           NEW e, e = [alert |-> A, incident |-> I, link |-> L, rootLink |-> R, released |-> F]
    PROVE  /\ e \in Store
           /\ e.alert = A /\ e.incident = I
           /\ e.link = L /\ e.rootLink = R /\ e.released = F
  BY DEF Store

LEMMA CreateAlertFields ==
    ASSUME NEW d \in Store, NEW a \in Alerts, NEW f \in Fingerprints,
           NEW e, e = CreateAlert(d, a, f)
    PROVE  /\ e \in Store
           /\ e.alert[a].status = "FIRING" /\ e.alert[a].fingerprint = f
           /\ e.alert[a].reason = "none" /\ e.alert[a].incident = None
           /\ \A b \in Alerts : b # a => e.alert[b] = d.alert[b]
           /\ e.incident = d.incident /\ e.link = d.link
           /\ e.rootLink = d.rootLink /\ e.released = d.released
  <1> DEFINE new == [status |-> "FIRING", fingerprint |-> f, reason |-> "none", incident |-> None]
  <1>1. new \in AlertRow
    BY DEF AlertRow
  <1>2. e = [d EXCEPT !.alert[a] = new]
    BY DEF CreateAlert
  <1> HIDE DEF new
  <1>3. /\ e \in Store
        /\ e.alert[a] = new
        /\ \A b \in Alerts : b # a => e.alert[b] = d.alert[b]
        /\ e.incident = d.incident /\ e.link = d.link
        /\ e.rootLink = d.rootLink /\ e.released = d.released
    BY <1>1, <1>2 DEF Store
  <1> QED BY <1>3 DEF new

LEMMA ResolveAlertsFields ==
    ASSUME NEW d \in Store, NEW S \in SUBSET Alerts, NEW why \in {"resolved", "stale"},
           NEW e, e = ResolveAlerts(d, S, why)
    PROVE  /\ e \in Store
           /\ \A a \in Alerts :
                 /\ e.alert[a].incident = d.alert[a].incident
                 /\ e.alert[a].fingerprint = d.alert[a].fingerprint
                 /\ e.alert[a].status = IF a \in S THEN "RESOLVED" ELSE d.alert[a].status
                 /\ e.alert[a].reason = IF a \in S THEN why ELSE d.alert[a].reason
           /\ e.incident = d.incident /\ e.link = d.link
           /\ e.rootLink = d.rootLink /\ e.released = d.released
  <1> DEFINE row(a) == [d.alert[a] EXCEPT !.status = "RESOLVED", !.reason = why]
             rows == [a \in Alerts |-> IF a \in S THEN row(a) ELSE d.alert[a]]
  <1>1. ASSUME NEW a \in Alerts
        PROVE  /\ row(a) \in AlertRow
               /\ row(a).incident = d.alert[a].incident
               /\ row(a).fingerprint = d.alert[a].fingerprint
               /\ row(a).status = "RESOLVED" /\ row(a).reason = why
    <2>1. d.alert[a] \in AlertRow
      BY StoreParts
    <2> QED BY <2>1 DEF AlertRow
  <1>2. e = [d EXCEPT !.alert = rows]
    BY DEF ResolveAlerts
  <1> HIDE DEF row
  <1>3. rows \in [Alerts -> AlertRow]
    BY <1>1, StoreParts
  <1>4. \A a \in Alerts : rows[a] = IF a \in S THEN row(a) ELSE d.alert[a]
    OBVIOUS
  <1> HIDE DEF rows
  <1>5. /\ e \in Store
        /\ e.alert = rows
        /\ e.incident = d.incident /\ e.link = d.link
        /\ e.rootLink = d.rootLink /\ e.released = d.released
    BY <1>2, <1>3 DEF Store
  <1> QED BY <1>1, <1>4, <1>5

LEMMA ReopenedRow ==
    ASSUME NEW row \in IncidentRow
    PROVE  /\ Reopened(row) \in IncidentRow
           /\ Reopened(row).merged = row.merged
           /\ Reopened(row).root = row.root
           /\ Reopened(row).status # "RECOVERING"
           /\ row.status # "absent" => Reopened(row).status # "absent"
  BY DEF Reopened, IncidentRow, IncidentStatus, Deadlines

(* e is d with alert a on incident i, as its root if promote.                 *)
AlertAttached(d, i, a, promote, e) ==
    /\ e \in Store
    /\ e.alert[a].incident = i
    /\ e.alert[a].fingerprint = d.alert[a].fingerprint
    /\ e.alert[a].status = d.alert[a].status
    /\ e.alert[a].reason = d.alert[a].reason
    /\ \A b \in Alerts : b # a => e.alert[b] = d.alert[b]
    /\ e.incident[i].status # "RECOVERING"
    /\ d.incident[i].status # "absent" => e.incident[i].status # "absent"
    /\ e.incident[i].merged = d.incident[i].merged
    /\ e.incident[i].root = IF promote THEN a ELSE d.incident[i].root
    /\ \A j \in Incidents : j # i => e.incident[j] = d.incident[j]
    /\ e.link = d.link \cup {<<i, a>>}
    /\ e.rootLink = IF promote
                    THEN (d.rootLink \ {<<i, d.incident[i].root>>}) \cup {<<i, a>>}
                    ELSE d.rootLink
    /\ e.released = d.released

LEMMA AttachAlertFields ==
    ASSUME NEW d \in Store, NEW i \in Incidents, NEW a \in Alerts, NEW promote \in BOOLEAN,
           <<i, a>> \notin d.link,
           NEW e, e = AttachAlert(d, i, a, promote)
    PROVE  AlertAttached(d, i, a, promote, e)
  <1> DEFINE row == Reopened(d.incident[i])
             newRow == IF promote THEN [row EXCEPT !.root = a] ELSE row
             alertRow == [d.alert[a] EXCEPT !.incident = i]
             links == d.link \cup {<<i, a>>}
             roots == IF promote
                      THEN (d.rootLink \ {<<i, d.incident[i].root>>}) \cup {<<i, a>>}
                      ELSE d.rootLink
  <1>1. /\ row \in IncidentRow
        /\ row.merged = d.incident[i].merged
        /\ row.root = d.incident[i].root
        /\ row.status # "RECOVERING"
        /\ d.incident[i].status # "absent" => row.status # "absent"
    BY StoreParts, ReopenedRow
  <1> HIDE DEF row
  <1>2. /\ newRow \in IncidentRow
        /\ newRow.merged = d.incident[i].merged
        /\ newRow.root = IF promote THEN a ELSE d.incident[i].root
        /\ newRow.status # "RECOVERING"
        /\ d.incident[i].status # "absent" => newRow.status # "absent"
    BY <1>1 DEF IncidentRow
  <1>3. /\ alertRow \in AlertRow
        /\ alertRow.incident = i
        /\ alertRow.fingerprint = d.alert[a].fingerprint
        /\ alertRow.status = d.alert[a].status
        /\ alertRow.reason = d.alert[a].reason
    <2>1. d.alert[a] \in AlertRow
      BY StoreParts
    <2> QED BY <2>1 DEF AlertRow
  <1>4. links \in SUBSET (Incidents \X Alerts) /\ roots \in SUBSET (Incidents \X Alerts)
    BY StoreParts
  <1> DEFINE alerts == [d.alert EXCEPT ![a] = alertRow]
             incidents == [d.incident EXCEPT ![i] = newRow]
  <1>5. e = [alert |-> alerts, incident |-> incidents, link |-> links,
             rootLink |-> roots, released |-> d.released]
    BY DEF AttachAlert, row, Store
  <1> HIDE DEF newRow, alertRow, links, roots
  <1>6. /\ alerts \in [Alerts -> AlertRow]
        /\ alerts[a] = alertRow
        /\ \A b \in Alerts : b # a => alerts[b] = d.alert[b]
    BY <1>3, StoreParts
  <1>7. /\ incidents \in [Incidents -> IncidentRow]
        /\ incidents[i] = newRow
        /\ \A j \in Incidents : j # i => incidents[j] = d.incident[j]
    BY <1>2, StoreParts
  <1> HIDE DEF alerts, incidents
  <1>8. /\ e \in Store
        /\ e.alert = alerts /\ e.incident = incidents
        /\ e.link = links /\ e.rootLink = roots /\ e.released = d.released
    <2>1. d.released \in SUBSET (Incidents \X Alerts)
      BY StoreParts
    <2> QED BY <1>4, <1>5, <1>6, <1>7, <2>1, StoreOf
  <1> QED BY <1>2, <1>3, <1>6, <1>7, <1>8 DEF links, roots, AlertAttached

LEMMA MovedPairs ==
    ASSUME NEW P \in SUBSET (Incidents \X Alerts), NEW keep \in Incidents, NEW drop \in Incidents
    PROVE  /\ Moved(P, keep, drop) \in SUBSET (Incidents \X Alerts)
           /\ \A i \in Incidents, a \in Alerts :
                 <<i, a>> \in Moved(P, keep, drop)
                   <=> \/ i # drop /\ <<i, a>> \in P
                       \/ i = keep /\ <<drop, a>> \in P
  <1> DEFINE stay == {p \in P : p[1] # drop}
             go == {b \in Alerts : <<drop, b>> \in P}
             come == {<<keep, a>> : a \in go}
  <1>1. Moved(P, keep, drop) = stay \cup come
    BY DEF Moved
  <1>2. stay \in SUBSET (Incidents \X Alerts) /\ come \in SUBSET (Incidents \X Alerts)
    <2>1. stay \in SUBSET (Incidents \X Alerts)
      OBVIOUS
    <2>2. ASSUME NEW p \in come PROVE p \in Incidents \X Alerts
      <3>1. PICK a \in go : p = <<keep, a>>
        OBVIOUS
      <3> QED BY <3>1
    <2> QED BY <2>1, <2>2
  <1>3. ASSUME NEW i \in Incidents, NEW a \in Alerts
        PROVE  /\ <<i, a>> \in stay <=> i # drop /\ <<i, a>> \in P
               /\ <<i, a>> \in come <=> i = keep /\ <<drop, a>> \in P
    <2>1. <<i, a>> \in stay <=> i # drop /\ <<i, a>> \in P
      OBVIOUS
    <2>2. <<i, a>> \in come <=> \E b \in go : <<i, a>> = <<keep, b>>
      OBVIOUS
    <2>3. \A b \in go : <<i, a>> = <<keep, b>> <=> i = keep /\ a = b
      OBVIOUS
    <2> QED BY <2>1, <2>2, <2>3
  <1> HIDE DEF stay, come
  <1> QED BY <1>1, <1>2, <1>3

(* What merging drop into keep turns d into.                                *)
Merges(d, e, keep, drop) ==
    /\ e \in Store
    /\ \A a \in Alerts :
          /\ e.alert[a].incident = IF d.alert[a].incident = drop
                                   THEN keep ELSE d.alert[a].incident
          /\ e.alert[a].fingerprint = d.alert[a].fingerprint
          /\ e.alert[a].status = d.alert[a].status
          /\ e.alert[a].reason = d.alert[a].reason
    /\ e.incident[drop].status = "MERGED"
    /\ e.incident[drop].merged = keep
    /\ e.incident[drop].root = d.incident[drop].root
    /\ \A j \in Incidents : j # drop => e.incident[j] = d.incident[j]
    /\ \A i \in Incidents, a \in Alerts :
          <<i, a>> \in e.link
            <=> \/ i # drop /\ <<i, a>> \in d.link
                \/ i = keep /\ <<drop, a>> \in d.link
    /\ \A i \in Incidents, a \in Alerts :
          i # drop /\ <<i, a>> \in d.rootLink => <<i, a>> \in e.rootLink
    /\ e.released = d.released

LEMMA MergeIncidentsFields ==
    ASSUME NEW d \in Store, NEW keep \in Incidents, NEW drop \in Incidents,
           NEW e, e = MergeIncidents(d, keep, drop)
    PROVE  Merges(d, e, keep, drop)
  <1> DEFINE moved(a) == [d.alert[a] EXCEPT !.incident = keep]
             rows == [a \in Alerts |-> IF d.alert[a].incident = drop THEN moved(a) ELSE d.alert[a]]
             row == [d.incident[drop] EXCEPT !.status = "MERGED", !.merged = keep]
             kept == {p \in d.rootLink : p[1] = drop => <<keep, p[2]>> \notin d.link}
             links == Moved(d.link, keep, drop)
             roots == Moved(kept, keep, drop)
  <1>1. ASSUME NEW a \in Alerts
        PROVE  /\ moved(a) \in AlertRow
               /\ moved(a).incident = keep
               /\ moved(a).fingerprint = d.alert[a].fingerprint
               /\ moved(a).status = d.alert[a].status
               /\ moved(a).reason = d.alert[a].reason
    <2>1. d.alert[a] \in AlertRow
      BY StoreParts
    <2> QED BY <2>1 DEF AlertRow
  <1>2. rows \in [Alerts -> AlertRow]
    <2> HIDE DEF moved
    <2> QED BY <1>1, StoreParts
  <1>3. /\ row \in IncidentRow
        /\ row.status = "MERGED" /\ row.merged = keep /\ row.root = d.incident[drop].root
    <2>1. d.incident[drop] \in IncidentRow
      BY StoreParts
    <2> QED BY <2>1 DEF IncidentRow, IncidentStatus
  <1>4. kept \in SUBSET (Incidents \X Alerts)
    BY StoreParts
  <1>5. links \in SUBSET (Incidents \X Alerts) /\ roots \in SUBSET (Incidents \X Alerts)
    <2>1. d.link \in SUBSET (Incidents \X Alerts)
      BY StoreParts
    <2> HIDE DEF kept
    <2> QED BY <1>4, <2>1, MovedPairs
  <1>6. \A i \in Incidents, a \in Alerts :
            i # drop /\ <<i, a>> \in d.rootLink => <<i, a>> \in roots
    BY <1>4, MovedPairs
  <1> DEFINE incidents == [d.incident EXCEPT ![drop] = row]
  <1>7. e = [alert |-> rows, incident |-> incidents, link |-> links,
             rootLink |-> roots, released |-> d.released]
    BY DEF MergeIncidents, Store
  <1>8. \A a \in Alerts : rows[a] = IF d.alert[a].incident = drop THEN moved(a) ELSE d.alert[a]
    OBVIOUS
  <1> HIDE DEF moved, rows, row, kept, links, roots
  <1>9. /\ incidents \in [Incidents -> IncidentRow]
        /\ incidents[drop] = row
        /\ \A j \in Incidents : j # drop => incidents[j] = d.incident[j]
    BY <1>3, StoreParts
  <1> HIDE DEF incidents
  <1>10. /\ e \in Store
         /\ e.alert = rows /\ e.incident = incidents
         /\ e.link = links /\ e.rootLink = roots /\ e.released = d.released
    <2>1. d.released \in SUBSET (Incidents \X Alerts)
      BY StoreParts
    <2> QED BY <1>2, <1>5, <1>7, <1>9, <2>1, StoreOf
  <1>11. ASSUME NEW i \in Incidents, NEW a \in Alerts
         PROVE  <<i, a>> \in links
                  <=> \/ i # drop /\ <<i, a>> \in d.link
                      \/ i = keep /\ <<drop, a>> \in d.link
    <2>1. d.link \in SUBSET (Incidents \X Alerts)
      BY StoreParts
    <2> QED BY <2>1, MovedPairs DEF links
  <1>12. ASSUME NEW a \in Alerts
         PROVE  /\ e.alert[a].incident = IF d.alert[a].incident = drop
                                         THEN keep ELSE d.alert[a].incident
                /\ e.alert[a].fingerprint = d.alert[a].fingerprint
                /\ e.alert[a].status = d.alert[a].status
                /\ e.alert[a].reason = d.alert[a].reason
    BY <1>1, <1>8, <1>10
  <1> QED BY <1>3, <1>6, <1>9, <1>10, <1>11, <1>12 DEF Merges

LEMMA RefreshedRowFields ==
    ASSUME NEW d \in Store, NEW i \in Incidents
    PROVE  /\ RefreshedRow(d, i) \in IncidentRow
           /\ RefreshedRow(d, i).merged = d.incident[i].merged
           /\ RefreshedRow(d, i).root = d.incident[i].root
           /\ d.incident[i].status # "absent" => RefreshedRow(d, i).status # "absent"
           /\ RefreshedRow(d, i).status = "RECOVERING" =>
                 d.incident[i].status = "RECOVERING" \/ HasExplicitRecovery(d, i)
  <1>1. d.incident[i] \in IncidentRow
    BY StoreParts
  <1> QED BY <1>1 DEF RefreshedRow, IncidentRow, IncidentStatus, Deadlines

LEMMA RefreshStatesFields ==
    ASSUME NEW d \in Store, NEW S, NEW e, e = RefreshStates(d, S)
    PROVE  /\ e \in Store
           /\ \A i \in Incidents : e.incident[i] = d.incident[i]
                                  \/ e.incident[i] = RefreshedRow(d, i)
           /\ e.alert = d.alert /\ e.link = d.link
           /\ e.rootLink = d.rootLink /\ e.released = d.released
  <1> DEFINE rows == [i \in Incidents |-> IF i \in S THEN RefreshedRow(d, i) ELSE d.incident[i]]
  <1>1. rows \in [Incidents -> IncidentRow]
    BY StoreParts, RefreshedRowFields
  <1>2. e = [d EXCEPT !.incident = rows]
    BY DEF RefreshStates
  <1>3. \A i \in Incidents : rows[i] = d.incident[i] \/ rows[i] = RefreshedRow(d, i)
    OBVIOUS
  <1> HIDE DEF rows
  <1> QED BY <1>1, <1>2, <1>3 DEF Store

LEMMA DetachAlertFields ==
    ASSUME NEW d \in Store, NEW a \in Alerts, NEW e, e = DetachAlert(d, a)
    PROVE  /\ e \in Store
           /\ e.alert[a].incident = None
           /\ e.alert[a].fingerprint = d.alert[a].fingerprint
           /\ e.alert[a].status = d.alert[a].status
           /\ e.alert[a].reason = d.alert[a].reason
           /\ \A b \in Alerts : b # a => e.alert[b] = d.alert[b]
           /\ e.incident = d.incident
           /\ \A i \in Incidents, b \in Alerts :
                 /\ <<i, b>> \in e.link <=> <<i, b>> \in d.link /\ b # a
                 /\ <<i, b>> \in d.rootLink /\ b # a => <<i, b>> \in e.rootLink
                 /\ <<i, b>> \in e.released <=>
                       <<i, b>> \in d.released \/ (b = a /\ <<i, b>> \in d.link)
  <1> DEFINE cut == {p \in d.link : p[2] = a}
             alertRow == [d.alert[a] EXCEPT !.incident = None]
             links == d.link \ cut
             roots == d.rootLink \ cut
             freed == d.released \cup cut
  <1>1. /\ alertRow \in AlertRow
        /\ alertRow.incident = None
        /\ alertRow.fingerprint = d.alert[a].fingerprint
        /\ alertRow.status = d.alert[a].status
        /\ alertRow.reason = d.alert[a].reason
    <2>1. d.alert[a] \in AlertRow
      BY StoreParts
    <2> QED BY <2>1 DEF AlertRow
  <1>2. /\ links \in SUBSET (Incidents \X Alerts)
        /\ roots \in SUBSET (Incidents \X Alerts)
        /\ freed \in SUBSET (Incidents \X Alerts)
    BY StoreParts
  <1>3. \A i \in Incidents, b \in Alerts :
            /\ <<i, b>> \in links <=> <<i, b>> \in d.link /\ b # a
            /\ <<i, b>> \in d.rootLink /\ b # a => <<i, b>> \in roots
            /\ <<i, b>> \in freed <=>
                  <<i, b>> \in d.released \/ (b = a /\ <<i, b>> \in d.link)
    OBVIOUS
  <1> DEFINE alerts == [d.alert EXCEPT ![a] = alertRow]
  <1>4. e = [alert |-> alerts, incident |-> d.incident, link |-> links,
             rootLink |-> roots, released |-> freed]
    BY DEF DetachAlert, Store
  <1> HIDE DEF cut, alertRow, links, roots, freed
  <1>5. /\ alerts \in [Alerts -> AlertRow]
        /\ alerts[a] = alertRow
        /\ \A b \in Alerts : b # a => alerts[b] = d.alert[b]
    BY <1>1, StoreParts
  <1> HIDE DEF alerts
  <1>6. /\ e \in Store
        /\ e.alert = alerts /\ e.incident = d.incident
        /\ e.link = links /\ e.rootLink = roots /\ e.released = freed
    <2>1. d.incident \in [Incidents -> IncidentRow]
      BY StoreParts
    <2>2. alerts \in [Alerts -> AlertRow]
      BY <1>5
    <2> QED BY <1>2, <1>4, <2>1, <2>2 DEF Store
  <1> QED BY <1>1, <1>3, <1>5, <1>6

-----------------------------------------------------------------------------
(* What each function preserves.                                           *)

(* With the incident rows in place, tracking is about the alerts alone.     *)
LEMMA TrackedIsFaultsTracked ==
    ASSUME NEW d, Base(d)
    PROVE  FaultsAreTracked(d) <=> \A a \in Firing(d) : Tracked(d, a)
  BY DEF Base, AlertRowsFit, FaultsAreTracked, Tracked, Firing

(* Incident rows may change status and deadline, and enter observation only *)
(* with a recovery signal.                                                 *)
LEMMA RowsChange ==
    ASSUME NEW d, StoreInv(d), NEW e \in Store,
           e.alert = d.alert, e.link = d.link,
           e.rootLink = d.rootLink, e.released = d.released,
           \A i \in Incidents :
              /\ e.incident[i].merged = d.incident[i].merged
              /\ e.incident[i].root = d.incident[i].root
              /\ d.incident[i].status # "absent" => e.incident[i].status # "absent"
              /\ e.incident[i].status = "RECOVERING" =>
                    d.incident[i].status = "RECOVERING" \/ HasExplicitRecovery(d, i)
    PROVE  StoreInv(e)
  <1>1. /\ AlertRowsFit(d) /\ OwnersAreLinked(d) /\ MergedIsEmpty(d) /\ MergesEnd(d)
        /\ OneFiringPerFault(d) /\ RecoveryHasSignal(d) /\ RootIsMarked(d)
        /\ FaultsAreTracked(d) /\ d \in Store
    BY DEF StoreInv, Base
  <1>2. /\ \A i \in Incidents : d.incident[i].merged \in Incidents \cup {None}
        /\ \A i \in Incidents : d.incident[i].root \in Alerts \cup {None}
        /\ \A a \in Alerts : d.alert[a].incident \in Incidents \cup {None}
    BY <1>1, StoreParts DEF AlertRow, IncidentRow
  <1>3. AlertRowsFit(e)
    BY <1>1, <1>2 DEF AlertRowsFit
  <1>4. OwnersAreLinked(e)
    <2> SUFFICES ASSUME NEW i \in Incidents, NEW a \in Alerts
                 PROVE  <<i, a>> \in e.link <=> e.alert[a].incident = i
      BY DEF OwnersAreLinked
    <2>1. <<i, a>> \in d.link <=> d.alert[a].incident = i
      BY <1>1 DEF OwnersAreLinked
    <2> QED BY <2>1
  <1>5. MergedIsEmpty(e)
    BY <1>1, <1>2 DEF MergedIsEmpty, Owned
  <1>6. MergesEnd(e)
    BY <1>1 DEF MergesEnd
  <1>7. OneFiringPerFault(e)
    BY <1>1 DEF OneFiringPerFault, Firing
  <1>8. RecoveryHasSignal(e)
    BY <1>1 DEF RecoveryHasSignal, HasExplicitRecovery, Owned
  <1>9. RootIsMarked(e)
    BY <1>1 DEF RootIsMarked
  <1>10. FaultsAreTracked(e)
    BY <1>1, <1>2 DEF FaultsAreTracked, Firing
  <1> QED BY <1>3, <1>4, <1>5, <1>6, <1>7, <1>8, <1>9, <1>10 DEF StoreInv, Base

LEMMA RowChanges ==
    ASSUME NEW d, StoreInv(d), NEW i \in Incidents, NEW row \in IncidentRow,
           row.merged = d.incident[i].merged,
           row.root = d.incident[i].root,
           d.incident[i].status # "absent" => row.status # "absent",
           row.status = "RECOVERING" => d.incident[i].status = "RECOVERING",
           NEW e, e = [d EXCEPT !.incident[i] = row]
    PROVE  StoreInv(e)
  <1>1. d \in Store
    BY DEF StoreInv, Base
  <1>2. /\ e \in Store
        /\ e.incident[i] = row
        /\ \A j \in Incidents : j # i => e.incident[j] = d.incident[j]
        /\ e.alert = d.alert /\ e.link = d.link
        /\ e.rootLink = d.rootLink /\ e.released = d.released
    BY <1>1 DEF Store
  <1>3. ASSUME NEW j \in Incidents
        PROVE  /\ e.incident[j].merged = d.incident[j].merged
               /\ e.incident[j].root = d.incident[j].root
               /\ d.incident[j].status # "absent" => e.incident[j].status # "absent"
               /\ e.incident[j].status = "RECOVERING" => d.incident[j].status = "RECOVERING"
    BY <1>2
  <1> QED BY <1>2, <1>3, RowsChange

LEMMA RefreshStatesPreserves ==
    ASSUME NEW d, StoreInv(d), NEW S
    PROVE  StoreInv(RefreshStates(d, S))
  <1> DEFINE e == RefreshStates(d, S)
  <1>1. d \in Store
    BY DEF StoreInv, Base
  <1>2. /\ e \in Store
        /\ \A i \in Incidents : e.incident[i] = d.incident[i]
                               \/ e.incident[i] = RefreshedRow(d, i)
        /\ e.alert = d.alert /\ e.link = d.link
        /\ e.rootLink = d.rootLink /\ e.released = d.released
    BY <1>1, RefreshStatesFields
  <1> HIDE DEF e
  <1>3. \A i \in Incidents :
              /\ e.incident[i].merged = d.incident[i].merged
              /\ e.incident[i].root = d.incident[i].root
              /\ d.incident[i].status # "absent" => e.incident[i].status # "absent"
              /\ e.incident[i].status = "RECOVERING" =>
                    d.incident[i].status = "RECOVERING" \/ HasExplicitRecovery(d, i)
    BY <1>1, <1>2, RefreshedRowFields
  <1>4. StoreInv(e)
    BY <1>2, <1>3, RowsChange
  <1> QED BY <1>4 DEF e

LEMMA ResolveAlertsPreserves ==
    ASSUME NEW d, StoreInv(d), NEW S, S \subseteq Firing(d), NEW why \in {"resolved", "stale"}
    PROVE  StoreInv(ResolveAlerts(d, S, why))
  <1> DEFINE e == ResolveAlerts(d, S, why)
  <1>1. /\ AlertRowsFit(d) /\ OwnersAreLinked(d) /\ MergedIsEmpty(d) /\ MergesEnd(d)
        /\ OneFiringPerFault(d) /\ RecoveryHasSignal(d) /\ RootIsMarked(d)
        /\ FaultsAreTracked(d) /\ d \in Store /\ S \in SUBSET Alerts
    BY DEF StoreInv, Base, Firing
  <1>2. /\ e \in Store
        /\ e.incident = d.incident /\ e.link = d.link
        /\ e.rootLink = d.rootLink /\ e.released = d.released
    BY <1>1, ResolveAlertsFields
  <1> HIDE DEF e
  <1>3. /\ \A i \in Incidents : d.incident[i].root \in Alerts \cup {None}
        /\ \A a \in Alerts : d.alert[a].incident \in Incidents \cup {None}
    BY <1>1, StoreParts DEF IncidentRow, AlertRow
  <1>4. ASSUME NEW a \in Alerts
        PROVE  /\ e.alert[a].incident = d.alert[a].incident
               /\ e.alert[a].fingerprint = d.alert[a].fingerprint
               /\ e.alert[a].status = IF a \in S THEN "RESOLVED" ELSE d.alert[a].status
               /\ e.alert[a].reason = IF a \in S THEN why ELSE d.alert[a].reason
    <2> HIDE DEF e
    <2> QED BY <1>1, ResolveAlertsFields DEF e
  <1>5. \A a \in S : d.alert[a].status = "FIRING" /\ d.alert[a].reason = "none"
    BY <1>1 DEF Firing, AlertRowsFit
  <1>6. AlertRowsFit(e)
    BY <1>1, <1>2, <1>3, <1>4, <1>5 DEF AlertRowsFit
  <1>7. OwnersAreLinked(e)
    BY <1>1, <1>2, <1>4 DEF OwnersAreLinked
  <1>8. MergedIsEmpty(e)
    BY <1>1, <1>2, <1>4 DEF MergedIsEmpty, Owned
  <1>9. MergesEnd(e)
    BY <1>1, <1>2 DEF MergesEnd
  <1>10. OneFiringPerFault(e)
    BY <1>1, <1>4 DEF OneFiringPerFault, Firing
  <1>11. RecoveryHasSignal(e)
    BY <1>1, <1>2, <1>4, <1>5 DEF RecoveryHasSignal
  <1>12. RootIsMarked(e)
    BY <1>1, <1>2, <1>4 DEF RootIsMarked
  <1>13. FaultsAreTracked(e)
    BY <1>1, <1>2, <1>4 DEF FaultsAreTracked, Firing
  <1>14. StoreInv(e)
    BY <1>2, <1>6, <1>7, <1>8, <1>9, <1>10, <1>11, <1>12, <1>13 DEF StoreInv, Base
  <1> QED BY <1>14 DEF e

LEMMA DetachAlertPreserves ==
    ASSUME NEW d, StoreInv(d), NEW a \in Alerts
    PROVE  StoreInv(DetachAlert(d, a))
  <1> DEFINE e == DetachAlert(d, a)
  <1>1. /\ AlertRowsFit(d) /\ OwnersAreLinked(d) /\ MergedIsEmpty(d) /\ MergesEnd(d)
        /\ OneFiringPerFault(d) /\ RecoveryHasSignal(d) /\ RootIsMarked(d)
        /\ FaultsAreTracked(d) /\ d \in Store
    BY DEF StoreInv, Base
  <1>2. /\ \A i \in Incidents : d.incident[i].root \in Alerts \cup {None}
        /\ \A b \in Alerts : d.alert[b].incident \in Incidents \cup {None}
    BY <1>1, StoreParts DEF IncidentRow, AlertRow
  <1>3. e \in Store /\ e.incident = d.incident
    BY <1>1, DetachAlertFields
  <1>4. ASSUME NEW b \in Alerts
        PROVE  /\ e.alert[b].incident = IF b = a THEN None ELSE d.alert[b].incident
               /\ e.alert[b].fingerprint = d.alert[b].fingerprint
               /\ e.alert[b].status = d.alert[b].status
               /\ e.alert[b].reason = d.alert[b].reason
    BY <1>1, DetachAlertFields
  <1>5. ASSUME NEW i \in Incidents, NEW b \in Alerts
        PROVE  /\ <<i, b>> \in e.link <=> <<i, b>> \in d.link /\ b # a
               /\ <<i, b>> \in d.rootLink /\ b # a => <<i, b>> \in e.rootLink
               /\ <<i, b>> \in e.released <=>
                     <<i, b>> \in d.released \/ (b = a /\ d.alert[b].incident = i)
    <2>1. <<i, b>> \in d.link <=> d.alert[b].incident = i
      BY <1>1 DEF OwnersAreLinked
    <2> QED BY <1>1, <2>1, DetachAlertFields
  <1> HIDE DEF e
  <1>6. AlertRowsFit(e)
    BY <1>1, <1>2, <1>3, <1>4 DEF AlertRowsFit
  <1>7. OwnersAreLinked(e)
    <2> SUFFICES ASSUME NEW i \in Incidents, NEW b \in Alerts
                 PROVE  <<i, b>> \in e.link <=> e.alert[b].incident = i
      BY DEF OwnersAreLinked
    <2>1. <<i, b>> \in d.link <=> d.alert[b].incident = i
      BY <1>1 DEF OwnersAreLinked
    <2> QED BY <1>4, <1>5, <2>1, NoneAssumption
  <1>8. MergedIsEmpty(e)
    BY <1>1, <1>3, <1>4, NoneAssumption DEF MergedIsEmpty, Owned
  <1>9. MergesEnd(e)
    BY <1>1, <1>3 DEF MergesEnd
  <1>10. OneFiringPerFault(e)
    BY <1>1, <1>4 DEF OneFiringPerFault, Firing
  <1>11. RecoveryHasSignal(e)
    <2> SUFFICES ASSUME NEW i \in Incidents, e.incident[i].status = "RECOVERING"
                 PROVE  \E b \in Alerts :
                            /\ e.alert[b].reason = "resolved"
                            /\ e.alert[b].incident = i \/ <<i, b>> \in e.released
      BY DEF RecoveryHasSignal
    <2>1. PICK b \in Alerts :
                /\ d.alert[b].reason = "resolved"
                /\ d.alert[b].incident = i \/ <<i, b>> \in d.released
      BY <1>1, <1>3 DEF RecoveryHasSignal
    <2>2. e.alert[b].reason = "resolved"
      BY <1>4, <2>1
    <2>3. e.alert[b].incident = i \/ <<i, b>> \in e.released
      BY <1>4, <1>5, <2>1
    <2> QED BY <2>2, <2>3
  <1>12. RootIsMarked(e)
    BY <1>1, <1>3, <1>4, <1>5 DEF RootIsMarked
  <1>13. FaultsAreTracked(e)
    <2> SUFFICES ASSUME NEW b \in Firing(e)
                 PROVE  \/ /\ e.alert[b].incident # None
                           /\ e.incident[e.alert[b].incident].status # "absent"
                        \/ \E i \in Incidents : <<i, b>> \in e.released
      BY DEF FaultsAreTracked
    <2>1. b \in Alerts /\ b \in Firing(d)
      BY <1>4 DEF Firing
    <2>2. CASE \E i \in Incidents : <<i, b>> \in d.released
      BY <1>5, <2>1, <2>2
    <2>3. CASE d.alert[b].incident # None
      <3>1. d.alert[b].incident \in Incidents
        BY <1>2, <2>1, <2>3
      <3>2. CASE b = a
        BY <1>5, <2>1, <3>1, <3>2
      <3>3. CASE b # a
        <4>1. d.incident[d.alert[b].incident].status # "absent"
          BY <1>1, <2>1, <2>3 DEF AlertRowsFit
        <4>2. e.alert[b].incident = d.alert[b].incident
          BY <1>4, <2>1, <3>3
        <4> QED BY <1>3, <2>3, <4>1, <4>2
      <3> QED BY <3>2, <3>3
    <2> QED BY <1>1, <2>1, <2>2, <2>3 DEF FaultsAreTracked
  <1>14. StoreInv(e)
    BY <1>3, <1>6, <1>7, <1>8, <1>9, <1>10, <1>11, <1>12, <1>13 DEF StoreInv, Base
  <1> QED BY <1>14 DEF e

LEMMA MergeIncidentsPreserves ==
    ASSUME NEW d, StoreInv(d), NEW keep \in Incidents, NEW drop \in Incidents, keep # drop,
           d.incident[keep].merged = None, d.incident[drop].merged = None,
           d.incident[keep].status # "absent"
    PROVE  StoreInv(MergeIncidents(d, keep, drop))
  <1> SUFFICES ASSUME NEW e, e = MergeIncidents(d, keep, drop)
               PROVE  StoreInv(e)
    OBVIOUS
  <1>1. /\ AlertRowsFit(d) /\ OwnersAreLinked(d) /\ MergedIsEmpty(d) /\ MergesEnd(d)
        /\ OneFiringPerFault(d) /\ RecoveryHasSignal(d) /\ RootIsMarked(d)
        /\ FaultsAreTracked(d) /\ d \in Store
    BY DEF StoreInv, Base
  <1>2. /\ \A i \in Incidents : d.incident[i].root \in Alerts \cup {None}
        /\ \A i \in Incidents : d.incident[i].merged \in Incidents \cup {None}
        /\ \A a \in Alerts : d.alert[a].incident \in Incidents \cup {None}
    BY <1>1, StoreParts DEF IncidentRow, AlertRow
  <1>3. /\ e \in Store
        /\ \A a \in Alerts :
              /\ e.alert[a].incident = IF d.alert[a].incident = drop
                                       THEN keep ELSE d.alert[a].incident
              /\ e.alert[a].fingerprint = d.alert[a].fingerprint
              /\ e.alert[a].status = d.alert[a].status
              /\ e.alert[a].reason = d.alert[a].reason
        /\ e.incident[drop].status = "MERGED"
        /\ e.incident[drop].merged = keep
        /\ e.incident[drop].root = d.incident[drop].root
        /\ \A j \in Incidents : j # drop => e.incident[j] = d.incident[j]
        /\ \A i \in Incidents, a \in Alerts :
              <<i, a>> \in e.link
                <=> \/ i # drop /\ <<i, a>> \in d.link
                    \/ i = keep /\ <<drop, a>> \in d.link
        /\ \A i \in Incidents, a \in Alerts :
              i # drop /\ <<i, a>> \in d.rootLink => <<i, a>> \in e.rootLink
        /\ e.released = d.released
    <2>1. Merges(d, e, keep, drop)
      BY <1>1, MergeIncidentsFields
    <2> QED BY <2>1, Zenon DEF Merges
  <1>4. ASSUME NEW a \in Alerts
        PROVE  /\ e.alert[a].incident = IF d.alert[a].incident = drop
                                        THEN keep ELSE d.alert[a].incident
               /\ e.alert[a].fingerprint = d.alert[a].fingerprint
               /\ e.alert[a].status = d.alert[a].status
               /\ e.alert[a].reason = d.alert[a].reason
    BY <1>3
  <1>5. ASSUME NEW i \in Incidents, NEW a \in Alerts
        PROVE  /\ <<i, a>> \in e.link
                    <=> \/ i # drop /\ d.alert[a].incident = i
                        \/ i = keep /\ d.alert[a].incident = drop
               /\ i # drop /\ <<i, a>> \in d.rootLink => <<i, a>> \in e.rootLink
    <2>1. /\ <<i, a>> \in d.link <=> d.alert[a].incident = i
          /\ <<drop, a>> \in d.link <=> d.alert[a].incident = drop
      BY <1>1 DEF OwnersAreLinked
    <2> QED BY <1>3, <2>1
  <1>6. AlertRowsFit(e)
    <2>1. ASSUME NEW a \in Alerts
          PROVE  /\ e.alert[a].status = "RESOLVED" <=> e.alert[a].reason # "none"
                 /\ e.alert[a].status = "absent" => e.alert[a].incident = None
      BY <1>1, <1>4, NoneAssumption DEF AlertRowsFit
    <2>2. ASSUME NEW i \in Incidents, e.incident[i].root # None
          PROVE  e.alert[e.incident[i].root].status # "absent"
      <3>1. e.incident[i].root = d.incident[i].root /\ d.incident[i].root \in Alerts
        BY <1>2, <1>3, <2>2
      <3> QED BY <1>1, <1>4, <2>2, <3>1 DEF AlertRowsFit
    <2>3. ASSUME NEW a \in Alerts, e.alert[a].incident # None
          PROVE  e.incident[e.alert[a].incident].status # "absent"
      <3>1. CASE d.alert[a].incident = drop
        BY <1>3, <1>4, <3>1
      <3>2. CASE d.alert[a].incident # drop
        BY <1>1, <1>2, <1>3, <1>4, <2>3, <3>2 DEF AlertRowsFit
      <3> QED BY <3>1, <3>2
    <2> QED BY <2>1, <2>2, <2>3 DEF AlertRowsFit
  <1>7. OwnersAreLinked(e)
    <2> SUFFICES ASSUME NEW i \in Incidents, NEW a \in Alerts
                 PROVE  <<i, a>> \in e.link <=> e.alert[a].incident = i
      BY DEF OwnersAreLinked
    <2>1. <<i, a>> \in e.link
            <=> \/ i # drop /\ d.alert[a].incident = i
                \/ i = keep /\ d.alert[a].incident = drop
      BY <1>5
    <2> QED BY <1>4, <2>1
  <1>8. MergedIsEmpty(e)
    BY <1>1, <1>2, <1>3, <1>4 DEF MergedIsEmpty, Owned
  <1>9. MergesEnd(e)
    <2> SUFFICES ASSUME NEW S \in SUBSET Incidents, S # {}
                 PROVE  \E i \in S : e.incident[i].merged \notin S
      BY DEF MergesEnd
    <2>1. CASE keep \in S
      BY <1>3, <2>1, NoneAssumption
    <2>2. CASE keep \notin S
      <3>1. PICK i \in S : d.incident[i].merged \notin S
        BY <1>1 DEF MergesEnd
      <3> QED BY <1>3, <2>2, <3>1
    <2> QED BY <2>1, <2>2
  <1>10. OneFiringPerFault(e)
    BY <1>1, <1>4 DEF OneFiringPerFault, Firing
  <1>11. RecoveryHasSignal(e)
    <2> SUFFICES ASSUME NEW j \in Incidents, e.incident[j].status = "RECOVERING"
                 PROVE  \E b \in Alerts :
                            /\ e.alert[b].reason = "resolved"
                            /\ e.alert[b].incident = j \/ <<j, b>> \in e.released
      BY DEF RecoveryHasSignal
    <2>1. j # drop /\ d.incident[j].status = "RECOVERING"
      BY <1>3
    <2>2. PICK b \in Alerts :
                /\ d.alert[b].reason = "resolved"
                /\ d.alert[b].incident = j \/ <<j, b>> \in d.released
      BY <1>1, <2>1 DEF RecoveryHasSignal
    <2> QED BY <1>3, <1>4, <2>1, <2>2
  <1>12. RootIsMarked(e)
    BY <1>1, <1>2, <1>3, <1>4, <1>5, NoneAssumption DEF RootIsMarked
  <1>13. FaultsAreTracked(e)
    <2> SUFFICES ASSUME NEW a \in Firing(e)
                 PROVE  \/ /\ e.alert[a].incident # None
                           /\ e.incident[e.alert[a].incident].status # "absent"
                        \/ \E i \in Incidents : <<i, a>> \in e.released
      BY DEF FaultsAreTracked
    <2>1. a \in Firing(d) /\ a \in Alerts
      BY <1>4 DEF Firing
    <2> QED BY <1>1, <1>2, <1>3, <1>4, <2>1, NoneAssumption DEF FaultsAreTracked
  <1> QED
    BY <1>3, <1>6, <1>7, <1>8, <1>9, <1>10, <1>11, <1>12, <1>13 DEF StoreInv, Base

-----------------------------------------------------------------------------
(* Correlation of a new alert a: between its creation and its attachment    *)
(* everything holds but that a is tracked.                                  *)

Correlating(d, a) ==
    /\ Base(d)
    /\ \A b \in Firing(d) : b # a => Tracked(d, b)
    /\ d.alert[a].status = "FIRING" /\ d.alert[a].incident = None

LEMMA CreateAlertCorrelates ==
    ASSUME NEW d, StoreInv(d), NEW a \in FreshAlerts(d), NEW f \in Fingerprints,
           FindFiring(d, f) = {}
    PROVE  /\ Correlating(CreateAlert(d, a, f), a)
           /\ \A i \in Incidents : CreateAlert(d, a, f).incident[i].root # a
  <1> DEFINE e == CreateAlert(d, a, f)
  <1>1. /\ AlertRowsFit(d) /\ OwnersAreLinked(d) /\ MergedIsEmpty(d) /\ MergesEnd(d)
        /\ OneFiringPerFault(d) /\ RecoveryHasSignal(d) /\ RootIsMarked(d)
        /\ FaultsAreTracked(d) /\ d \in Store
    BY DEF StoreInv, Base
  <1>2. /\ a \in Alerts /\ d.alert[a].status = "absent"
        /\ d.alert[a].incident = None /\ d.alert[a].reason = "none"
    BY <1>1 DEF FreshAlerts, AlertRowsFit
  <1>3. \A i \in Incidents : d.incident[i].root \in Alerts \cup {None}
    BY <1>1, StoreParts DEF IncidentRow
  <1>4. /\ e \in Store
        /\ e.incident = d.incident /\ e.link = d.link
        /\ e.rootLink = d.rootLink /\ e.released = d.released
    BY <1>1, <1>2, CreateAlertFields
  <1>5. /\ e.alert[a].status = "FIRING" /\ e.alert[a].fingerprint = f
        /\ e.alert[a].reason = "none" /\ e.alert[a].incident = None
        /\ \A b \in Alerts : b # a => e.alert[b] = d.alert[b]
    BY <1>1, <1>2, CreateAlertFields
  <1> HIDE DEF e
  <1>6. \A i \in Incidents : d.incident[i].root # a
    BY <1>1, <1>2, NoneAssumption DEF AlertRowsFit
  <1>7. AlertRowsFit(e)
    BY <1>1, <1>2, <1>3, <1>4, <1>5, <1>6 DEF AlertRowsFit
  <1>8. OwnersAreLinked(e)
    <2> SUFFICES ASSUME NEW i \in Incidents, NEW b \in Alerts
                 PROVE  <<i, b>> \in e.link <=> e.alert[b].incident = i
      BY DEF OwnersAreLinked
    <2>1. <<i, b>> \in d.link <=> d.alert[b].incident = i
      BY <1>1 DEF OwnersAreLinked
    <2>2. e.alert[b].incident = d.alert[b].incident
      BY <1>2, <1>5
    <2> QED BY <1>4, <2>1, <2>2
  <1>9. MergedIsEmpty(e)
    BY <1>1, <1>2, <1>4, <1>5 DEF MergedIsEmpty, Owned
  <1>10. MergesEnd(e)
    BY <1>1, <1>4 DEF MergesEnd
  <1>11. OneFiringPerFault(e)
    BY <1>1, <1>2, <1>5 DEF OneFiringPerFault, Firing, FindFiring
  <1>12. RecoveryHasSignal(e)
    BY <1>1, <1>2, <1>4, <1>5 DEF RecoveryHasSignal
  <1>13. RootIsMarked(e)
    BY <1>1, <1>2, <1>4, <1>5 DEF RootIsMarked
  <1>14. \A b \in Firing(e) : b # a => Tracked(e, b)
    BY <1>1, <1>2, <1>4, <1>5 DEF FaultsAreTracked, Tracked, Firing
  <1>15. Correlating(e, a)
    BY <1>4, <1>5, <1>7, <1>8, <1>9, <1>10, <1>11, <1>12, <1>13, <1>14 DEF Base, Correlating
  <1> QED BY <1>4, <1>6, <1>15 DEF e

LEMMA NewIncidentCorrelates ==
    ASSUME NEW d, NEW a \in Alerts, Correlating(d, a), NEW i \in FreshIncidents(d),
           NEW e, e = InsertIncident(d, i, a)
    PROVE  /\ Correlating(e, a)
           /\ e.incident[i].status # "absent" /\ e.incident[i].merged = None
           /\ e.incident[i].root = a
           /\ \A j \in Incidents : j # i => e.incident[j] = d.incident[j]
  <1>1. /\ AlertRowsFit(d) /\ OwnersAreLinked(d) /\ MergedIsEmpty(d) /\ MergesEnd(d)
        /\ OneFiringPerFault(d) /\ RecoveryHasSignal(d) /\ RootIsMarked(d)
        /\ d \in Store
        /\ d.alert[a].status = "FIRING" /\ d.alert[a].incident = None
        /\ \A b \in Firing(d) : b # a => Tracked(d, b)
    BY DEF Correlating, Base
  <1>2. i \in Incidents /\ d.incident[i].status = "absent"
    BY DEF FreshIncidents
  <1>3. /\ \A j \in Incidents : d.incident[j].root \in Alerts \cup {None}
        /\ \A j \in Incidents : d.incident[j].merged \in Incidents \cup {None}
        /\ \A b \in Alerts : d.alert[b].incident \in Incidents \cup {None}
    BY <1>1, StoreParts DEF IncidentRow, AlertRow
  <1> DEFINE row == NewIncident(a)
  <1>4. /\ row \in IncidentRow
        /\ row.status = "OPEN" /\ row.merged = None /\ row.root = a
    BY DEF NewIncident, AbsentIncident, IncidentRow, IncidentStatus, Deadlines, ProbeResults
  <1> HIDE DEF row
  <1>5. /\ e \in Store
        /\ e.incident[i] = row
        /\ \A j \in Incidents : j # i => e.incident[j] = d.incident[j]
        /\ e.alert = d.alert /\ e.link = d.link
        /\ e.rootLink = d.rootLink /\ e.released = d.released
    BY <1>1, <1>2, <1>4 DEF Store, InsertIncident, row
  <1>6. AlertRowsFit(e)
    BY <1>1, <1>3, <1>4, <1>5 DEF AlertRowsFit
  <1>7. OwnersAreLinked(e)
    <2> SUFFICES ASSUME NEW j \in Incidents, NEW b \in Alerts
                 PROVE  <<j, b>> \in e.link <=> e.alert[b].incident = j
      BY DEF OwnersAreLinked
    <2>1. <<j, b>> \in d.link <=> d.alert[b].incident = j
      BY <1>1 DEF OwnersAreLinked
    <2> QED BY <1>5, <2>1
  <1>8. MergedIsEmpty(e)
    BY <1>1, <1>3, <1>4, <1>5 DEF MergedIsEmpty, Owned
  <1>9. MergesEnd(e)
    <2> SUFFICES ASSUME NEW S \in SUBSET Incidents, S # {}
                 PROVE  \E j \in S : e.incident[j].merged \notin S
      BY DEF MergesEnd
    <2>1. PICK j \in S : d.incident[j].merged \notin S
      BY <1>1 DEF MergesEnd
    <2> QED BY <1>4, <1>5, <2>1, NoneAssumption
  <1>10. OneFiringPerFault(e)
    BY <1>1, <1>5 DEF OneFiringPerFault, Firing
  <1>11. RecoveryHasSignal(e)
    BY <1>1, <1>4, <1>5 DEF RecoveryHasSignal
  <1>12. RootIsMarked(e)
    BY <1>1, <1>4, <1>5 DEF RootIsMarked
  <1>13. \A b \in Firing(e) : b # a => Tracked(e, b)
    BY <1>1, <1>5 DEF Tracked, Firing
  <1>14. Correlating(e, a)
    BY <1>1, <1>5, <1>6, <1>7, <1>8, <1>9, <1>10, <1>11, <1>12, <1>13 DEF Base, Correlating
  <1> QED BY <1>4, <1>5, <1>14

(* Creating the incident of an alert leaves the store that attaching it to  *)
(* the inserted row as its root would leave.                                *)
LEMMA CreateIncidentAttaches ==
    ASSUME NEW d, NEW a \in Alerts, Correlating(d, a), NEW i \in FreshIncidents(d)
    PROVE  CreateIncident(d, i, a) = AttachAlert(InsertIncident(d, i, a), i, a, TRUE)
  <1> DEFINE new == InsertIncident(d, i, a)
             row == Reopened(new.incident[i])
             attached == [new EXCEPT !.alert[a].incident = i,
                                     !.incident[i] = row,
                                     !.link = @ \cup {<<i, a>>}]
  <1>1. new \in Store /\ i \in Incidents /\ <<i, a>> \notin new.link
    <2>1. new \in Store /\ OwnersAreLinked(new) /\ new.alert[a].incident = None
      BY NewIncidentCorrelates DEF Correlating, Base
    <2> QED BY <2>1, NoneAssumption DEF OwnersAreLinked, FreshIncidents
  <1>2. new.incident[i].root = a
    BY NewIncidentCorrelates
  <1> HIDE DEF new
  <1>3. [row EXCEPT !.root = a] = row
    <2>1. row \in IncidentRow /\ row.root = a
      BY <1>1, <1>2, StoreParts, ReopenedRow
    <2> QED BY <2>1 DEF IncidentRow
  <1>4. AttachAlert(new, i, a, FALSE)
          = [attached EXCEPT !.rootLink = new.rootLink]
    BY <1>1 DEF AttachAlert, Store
  <1>5. AttachAlert(new, i, a, TRUE)
          = [attached EXCEPT !.rootLink = (new.rootLink \ {<<i, a>>}) \cup {<<i, a>>}]
    BY <1>1, <1>2, <1>3 DEF AttachAlert, Store
  <1>6. (new.rootLink \ {<<i, a>>}) \cup {<<i, a>>} = new.rootLink \cup {<<i, a>>}
    OBVIOUS
  <1> HIDE DEF attached
  <1> QED BY <1>4, <1>5, <1>6 DEF CreateIncident, new

LEMMA AttachAlertTracks ==
    ASSUME NEW d, NEW a \in Alerts, Correlating(d, a), NEW i \in Incidents,
           NEW promote \in BOOLEAN,
           d.incident[i].status # "absent", d.incident[i].merged = None,
           \A j \in Incidents : d.incident[j].root = a => j = i /\ promote
    PROVE  /\ StoreInv(AttachAlert(d, i, a, promote))
           /\ AttachAlert(d, i, a, promote).alert[a].incident = i
           /\ AttachAlert(d, i, a, promote).incident[i].merged = None
           /\ AttachAlert(d, i, a, promote).incident[i].status # "absent"
  <1> SUFFICES ASSUME NEW e, e = AttachAlert(d, i, a, promote)
               PROVE  /\ StoreInv(e)
                      /\ e.alert[a].incident = i
                      /\ e.incident[i].merged = None
                      /\ e.incident[i].status # "absent"
    OBVIOUS
  <1>1. /\ AlertRowsFit(d) /\ OwnersAreLinked(d) /\ MergedIsEmpty(d) /\ MergesEnd(d)
        /\ OneFiringPerFault(d) /\ RecoveryHasSignal(d) /\ RootIsMarked(d)
        /\ d \in Store
        /\ d.alert[a].status = "FIRING" /\ d.alert[a].incident = None
        /\ \A b \in Firing(d) : b # a => Tracked(d, b)
    BY DEF Correlating, Base
  <1>2. /\ \A j \in Incidents : d.incident[j].root \in Alerts \cup {None}
        /\ \A j \in Incidents : d.incident[j].merged \in Incidents \cup {None}
        /\ \A b \in Alerts : d.alert[b].incident \in Incidents \cup {None}
    BY <1>1, StoreParts DEF IncidentRow, AlertRow
  <1>3. <<i, a>> \notin d.link
    BY <1>1, NoneAssumption DEF OwnersAreLinked
  <1>4. /\ e \in Store
        /\ e.alert[a].incident = i
        /\ e.alert[a].fingerprint = d.alert[a].fingerprint
        /\ e.alert[a].status = d.alert[a].status
        /\ e.alert[a].reason = d.alert[a].reason
        /\ \A b \in Alerts : b # a => e.alert[b] = d.alert[b]
        /\ e.incident[i].status # "RECOVERING" /\ e.incident[i].status # "absent"
        /\ e.incident[i].merged = None
        /\ e.incident[i].root = IF promote THEN a ELSE d.incident[i].root
        /\ \A j \in Incidents : j # i => e.incident[j] = d.incident[j]
        /\ e.link = d.link \cup {<<i, a>>}
        /\ e.rootLink = IF promote
                        THEN (d.rootLink \ {<<i, d.incident[i].root>>}) \cup {<<i, a>>}
                        ELSE d.rootLink
        /\ e.released = d.released
    <2>1. d \in Store
      BY <1>1
    <2>2. AlertAttached(d, i, a, promote, e)
      BY <1>3, <2>1, AttachAlertFields
    <2> QED BY <2>2 DEF AlertAttached
  <1>5. ASSUME NEW b \in Alerts
        PROVE  /\ e.alert[b].incident = IF b = a THEN i ELSE d.alert[b].incident
               /\ e.alert[b].fingerprint = d.alert[b].fingerprint
               /\ e.alert[b].status = d.alert[b].status
               /\ e.alert[b].reason = d.alert[b].reason
    <2> QED BY <1>4
  <1>6. d.alert[a].reason = "none"
    BY <1>1 DEF AlertRowsFit
  <1>7. AlertRowsFit(e)
    <2>1. ASSUME NEW b \in Alerts
          PROVE  /\ e.alert[b].status = "RESOLVED" <=> e.alert[b].reason # "none"
                 /\ e.alert[b].status = "absent" => e.alert[b].incident = None
      <3>1. /\ d.alert[b].status = "RESOLVED" <=> d.alert[b].reason # "none"
            /\ d.alert[b].status = "absent" => d.alert[b].incident = None
        BY <1>1 DEF AlertRowsFit
      <3>2. d.alert[a].status # "absent"
        BY <1>1
      <3> QED BY <1>5, <3>1, <3>2
    <2>2. ASSUME NEW j \in Incidents, e.incident[j].root # None
          PROVE  e.alert[e.incident[j].root].status # "absent"
      <3>1. e.incident[j].root = a \/ e.incident[j].root = d.incident[j].root
        BY <1>4
      <3>2. CASE e.incident[j].root = a
        BY <1>1, <1>5, <3>2
      <3>3. CASE e.incident[j].root = d.incident[j].root
        <4>1. d.incident[j].root \in Alerts
          BY <1>2, <2>2, <3>3
        <4>2. d.alert[d.incident[j].root].status # "absent"
          BY <1>1, <2>2, <3>3 DEF AlertRowsFit
        <4> QED BY <1>5, <3>3, <4>1, <4>2
      <3> QED BY <3>1, <3>2, <3>3
    <2>3. ASSUME NEW b \in Alerts, e.alert[b].incident # None
          PROVE  e.incident[e.alert[b].incident].status # "absent"
      <3>1. CASE b = a
        BY <1>4, <3>1
      <3>2. CASE b # a
        <4>1. e.alert[b].incident = d.alert[b].incident
          BY <1>5, <3>2
        <4>2. d.alert[b].incident \in Incidents
          BY <1>2, <2>3, <4>1
        <4>3. d.incident[d.alert[b].incident].status # "absent"
          BY <1>1, <2>3, <4>1 DEF AlertRowsFit
        <4> QED BY <1>4, <4>1, <4>2, <4>3
      <3> QED BY <3>1, <3>2
    <2> QED BY <2>1, <2>2, <2>3 DEF AlertRowsFit
  <1>8. OwnersAreLinked(e)
    <2> SUFFICES ASSUME NEW j \in Incidents, NEW b \in Alerts
                 PROVE  <<j, b>> \in e.link <=> e.alert[b].incident = j
      BY DEF OwnersAreLinked
    <2>1. <<j, b>> \in d.link <=> d.alert[b].incident = j
      BY <1>1 DEF OwnersAreLinked
    <2>2. <<j, b>> \in e.link <=> <<j, b>> \in d.link \/ (j = i /\ b = a)
      BY <1>4
    <2> QED BY <1>1, <1>5, <2>1, <2>2, NoneAssumption
  <1>9. MergedIsEmpty(e)
    BY <1>1, <1>2, <1>4, <1>5 DEF MergedIsEmpty, Owned
  <1>10. MergesEnd(e)
    BY <1>1, <1>4 DEF MergesEnd
  <1>11. OneFiringPerFault(e)
    BY <1>1, <1>5 DEF OneFiringPerFault, Firing
  <1>12. RecoveryHasSignal(e)
    <2> SUFFICES ASSUME NEW j \in Incidents, e.incident[j].status = "RECOVERING"
                 PROVE  \E b \in Alerts :
                            /\ e.alert[b].reason = "resolved"
                            /\ e.alert[b].incident = j \/ <<j, b>> \in e.released
      BY DEF RecoveryHasSignal
    <2>1. j # i /\ d.incident[j].status = "RECOVERING"
      BY <1>4
    <2>2. PICK b \in Alerts :
                /\ d.alert[b].reason = "resolved"
                /\ d.alert[b].incident = j \/ <<j, b>> \in d.released
      BY <1>1, <2>1 DEF RecoveryHasSignal
    <2>3. b # a
      BY <1>6, <2>2
    <2> QED BY <1>4, <1>5, <2>2, <2>3
  <1>13. RootIsMarked(e)
    BY <1>1, <1>4, <1>5 DEF RootIsMarked
  <1>14. FaultsAreTracked(e)
    <2> SUFFICES ASSUME NEW b \in Firing(e)
                 PROVE  \/ /\ e.alert[b].incident # None
                           /\ e.incident[e.alert[b].incident].status # "absent"
                        \/ \E j \in Incidents : <<j, b>> \in e.released
      BY DEF FaultsAreTracked
    <2>1. b \in Alerts /\ b \in Firing(d)
      BY <1>5 DEF Firing
    <2>2. CASE b = a
      BY <1>4, <1>5, <2>2, NoneAssumption
    <2>3. CASE b # a
      BY <1>1, <1>2, <1>4, <1>5, <2>1, <2>3 DEF Tracked, AlertRowsFit
    <2> QED BY <2>2, <2>3
  <1>15. StoreInv(e)
    BY <1>4, <1>7, <1>8, <1>9, <1>10, <1>11, <1>12, <1>13, <1>14 DEF StoreInv, Base
  <1> QED BY <1>4, <1>15

-----------------------------------------------------------------------------
(* The actions: the inductive invariant.                                   *)

(* What an operator request points at.                                      *)
RequestsFit ==
    \A o \in Operators :
        /\ op[o].kind \in {"ack", "resolve"} => op[o].incident \in Incidents
        /\ op[o].kind = "detach" => op[o].alert \in Alerts

(* The inductive invariant: both stores are sound on their own, whatever    *)
(* the sweep and the operators remember of earlier ones.                   *)
IInv ==
    /\ sweep \in Sweep
    /\ op \in [Operators -> Request]
    /\ failures \in 0..MaxFailures
    /\ RequestsFit
    /\ StoreInv(db)
    /\ StoreInv(committed)

-----------------------------------------------------------------------------
(* Correlation and merging.                                                *)

(* The incident an alert was attached to can take part in a merge.          *)
Mergeable(d, i) ==
    i \in Incidents /\ d.incident[i].status # "absent" /\ d.incident[i].merged = None

LEMMA CorrelatedTracks ==
    ASSUME NEW d, NEW a \in Alerts, Correlating(d, a),
           \A j \in Incidents : d.incident[j].root # a,
           NEW e \in Correlated(d, a)
    PROVE  StoreInv(e) /\ Mergeable(e, e.alert[a].incident)
  <1>1. /\ OwnersAreLinked(d) /\ AlertRowsFit(d)
    BY DEF Correlating, Base
  <1> DEFINE earlier == IncidentsByFingerprint(d, d.alert[a].fingerprint)
  <1>2. \/ \E i \in OpenIncidents(d) \cup earlier, p \in BOOLEAN : e = AttachAlert(d, i, a, p)
        \/ \E i \in FreshIncidents(d) : e = CreateIncident(d, i, a)
    BY DEF Correlated
  <1>3. CASE \E i \in OpenIncidents(d) \cup earlier, p \in BOOLEAN : e = AttachAlert(d, i, a, p)
    <2>1. PICK i \in OpenIncidents(d) \cup earlier, p \in BOOLEAN : e = AttachAlert(d, i, a, p)
      BY <1>3
    <2>2. CASE i \in OpenIncidents(d)
      <3>1. i \in Incidents /\ d.incident[i].status # "absent" /\ d.incident[i].merged = None
        BY <2>2 DEF OpenIncidents, OpenStates
      <3> QED BY <2>1, <3>1, AttachAlertTracks DEF Mergeable
    <2>3. CASE i \in earlier
      <3>1. i \in Incidents /\ d.incident[i].merged = None
        BY <2>3 DEF IncidentsByFingerprint
      <3>2. PICK b \in Alerts : <<i, b>> \in d.link
        BY <2>3 DEF IncidentsByFingerprint, Attached
      <3>3. d.alert[b].incident = i
        BY <1>1, <3>1, <3>2 DEF OwnersAreLinked
      <3>4. d.incident[i].status # "absent"
        BY <1>1, <3>1, <3>3, NoneAssumption DEF AlertRowsFit
      <3> QED BY <2>1, <3>1, <3>4, AttachAlertTracks DEF Mergeable
    <2> QED BY <2>1, <2>2, <2>3
  <1>4. CASE \E i \in FreshIncidents(d) : e = CreateIncident(d, i, a)
    <2>1. PICK i \in FreshIncidents(d) : e = CreateIncident(d, i, a)
      BY <1>4
    <2>2. i \in Incidents
      BY DEF FreshIncidents
    <2> DEFINE new == InsertIncident(d, i, a)
    <2>3. e = AttachAlert(new, i, a, TRUE)
      BY <2>1, CreateIncidentAttaches
    <2>4. /\ Correlating(new, a)
          /\ new.incident[i].status # "absent" /\ new.incident[i].merged = None
          /\ \A j \in Incidents : j # i => new.incident[j] = d.incident[j]
      BY NewIncidentCorrelates
    <2> HIDE DEF new
    <2>5. \A j \in Incidents : new.incident[j].root = a => j = i
      BY <2>4
    <2> DEFINE attached == AttachAlert(new, i, a, TRUE)
    <2>6. /\ StoreInv(attached)
          /\ attached.alert[a].incident = i
          /\ attached.incident[i].merged = None
          /\ attached.incident[i].status # "absent"
      BY <2>2, <2>4, <2>5, AttachAlertTracks
    <2> HIDE DEF attached
    <2>7. e = attached
      BY <2>3 DEF attached
    <2> QED BY <2>2, <2>6, <2>7 DEF Mergeable
  <1> QED BY <1>2, <1>3, <1>4

LEMMA ReconciledPreserves ==
    ASSUME NEW d, StoreInv(d), NEW i, Mergeable(d, i), NEW r \in Reconciled(d, i)
    PROVE  StoreInv(r)
  <1> DEFINE others == {j \in OpenIncidents(d) \ {i} : Attached(d, j) # {}}
  <1>1. \/ r = d
        \/ \E j \in others : r = MergeIncidents(d, j, i)
        \/ \E j \in others : r = MergeIncidents(d, i, j)
    BY DEF Reconciled
  <1>2. ASSUME NEW j \in others
        PROVE  j # i /\ Mergeable(d, j)
    BY DEF OpenIncidents, OpenStates, Mergeable
  <1> HIDE DEF others
  <1>3. ASSUME NEW j \in others, r = MergeIncidents(d, j, i)
        PROVE  StoreInv(r)
    BY <1>2, <1>3, MergeIncidentsPreserves DEF Mergeable
  <1>4. ASSUME NEW j \in others, r = MergeIncidents(d, i, j)
        PROVE  StoreInv(r)
    BY <1>2, <1>4, MergeIncidentsPreserves DEF Mergeable
  <1> QED BY <1>1, <1>3, <1>4

-----------------------------------------------------------------------------
(* One lemma per thread.                                                   *)

(* The state a committing step leaves the sweep and its own request in.     *)
LEMMA CommitPreserves ==
    ASSUME IInv, NEW d, StoreInv(d), Commit(d), UNCHANGED <<sweep, op, failures>>
    PROVE  IInv'
  BY DEF IInv, RequestsFit, Commit, Sweep

LEMMA WebhookPreserves ==
    ASSUME IInv, Webhook
    PROVE  IInv'
  <1>1. StoreInv(db)
    BY DEF IInv
  <1>2. PICK f \in Fingerprints : RepeatFiring(f) \/ NewFiring(f) \/ ResolvedEvent(f)
    BY DEF Webhook
  <1>3. CASE RepeatFiring(f)
    <2>1. PICK a \in FindFiring(db, f) :
            /\ Commit(RefreshStates(db, OwnersOf(db, {a})))
            /\ UNCHANGED <<sweep, op, failures>>
      BY <1>3 DEF RepeatFiring
    <2>2. StoreInv(RefreshStates(db, OwnersOf(db, {a})))
      BY <1>1, RefreshStatesPreserves
    <2> QED BY <2>1, <2>2, CommitPreserves
  <1>4. CASE NewFiring(f)
    <2>1. PICK a \in FreshAlerts(db) :
            \E d \in Correlated(CreateAlert(db, a, f), a) :
            \E r \in Reconciled(d, d.alert[a].incident) : Commit(r)
      BY <1>4 DEF NewFiring
    <2>2. PICK d \in Correlated(CreateAlert(db, a, f), a) :
            \E r \in Reconciled(d, d.alert[a].incident) : Commit(r)
      BY <2>1
    <2>3. PICK r \in Reconciled(d, d.alert[a].incident) : Commit(r)
      BY <2>2
    <2>4. a \in Alerts
      BY DEF FreshAlerts
    <2>5. FindFiring(db, f) = {} /\ UNCHANGED <<sweep, op, failures>>
      BY <1>4 DEF NewFiring
    <2>6. /\ Correlating(CreateAlert(db, a, f), a)
          /\ \A i \in Incidents : CreateAlert(db, a, f).incident[i].root # a
      BY <1>1, <2>5, CreateAlertCorrelates
    <2>7. StoreInv(d) /\ Mergeable(d, d.alert[a].incident)
      BY <2>2, <2>4, <2>6, CorrelatedTracks
    <2>8. StoreInv(r)
      BY <2>3, <2>7, ReconciledPreserves
    <2> QED BY <2>3, <2>5, <2>8, CommitPreserves
  <1>5. CASE ResolvedEvent(f)
    <2> DEFINE resolved(a) == ResolveAlerts(db, {a}, "resolved")
    <2>1. PICK a \in FindFiring(db, f) :
            /\ Commit(RefreshStates(resolved(a), OwnersOf(resolved(a), {a})))
            /\ UNCHANGED <<sweep, op, failures>>
      BY <1>5 DEF ResolvedEvent
    <2>2. {a} \subseteq Firing(db)
      BY DEF FindFiring
    <2>3. StoreInv(resolved(a))
      BY <1>1, <2>2, ResolveAlertsPreserves
    <2> HIDE DEF resolved
    <2>4. StoreInv(RefreshStates(resolved(a), OwnersOf(resolved(a), {a})))
      BY <2>3, RefreshStatesPreserves
    <2> QED BY <2>1, <2>4, CommitPreserves
  <1> QED BY <1>2, <1>3, <1>4, <1>5

(* Applying a verdict, however old, neither undoes a merge nor starts an    *)
(* observation.                                                            *)
LEMMA AppliedRow ==
    ASSUME NEW row \in IncidentRow, NEW seen \in Loaded, NEW verdict \in Verdicts,
           NEW path \in Phases
    PROVE  /\ Applied(row, seen, verdict, path) \in IncidentRow
           /\ Applied(row, seen, verdict, path).merged = row.merged
           /\ Applied(row, seen, verdict, path).root = row.root
           /\ row.status # "absent" => Applied(row, seen, verdict, path).status # "absent"
           /\ Applied(row, seen, verdict, path).status = "RECOVERING" => row.status = "RECOVERING"
  <1> DEFINE marked == IF path = "probe" THEN [row EXCEPT !.probe = verdict] ELSE row
  <1>1. /\ marked \in IncidentRow
        /\ marked.merged = row.merged /\ marked.root = row.root /\ marked.status = row.status
    BY DEF IncidentRow, Verdicts, ProbeResults
  <1> HIDE DEF marked
  <1>2. ASSUME NEW s \in {"OPEN", "RESOLVED"}
        PROVE  /\ Flush(marked, seen, s) \in IncidentRow
               /\ Flush(marked, seen, s).merged = row.merged
               /\ Flush(marked, seen, s).root = row.root
               /\ row.status # "absent" => Flush(marked, seen, s).status # "absent"
               /\ Flush(marked, seen, s).status = "RECOVERING" => row.status = "RECOVERING"
    BY <1>1 DEF Flush, IncidentRow, IncidentStatus, Deadlines
  <1>3. Applied(row, seen, verdict, path)
          \in {marked, Flush(marked, seen, "OPEN"), Flush(marked, seen, "RESOLVED")}
    BY DEF Applied, marked
  <1> QED BY <1>1, <1>2, <1>3

LEMMA SweepPreserves ==
    ASSUME IInv, SweepStep
    PROVE  IInv'
  <1>1. /\ StoreInv(db) /\ db \in Store
        /\ StoreInv(committed)
        /\ sweep \in Sweep /\ op \in [Operators -> Request] /\ failures \in 0..MaxFailures
        /\ RequestsFit
    BY DEF IInv, StoreInv, Base
  <1>2. \A i \in Incidents : db.incident[i] \in IncidentRow
    BY <1>1, StoreParts
  <1>3. ASSUME sweep' \in Sweep, StoreInv(db'), UNCHANGED <<op, failures>>,
               committed' = committed \/ committed' = db
        PROVE  IInv'
    BY <1>1, <1>3 DEF IInv, RequestsFit
  <1>4. ASSUME NEW S \in SUBSET Alerts, SweepExpire(S)
        PROVE  IInv'
    <2> DEFINE d == ResolveAlerts(db, S, "stale")
    <2>1. StoreInv(d)
      BY <1>1, <1>4, ResolveAlertsPreserves DEF SweepExpire
    <2>2. db' = RefreshStates(d, OwnersOf(d, S))
      BY <1>4 DEF SweepExpire
    <2> HIDE DEF d
    <2>3. StoreInv(db')
      BY <2>1, <2>2, RefreshStatesPreserves
    <2>4. sweep' \in Sweep /\ UNCHANGED <<committed, op, failures>>
      BY <1>1, <1>4 DEF SweepExpire, Sweep, Phases
    <2> QED BY <1>3, <2>3, <2>4
  <1>5. ASSUME NEW phase \in Phases, NEW S \in SUBSET Incidents, Select(phase, S)
        PROVE  sweep' \in Sweep
    <2>1. \A i \in Incidents : Load(db.incident[i]) \in Loaded /\ NotLoaded \in Loaded
      BY <1>2 DEF Load, Loaded, NotLoaded, IncidentRow, IncidentStatus, Deadlines
    <2>2. [i \in Incidents |-> IF i \in S THEN Load(db.incident[i]) ELSE NotLoaded]
            \in [Incidents -> Loaded]
      BY <2>1
    <2> QED BY <1>1, <1>5, <2>2 DEF Select, Sweep
  <1>6. CASE SweepSelectRecovering
    <2>1. sweep' \in Sweep
      BY <1>5, <1>6 DEF SweepSelectRecovering, Phases
    <2> QED BY <1>1, <1>3, <1>6, <2>1 DEF SweepSelectRecovering
  <1>7. ASSUME NEW i \in Incidents, SweepVerify(i)
        PROVE  IInv'
    <2>1. PICK v \in VerifyOutcomes(db, i) :
            sweep' = [sweep EXCEPT !.todo = @ \ {i}, !.verdict[i] = v]
      BY <1>7 DEF SweepVerify
    <2>2. v \in Verdicts
      BY DEF VerifyOutcomes, Verdicts
    <2>3. sweep' \in Sweep
      BY <1>1, <2>1, <2>2 DEF Sweep
    <2> QED BY <1>1, <1>3, <1>7, <2>3 DEF SweepVerify
  <1>8. ASSUME NEW i \in Incidents, SweepApply(i)
        PROVE  IInv'
    <2> DEFINE row == Applied(db.incident[i], sweep.seen[i], sweep.verdict[i], sweep.phase)
    <2>1. /\ sweep.seen[i] \in Loaded /\ sweep.phase \in Phases
          /\ sweep.verdict[i] \in Verdicts
      BY <1>1, <1>8 DEF SweepApply, Sweep
    <2>2. /\ row \in IncidentRow
          /\ row.merged = db.incident[i].merged /\ row.root = db.incident[i].root
          /\ db.incident[i].status # "absent" => row.status # "absent"
          /\ row.status = "RECOVERING" => db.incident[i].status = "RECOVERING"
      BY <1>2, <2>1, AppliedRow
    <2>3. db' = [db EXCEPT !.incident[i] = row]
      BY <1>8 DEF SweepApply
    <2> HIDE DEF row
    <2>4. StoreInv(db')
      BY <1>1, <2>2, <2>3, RowChanges
    <2>5. sweep' \in Sweep
      BY <1>1, <1>8 DEF SweepApply, Sweep, Loaded, NotLoaded, IncidentStatus, Deadlines
    <2> QED BY <1>3, <1>8, <2>4, <2>5 DEF SweepApply
  <1>9. ASSUME NEW S \in SUBSET Incidents, SweepSelectProbes(S)
        PROVE  IInv'
    <2>1. sweep' \in Sweep
      BY <1>5, <1>9 DEF SweepSelectProbes, Phases
    <2> QED BY <1>1, <1>3, <1>9, <2>1 DEF SweepSelectProbes
  <1>10. IdleSweep \in Sweep
    BY DEF IdleSweep, Sweep, Phases, Loaded, NotLoaded, IncidentStatus, Deadlines
  <1>11. CASE SweepCommit
    BY <1>1, <1>3, <1>10, <1>11 DEF SweepCommit
  <1> QED BY <1>4, <1>6, <1>7, <1>8, <1>9, <1>11 DEF SweepStep

LEMMA OperatorPreserves ==
    ASSUME IInv, OperatorStep
    PROVE  IInv'
  <1>1. /\ StoreInv(db) /\ db \in Store
        /\ StoreInv(committed) /\ committed \in Store
        /\ sweep \in Sweep /\ op \in [Operators -> Request] /\ failures \in 0..MaxFailures
        /\ RequestsFit
    BY DEF IInv, StoreInv, Base
  <1>2. \A i \in Incidents : /\ db.incident[i] \in IncidentRow
                             /\ committed.incident[i] \in IncidentRow
    BY <1>1, StoreParts
  <1>3. NoRequest \in Request
    BY DEF NoRequest, Request, Loaded, NotLoaded, IncidentStatus, Deadlines
  <1>4. ASSUME NEW o \in Operators, NEW d, StoreInv(d), Commit(d), Finish(o)
        PROVE  IInv'
    <2>1. op' = [op EXCEPT ![o] = NoRequest] /\ UNCHANGED <<sweep, failures>>
      BY <1>4 DEF Finish
    <2>2. op' \in [Operators -> Request]
      BY <1>1, <1>3, <2>1
    <2>3. RequestsFit'
      BY <1>1, <2>1 DEF RequestsFit, NoRequest
    <2> QED BY <1>1, <1>4, <2>1, <2>2, <2>3 DEF IInv, Commit
  <1>5. ASSUME NEW o \in Operators, NEW r \in Request, op' = [op EXCEPT ![o] = r],
               r.kind \in {"ack", "resolve"} => r.incident \in Incidents,
               r.kind = "detach" => r.alert \in Alerts,
               UNCHANGED <<db, committed, sweep, failures>>
        PROVE  IInv'
    <2>1. op' \in [Operators -> Request]
      BY <1>1, <1>5
    <2>2. RequestsFit'
      BY <1>1, <1>5 DEF RequestsFit
    <2> QED BY <1>1, <1>5, <2>1, <2>2 DEF IInv
  <1>6. ASSUME NEW o \in Operators, NEW i \in Incidents, NEW kind \in {"ack", "resolve"},
               OperatorLoads(o, kind, i)
        PROVE  IInv'
    <2> DEFINE r == [kind |-> kind, incident |-> i, alert |-> None,
                     seen |-> Load(committed.incident[i])]
    <2>1. r \in Request
      BY <1>2 DEF Request, Load, Loaded, IncidentRow
    <2> QED BY <1>5, <1>6, <2>1 DEF OperatorLoads
  <1>7. ASSUME NEW o \in Operators, NEW i \in Incidents, NEW a \in Alerts,
               OperatorPicksLink(o, i, a)
        PROVE  IInv'
    <2> DEFINE r == [kind |-> "detach", incident |-> i, alert |-> a, seen |-> NotLoaded]
    <2>1. r \in Request
      BY DEF Request, Loaded, NotLoaded, IncidentStatus, Deadlines
    <2> QED BY <1>5, <1>7, <2>1 DEF OperatorPicksLink
  <1>8. ASSUME NEW o \in Operators, AckIncident(o)
        PROVE  IInv'
    <2> DEFINE i == op[o].incident
               row == [db.incident[i] EXCEPT !.status = "ACKNOWLEDGED"]
               acked == [db EXCEPT !.incident[i] = row]
    <2>1. i \in Incidents
      BY <1>1, <1>8 DEF AckIncident, RequestsFit
    <2>2. /\ row \in IncidentRow
          /\ row.merged = db.incident[i].merged /\ row.root = db.incident[i].root
          /\ row.status = "ACKNOWLEDGED"
      BY <1>2, <2>1 DEF IncidentRow, IncidentStatus
    <2>3. [db EXCEPT !.incident[op[o].incident].status = "ACKNOWLEDGED"] = acked
      BY <1>1, <2>1 DEF Store
    <2>4. Commit(acked) \/ Commit(db)
      BY <1>8, <2>3 DEF AckIncident
    <2>5. Finish(o)
      BY <1>8 DEF AckIncident
    <2> HIDE DEF row
    <2>6. StoreInv(acked)
      BY <1>1, <2>1, <2>2, RowChanges
    <2> HIDE DEF acked
    <2> QED BY <1>1, <1>4, <2>4, <2>5, <2>6
  <1>9. ASSUME NEW o \in Operators, ResolveIncident(o)
        PROVE  IInv'
    <2> DEFINE i == op[o].incident
               row == Flush(db.incident[i], op[o].seen, "RESOLVED")
               closed == [db EXCEPT !.incident[i] = row]
    <2>1. i \in Incidents
      BY <1>1, <1>9 DEF ResolveIncident, RequestsFit
    <2>2. /\ row \in IncidentRow
          /\ row.merged = db.incident[i].merged /\ row.root = db.incident[i].root
          /\ db.incident[i].status # "absent" => row.status # "absent"
          /\ row.status = "RECOVERING" => db.incident[i].status = "RECOVERING"
      BY <1>2, <2>1 DEF Flush, IncidentRow, IncidentStatus, Deadlines
    <2>3. Commit(closed) /\ Finish(o)
      BY <1>9 DEF ResolveIncident
    <2> HIDE DEF row
    <2>4. StoreInv(closed)
      BY <1>1, <2>1, <2>2, RowChanges
    <2> HIDE DEF closed
    <2> QED BY <1>4, <2>3, <2>4
  <1>10. ASSUME NEW o \in Operators, Detach(o)
         PROVE  IInv'
    <2>1. op[o].alert \in Alerts
      BY <1>1, <1>10 DEF Detach, RequestsFit
    <2>2. StoreInv(DetachAlert(db, op[o].alert))
      BY <1>1, <2>1, DetachAlertPreserves
    <2> QED BY <1>4, <1>10, <2>2 DEF Detach
  <1> QED BY <1>6, <1>7, <1>8, <1>9, <1>10 DEF OperatorStep

(* Time and failures.                                                       *)
LEMMA EnvironmentPreserves ==
    ASSUME IInv, (\E i \in Incidents : DeadlinePasses(i)) \/ SweepFails \/ Crash
    PROVE  IInv'
  <1>1. /\ StoreInv(db) /\ db \in Store
        /\ StoreInv(committed) /\ committed \in Store
        /\ sweep \in Sweep /\ op \in [Operators -> Request] /\ failures \in 0..MaxFailures
        /\ RequestsFit
    BY DEF IInv, StoreInv, Base
  <1>2. IdleSweep \in Sweep
    BY DEF IdleSweep, Sweep, Phases, Loaded, NotLoaded, IncidentStatus, Deadlines
  <1>3. ASSUME NEW i \in Incidents, DeadlinePasses(i)
        PROVE  IInv'
    <2>1. ASSUME NEW d, StoreInv(d)
          PROVE  StoreInv([d EXCEPT !.incident[i].deadline = "passed"])
      <3> DEFINE row == [d.incident[i] EXCEPT !.deadline = "passed"]
      <3>1. d \in Store
        BY <2>1 DEF StoreInv, Base
      <3>2. d.incident[i] \in IncidentRow
        BY <3>1, StoreParts
      <3>3. /\ row \in IncidentRow
            /\ row.merged = d.incident[i].merged /\ row.root = d.incident[i].root
            /\ row.status = d.incident[i].status
        BY <3>2 DEF IncidentRow, Deadlines
      <3>4. [d EXCEPT !.incident[i].deadline = "passed"] = [d EXCEPT !.incident[i] = row]
        BY <3>1 DEF Store
      <3> HIDE DEF row
      <3>5. StoreInv([d EXCEPT !.incident[i] = row])
        BY <2>1, <3>3, RowChanges
      <3> QED BY <3>4, <3>5
    <2>2. StoreInv(db') /\ StoreInv(committed')
      BY <1>1, <1>3, <2>1 DEF DeadlinePasses
    <2> QED BY <1>1, <1>3, <2>2 DEF DeadlinePasses, IInv, RequestsFit
  <1>4. CASE SweepFails
    BY <1>1, <1>2, <1>4, MaxFailuresAssumption DEF SweepFails, IInv, RequestsFit
  <1>5. CASE Crash
    <2>1. op' \in [Operators -> Request] /\ RequestsFit'
      BY <1>5 DEF Crash, RequestsFit, NoRequest, Request, Loaded, NotLoaded, IncidentStatus, Deadlines
    <2> QED BY <1>1, <1>2, <1>5, <2>1, MaxFailuresAssumption DEF Crash, IInv
  <1> QED BY <1>3, <1>4, <1>5

-----------------------------------------------------------------------------
LEMMA EmptyStoreSound == StoreInv(EmptyStore)
  <1>1. EmptyStore \in Store
    BY DEF EmptyStore, Store, AbsentAlert, AbsentIncident, AlertRow, IncidentRow,
           IncidentStatus, Deadlines, ProbeResults
  <1>2. /\ \A a \in Alerts : EmptyStore.alert[a] = AbsentAlert
        /\ \A i \in Incidents : EmptyStore.incident[i] = AbsentIncident
        /\ EmptyStore.link = {}
    BY DEF EmptyStore
  <1>3. AlertRowsFit(EmptyStore) /\ OneFiringPerFault(EmptyStore) /\ FaultsAreTracked(EmptyStore)
    BY <1>2 DEF AlertRowsFit, OneFiringPerFault, FaultsAreTracked, Firing, AbsentAlert, AbsentIncident
  <1>4. OwnersAreLinked(EmptyStore)
    <2> SUFFICES ASSUME NEW i \in Incidents, NEW a \in Alerts
                 PROVE  <<i, a>> \in EmptyStore.link <=> EmptyStore.alert[a].incident = i
      BY DEF OwnersAreLinked
    <2>1. EmptyStore.alert[a].incident = None
      BY <1>2 DEF AbsentAlert
    <2> QED BY <1>2, <2>1, NoneAssumption
  <1>5. MergedIsEmpty(EmptyStore) /\ RecoveryHasSignal(EmptyStore)
    BY <1>2 DEF MergedIsEmpty, RecoveryHasSignal, AbsentIncident
  <1>6. MergesEnd(EmptyStore)
    BY <1>2, NoneAssumption DEF MergesEnd, AbsentIncident
  <1>7. RootIsMarked(EmptyStore)
    BY <1>2, NoneAssumption DEF RootIsMarked, AbsentIncident
  <1> QED BY <1>1, <1>3, <1>4, <1>5, <1>6, <1>7 DEF StoreInv, Base

LEMMA InitSound == Init => IInv
  <1> SUFFICES ASSUME Init PROVE IInv
    OBVIOUS
  <1>1. IdleSweep \in Sweep
    BY DEF IdleSweep, Sweep, Phases, Loaded, NotLoaded, IncidentStatus, Deadlines
  <1>2. op \in [Operators -> Request] /\ RequestsFit
    BY DEF Init, RequestsFit, NoRequest, Request, Loaded, NotLoaded, IncidentStatus, Deadlines
  <1> QED BY <1>1, <1>2, EmptyStoreSound, MaxFailuresAssumption DEF Init, IInv

LEMMA NextSound == IInv /\ [Next]_vars => IInv'
  <1> SUFFICES ASSUME IInv, [Next]_vars PROVE IInv'
    OBVIOUS
  <1>1. CASE Next
    BY <1>1, WebhookPreserves, SweepPreserves, OperatorPreserves, EnvironmentPreserves DEF Next
  <1>2. CASE UNCHANGED vars
    BY <1>2 DEF vars, IInv, RequestsFit
  <1> QED BY <1>1, <1>2

(* The inductive invariant holds of every reachable state.                  *)
THEOREM LifecycleInvariant == Spec => []IInv
  BY InitSound, NextSound, PTL DEF Spec

(* Tables, sweep and requests keep their types, whatever the interleaving.  *)
THEOREM TypeCorrect == Spec => []TypeOK
  <1>1. IInv => TypeOK
    BY DEF IInv, StoreInv, Base, AlertRowsFit, EndedWithReason, TypeOK
  <1> QED BY <1>1, LifecycleInvariant, PTL

(* Link table and owner column agree, whoever merges and detaches when.     *)
THEOREM LinksAlwaysMatchOwners == Spec => []LinksMatchOwners
  <1>1. IInv => LinksMatchOwners
    BY DEF IInv, StoreInv, Base, LinksMatchOwners
  <1> QED BY <1>1, LifecycleInvariant, PTL

(* No alert is ever on an incident that was merged away.                    *)
THEOREM MergedAlwaysEmpty == Spec => []MergedHoldsNothing
  <1>1. IInv => MergedHoldsNothing
    BY DEF IInv, StoreInv, Base, MergedHoldsNothing
  <1> QED BY <1>1, LifecycleInvariant, PTL

(* The merges of any number of incidents form no cycle.                     *)
THEOREM MergesAlwaysAcyclic == Spec => []MergesAreAcyclic
  <1>1. IInv => MergesAreAcyclic
    BY DEF IInv, StoreInv, Base, MergesAreAcyclic
  <1> QED BY <1>1, LifecycleInvariant, PTL

(* No firing fault is without an incident unless an operator took it off.   *)
THEOREM FiringAlwaysTracked == Spec => []FiringIsTracked
  <1>1. IInv => FiringIsTracked
    BY DEF IInv, StoreInv, FiringIsTracked
  <1> QED BY <1>1, LifecycleInvariant, PTL

(* A fault never fires twice at the same time.                              *)
THEOREM FaultsFireOnce == Spec => []FaultFiresOnce
  <1>1. IInv => FaultFiresOnce
    BY DEF IInv, StoreInv, Base, FaultFiresOnce
  <1> QED BY <1>1, LifecycleInvariant, PTL

(* Every observed incident had an explicit recovery signal.                 *)
THEOREM RecoveringAlwaysSignalled == Spec => []RecoveringWasSignalled
  <1>1. IInv => RecoveringWasSignalled
    BY DEF IInv, StoreInv, Base, RecoveringWasSignalled
  <1> QED BY <1>1, LifecycleInvariant, PTL

(* The root of an incident stays one of its own, ROOT-linked alerts.        *)
THEOREM RootAlwaysOwn == Spec => []RootIsOwn
  <1>1. IInv => RootIsOwn
    BY DEF IInv, StoreInv, Base, RootIsOwn
  <1> QED BY <1>1, LifecycleInvariant, PTL

=============================================================================
