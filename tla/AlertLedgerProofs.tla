-------------------------- MODULE AlertLedgerProofs --------------------------
(***************************************************************************)
(* IncidentLifecycle implements AlertLedger, for any sets of alerts,        *)
(* incidents, faults and operators: every step of a webhook, of the sweep   *)
(* or of an operator is a step of the ledger or leaves it alone.            *)
(*                                                                         *)
(* The only step that is not plain is the commit of a round, which makes a  *)
(* store visible that was built by many steps.  Behind says what these      *)
(* steps can have done meanwhile.                                          *)
(***************************************************************************)
EXTENDS IncidentLifecycleProofs

(* What the round's store d may be ahead of the committed store c: alerts    *)
(* that ended by silence, and rows of incidents, of which those that enter   *)
(* observation are quiet.                                                  *)
Behind(c, d) ==
    /\ \A a \in Alerts :
          /\ d.alert[a].fingerprint = c.alert[a].fingerprint
          /\ d.alert[a].incident = c.alert[a].incident
          /\ \/ d.alert[a].status = c.alert[a].status /\ d.alert[a].reason = c.alert[a].reason
             \/ /\ c.alert[a].status = "FIRING"
                /\ d.alert[a].status = "RESOLVED" /\ d.alert[a].reason = "stale"
    /\ \A i \in Incidents :
          /\ d.incident[i].merged = c.incident[i].merged
          /\ d.incident[i].status = "absent" => c.incident[i].status = "absent"
          /\ d.incident[i].status = "RECOVERING" =>
                c.incident[i].status = "RECOVERING" \/ ~HasFiring(d, i)

(* A row that is not in use is not merged.                                  *)
UnusedUnmerged(d) ==
    \A i \in Incidents : d.incident[i].status = "absent" => d.incident[i].merged = None

LInv ==
    /\ IInv
    /\ sweep.phase = "idle" => sweep = IdleSweep
    /\ ~sweep.txn => db = committed
    /\ Behind(committed, db)
    /\ UnusedUnmerged(db)
    /\ UnusedUnmerged(committed)

LEMMA BehindSelf ==
    ASSUME NEW d
    PROVE  Behind(d, d)
  BY DEF Behind

-----------------------------------------------------------------------------
(* What a transaction that commits in one step leaves of store d.           *)

(* Alerts and merges as they were, and no noisy incident under observation   *)
(* that was not.                                                           *)
KeepsLedger(d, e) ==
    /\ e.alert = d.alert
    /\ \A i \in Incidents :
          /\ e.incident[i].merged = d.incident[i].merged
          /\ e.incident[i].status = "absent" => d.incident[i].status = "absent"
          /\ e.incident[i].status = "RECOVERING" =>
                d.incident[i].status = "RECOVERING" \/ ~HasFiring(e, i)

LEMMA RefreshKeeps ==
    ASSUME NEW d \in Store, NEW S
    PROVE  KeepsLedger(d, RefreshStates(d, S))
  <1> DEFINE e == RefreshStates(d, S)
  <1>1. e.alert = d.alert
    BY RefreshStatesFields
  <1>2. ASSUME NEW i \in Incidents
        PROVE  /\ e.incident[i].merged = d.incident[i].merged
               /\ e.incident[i].status = "absent" => d.incident[i].status = "absent"
               /\ e.incident[i].status = "RECOVERING" =>
                     d.incident[i].status = "RECOVERING" \/ ~HasFiring(e, i)
    <2>1. e.incident[i] = d.incident[i] \/ e.incident[i] = RefreshedRow(d, i)
      BY RefreshStatesFields
    <2>2. HasFiring(e, i) <=> HasFiring(d, i)
      BY <1>1 DEF HasFiring, Owned
    <2>3. d.incident[i] \in IncidentRow
      BY StoreParts
    <2>4. /\ RefreshedRow(d, i).merged = d.incident[i].merged
          /\ RefreshedRow(d, i).status = "absent" => d.incident[i].status = "absent"
          /\ RefreshedRow(d, i).status = "RECOVERING" =>
                d.incident[i].status = "RECOVERING" \/ ~HasFiring(d, i)
      BY <2>3 DEF RefreshedRow, IncidentRow
    <2> HIDE DEF e
    <2> QED BY <2>1, <2>2, <2>4
  <1> QED BY <1>1, <1>2 DEF KeepsLedger

(* The alerts of S end in e for one reason; incidents are as KeepsLedger     *)
(* says.                                                                   *)
EndsAlerts(d, e, S, why) ==
    /\ \A a \in Alerts :
          /\ e.alert[a].incident = d.alert[a].incident
          /\ e.alert[a].fingerprint = d.alert[a].fingerprint
          /\ e.alert[a].status = IF a \in S THEN "RESOLVED" ELSE d.alert[a].status
          /\ e.alert[a].reason = IF a \in S THEN why ELSE d.alert[a].reason
    /\ \A i \in Incidents :
          /\ e.incident[i].merged = d.incident[i].merged
          /\ e.incident[i].status = "absent" => d.incident[i].status = "absent"
          /\ e.incident[i].status = "RECOVERING" =>
                d.incident[i].status = "RECOVERING" \/ ~HasFiring(e, i)

LEMMA ResolveEnds ==
    ASSUME NEW d \in Store, NEW S \in SUBSET Alerts, NEW why \in {"resolved", "stale"}, NEW T,
           NEW e, e = RefreshStates(ResolveAlerts(d, S, why), T)
    PROVE  EndsAlerts(d, e, S, why)
  <1> DEFINE m == ResolveAlerts(d, S, why)
  <1>1. /\ m \in Store
        /\ \A a \in Alerts :
              /\ m.alert[a].incident = d.alert[a].incident
              /\ m.alert[a].fingerprint = d.alert[a].fingerprint
              /\ m.alert[a].status = IF a \in S THEN "RESOLVED" ELSE d.alert[a].status
              /\ m.alert[a].reason = IF a \in S THEN why ELSE d.alert[a].reason
        /\ m.incident = d.incident
    BY ResolveAlertsFields
  <1>2. KeepsLedger(m, e)
    BY <1>1, RefreshKeeps
  <1> HIDE DEF m
  <1> QED BY <1>1, <1>2 DEF KeepsLedger, EndsAlerts

(* Alert a is raised on incident i, which may be merged with another.       *)
Raises(d, e, a, i) ==
    /\ \A b \in Alerts :
          /\ e.alert[b].fingerprint = d.alert[b].fingerprint
          /\ e.alert[b].status = d.alert[b].status
          /\ e.alert[b].reason = d.alert[b].reason
    /\ \A b \in Alerts : b # a => e.alert[b].incident = d.alert[b].incident
    /\ e.alert[a].incident = i
    /\ d.incident[i].merged = None
    /\ \A j \in Incidents :
          /\ e.incident[j].merged = d.incident[j].merged
          /\ e.incident[j].status = "absent" => d.incident[j].status = "absent"
          /\ e.incident[j].status = "RECOVERING" => j # i /\ d.incident[j].status = "RECOVERING"

LEMMA AttachRaises ==
    ASSUME NEW d, NEW a \in Alerts, Correlating(d, a), NEW i \in Incidents,
           NEW promote \in BOOLEAN, d.incident[i].merged = None, d.incident[i].status # "absent",
           NEW e, e = AttachAlert(d, i, a, promote)
    PROVE  Raises(d, e, a, i)
  <1>1. d \in Store /\ OwnersAreLinked(d) /\ d.alert[a].incident = None
    BY DEF Correlating, Base
  <1>2. <<i, a>> \notin d.link
    BY <1>1, NoneAssumption DEF OwnersAreLinked
  <1>3. AlertAttached(d, i, a, promote, e)
    BY <1>1, <1>2, AttachAlertFields
  <1> QED BY <1>3 DEF Raises, AlertAttached

LEMMA CorrelatedRaises ==
    ASSUME NEW d, NEW a \in Alerts, Correlating(d, a), UnusedUnmerged(d),
           NEW e \in Correlated(d, a)
    PROVE  \E i \in Incidents : Raises(d, e, a, i)
  <1>1. OwnersAreLinked(d) /\ AlertRowsFit(d)
    BY DEF Correlating, Base
  <1> DEFINE earlier == IncidentsByFingerprint(d, d.alert[a].fingerprint)
  <1>2. \/ \E i \in OpenIncidents(d) \cup earlier, p \in BOOLEAN : e = AttachAlert(d, i, a, p)
        \/ \E i \in FreshIncidents(d) : e = CreateIncident(d, i, a)
    BY DEF Correlated
  <1>3. ASSUME NEW i \in OpenIncidents(d) \cup earlier
        PROVE  i \in Incidents /\ d.incident[i].merged = None /\ d.incident[i].status # "absent"
    <2>1. CASE i \in OpenIncidents(d)
      BY <2>1 DEF OpenIncidents, OpenStates
    <2>2. CASE i \in earlier
      <3>1. i \in Incidents /\ d.incident[i].merged = None
        BY <2>2 DEF IncidentsByFingerprint
      <3>2. PICK b \in Alerts : <<i, b>> \in d.link
        BY <2>2 DEF IncidentsByFingerprint, Attached
      <3>3. d.alert[b].incident = i
        BY <1>1, <3>1, <3>2 DEF OwnersAreLinked
      <3> QED BY <1>1, <3>1, <3>3, NoneAssumption DEF AlertRowsFit
    <2> QED BY <2>1, <2>2
  <1>4. CASE \E i \in OpenIncidents(d) \cup earlier, p \in BOOLEAN : e = AttachAlert(d, i, a, p)
    BY <1>3, <1>4, AttachRaises
  <1>5. CASE \E i \in FreshIncidents(d) : e = CreateIncident(d, i, a)
    <2>1. PICK i \in FreshIncidents(d) : e = CreateIncident(d, i, a)
      BY <1>5
    <2> DEFINE new == InsertIncident(d, i, a)
    <2>2. i \in Incidents /\ d.incident[i].merged = None
      BY DEF FreshIncidents, UnusedUnmerged
    <2>3. /\ Correlating(new, a)
          /\ new.incident[i].status # "absent" /\ new.incident[i].merged = None
          /\ \A j \in Incidents : j # i => new.incident[j] = d.incident[j]
      BY NewIncidentCorrelates
    <2>4. new.alert = d.alert
      BY DEF InsertIncident
    <2>5. e = AttachAlert(new, i, a, TRUE)
      BY <2>1, CreateIncidentAttaches
    <2>6. d.incident[i].status = "absent"
      BY DEF FreshIncidents
    <2> HIDE DEF new
    <2>7. Raises(new, e, a, i)
      BY <2>2, <2>3, <2>5, AttachRaises
    <2>8. Raises(d, e, a, i)
      BY <2>2, <2>3, <2>4, <2>6, <2>7 DEF Raises
    <2> QED BY <2>2, <2>8
  <1> QED BY <1>2, <1>4, <1>5

(* What reconciliation may add: one of two unmerged incidents, of which i is *)
(* one, is merged into the other.                                           *)
LEMMA ReconciledMerges ==
    ASSUME NEW d \in Store, NEW i \in Incidents, d.incident[i].merged = None,
           NEW r \in Reconciled(d, i)
    PROVE  \/ r = d
           \/ \E keep, drop \in Incidents :
                 /\ i \in {keep, drop} /\ keep # drop
                 /\ d.incident[keep].merged = None /\ d.incident[drop].merged = None
                 /\ Merges(d, r, keep, drop)
  <1> DEFINE others == {j \in OpenIncidents(d) \ {i} : Attached(d, j) # {}}
  <1>1. \/ r = d
        \/ \E j \in others : r = MergeIncidents(d, j, i)
        \/ \E j \in others : r = MergeIncidents(d, i, j)
    BY DEF Reconciled
  <1>2. \A j \in others : j \in Incidents /\ j # i /\ d.incident[j].merged = None
    BY DEF OpenIncidents
  <1> HIDE DEF others
  <1>3. ASSUME NEW j \in others, r = MergeIncidents(d, j, i)
        PROVE  Merges(d, r, j, i)
    BY <1>2, <1>3, MergeIncidentsFields
  <1>4. ASSUME NEW j \in others, r = MergeIncidents(d, i, j)
        PROVE  Merges(d, r, i, j)
    BY <1>2, <1>4, MergeIncidentsFields
  <1> QED BY <1>1, <1>2, <1>3, <1>4

-----------------------------------------------------------------------------
(* Steps of the ledger, from what commits.                                  *)

LEMMA LedgerRests ==
    ASSUME \A a \in Alerts :
              /\ committed'.alert[a].status = committed.alert[a].status
              /\ committed'.alert[a].reason = committed.alert[a].reason
              /\ committed'.alert[a].fingerprint = committed.alert[a].fingerprint
              /\ committed'.alert[a].incident = committed.alert[a].incident,
           \A i \in Incidents : committed'.incident[i].merged = committed.incident[i].merged
    PROVE  UNCHANGED Ledger!vars
  BY DEF Ledger!vars

LEMMA LedgerEnds ==
    ASSUME NEW S \in SUBSET Alerts, NEW why \in {"resolved", "stale"}, S # {},
           S \subseteq Firing(committed), EndsAlerts(committed, committed', S, why)
    PROVE  Ledger!End(S, why)
  <1>1. \A a \in S : committed.alert[a].status = "FIRING"
    BY DEF Firing
  <1>2. \A a \in Alerts :
            (IF committed'.alert[a].status = "RESOLVED"
             THEN committed'.alert[a].reason ELSE committed'.alert[a].status)
          = IF a \in S THEN why
            ELSE IF committed.alert[a].status = "RESOLVED"
                 THEN committed.alert[a].reason ELSE committed.alert[a].status
    BY DEF EndsAlerts
  <1>3. /\ \A a \in Alerts :
              /\ committed'.alert[a].incident = committed.alert[a].incident
              /\ committed'.alert[a].fingerprint = committed.alert[a].fingerprint
        /\ \A i \in Incidents : committed'.incident[i].merged = committed.incident[i].merged
    BY DEF EndsAlerts
  <1> QED BY <1>1, <1>2, <1>3 DEF Ledger!End

LEMMA LedgerReleases ==
    ASSUME NEW a \in Alerts, committed \in Store, committed' = DetachAlert(committed, a)
    PROVE  Ledger!Release(a) \/ UNCHANGED Ledger!vars
  <1>1. /\ committed'.alert[a].incident = None
        /\ committed'.alert[a].fingerprint = committed.alert[a].fingerprint
        /\ committed'.alert[a].status = committed.alert[a].status
        /\ committed'.alert[a].reason = committed.alert[a].reason
        /\ \A b \in Alerts : b # a => committed'.alert[b] = committed.alert[b]
        /\ committed'.incident = committed.incident
    BY DetachAlertFields
  <1>2. CASE committed.alert[a].incident = None
    BY <1>1, <1>2, LedgerRests
  <1>3. CASE committed.alert[a].incident # None
    BY <1>1, <1>3 DEF Ledger!Release
  <1> QED BY <1>2, <1>3

LEMMA LedgerRaises ==
    ASSUME StoreInv(committed), UnusedUnmerged(committed),
           NEW f \in Fingerprints, FindFiring(committed, f) = {},
           NEW a \in FreshAlerts(committed),
           NEW d \in Correlated(CreateAlert(committed, a, f), a),
           NEW r \in Reconciled(d, d.alert[a].incident), committed' = r
    PROVE  /\ \E i \in Incidents : Ledger!Raise(a, f, i)
           /\ UnusedUnmerged(r)
           /\ \A i \in Incidents :
                 r.incident[i].status = "RECOVERING" => committed.incident[i].status = "RECOVERING"
  <1> DEFINE c == CreateAlert(committed, a, f)
  <1>1. /\ a \in Alerts /\ committed.alert[a].status = "absent"
        /\ committed \in Store
    BY DEF FreshAlerts, StoreInv, Base
  <1>2. /\ c.alert[a].status = "FIRING" /\ c.alert[a].fingerprint = f
        /\ c.alert[a].incident = None
        /\ \A b \in Alerts : b # a => c.alert[b] = committed.alert[b]
        /\ c.incident = committed.incident
    BY <1>1, CreateAlertFields
  <1>3. /\ Correlating(c, a)
        /\ \A i \in Incidents : c.incident[i].root # a
    BY CreateAlertCorrelates
  <1>4. UnusedUnmerged(c)
    BY <1>2 DEF UnusedUnmerged
  <1>5. d \in Correlated(c, a)
    OBVIOUS
  <1> HIDE DEF c
  <1>6. PICK i \in Incidents : Raises(c, d, a, i)
    BY <1>1, <1>3, <1>4, <1>5, CorrelatedRaises
  <1>7. d \in Store
    <2>1. StoreInv(d)
      BY <1>1, <1>3, <1>5, CorrelatedTracks
    <2> QED BY <2>1 DEF StoreInv, Base
  <1>8. /\ d.incident[i].merged = None
        /\ d.alert[a].incident = i
    BY <1>6 DEF Raises
  <1>9. \/ r = d
        \/ \E keep, drop \in Incidents :
              /\ i \in {keep, drop} /\ keep # drop
              /\ d.incident[keep].merged = None /\ d.incident[drop].merged = None
              /\ Merges(d, r, keep, drop)
    BY <1>7, <1>8, ReconciledMerges
  <1>10. /\ committed.incident[i].merged = None
         /\ \A b \in Alerts : b # a =>
               /\ d.alert[b].status = committed.alert[b].status
               /\ d.alert[b].reason = committed.alert[b].reason
               /\ d.alert[b].fingerprint = committed.alert[b].fingerprint
               /\ d.alert[b].incident = committed.alert[b].incident
         /\ d.alert[a].status = "FIRING" /\ d.alert[a].fingerprint = f
         /\ \A j \in Incidents :
               /\ d.incident[j].merged = committed.incident[j].merged
               /\ d.incident[j].status = "absent" => committed.incident[j].status = "absent"
               /\ d.incident[j].status = "RECOVERING" =>
                     committed.incident[j].status = "RECOVERING"
    <2>1. /\ \A b \in Alerts :
                /\ d.alert[b].fingerprint = c.alert[b].fingerprint
                /\ d.alert[b].status = c.alert[b].status
                /\ d.alert[b].reason = c.alert[b].reason
          /\ \A b \in Alerts : b # a => d.alert[b].incident = c.alert[b].incident
          /\ c.incident[i].merged = None
          /\ \A j \in Incidents :
                /\ d.incident[j].merged = c.incident[j].merged
                /\ d.incident[j].status = "absent" => c.incident[j].status = "absent"
                /\ d.incident[j].status = "RECOVERING" => c.incident[j].status = "RECOVERING"
      BY <1>6 DEF Raises
    <2> QED BY <1>1, <1>2, <2>1
  <1>11. \A b \in Alerts : committed.alert[b].status = "FIRING" => committed.alert[b].fingerprint # f
    BY DEF FindFiring, Firing
  <1> DEFINE held == [[b \in Alerts |-> committed.alert[b].incident] EXCEPT ![a] = i]
  <1>12. ASSUME \A b \in Alerts : /\ r.alert[b].status = d.alert[b].status
                                  /\ r.alert[b].reason = d.alert[b].reason
                                  /\ r.alert[b].fingerprint = d.alert[b].fingerprint,
                \/ /\ [b \in Alerts |-> r.alert[b].incident] = held
                   /\ [j \in Incidents |-> r.incident[j].merged]
                        = [j \in Incidents |-> committed.incident[j].merged]
                \/ \E keep, drop \in Incidents : i \in {keep, drop} /\ Ledger!Merge(held, keep, drop)
         PROVE  Ledger!Raise(a, f, i)
    <2> DEFINE ended(x, b) == IF x.alert[b].status = "RESOLVED"
                              THEN x.alert[b].reason ELSE x.alert[b].status
    <2>1. ended(committed, a) = "absent"
      BY <1>1
    <2>2. Ledger!Quiet(f)
      <3> SUFFICES ASSUME NEW b \in Alerts, ended(committed, b) = "FIRING"
                   PROVE  committed.alert[b].fingerprint # f
        BY DEF Ledger!Quiet
      <3>1. committed.alert[b] \in AlertRow
        BY <1>1, StoreParts
      <3>2. committed.alert[b].status = "FIRING"
        BY <3>1 DEF AlertRow
      <3> QED BY <1>11, <3>2
    <2>3. \A b \in Alerts : ended(r, b) = IF b = a THEN "FIRING" ELSE ended(committed, b)
      BY <1>10, <1>12
    <2>4. \A b \in Alerts :
            r.alert[b].fingerprint = IF b = a THEN f ELSE committed.alert[b].fingerprint
      BY <1>10, <1>12
    <2>5. [b \in Alerts |-> ended(r, b)]
            = [[b \in Alerts |-> ended(committed, b)] EXCEPT ![a] = "FIRING"]
      BY <1>1, <2>3
    <2>6. [b \in Alerts |-> r.alert[b].fingerprint]
            = [[b \in Alerts |-> committed.alert[b].fingerprint] EXCEPT ![a] = f]
      BY <1>1, <2>4
    <2> QED BY <1>1, <1>10, <1>12, <2>1, <2>2, <2>5, <2>6 DEF Ledger!Raise
  <1>13. CASE r = d
    <2>1. \A b \in Alerts : r.alert[b].incident = IF b = a THEN i ELSE committed.alert[b].incident
      BY <1>8, <1>10, <1>13
    <2>2. [b \in Alerts |-> r.alert[b].incident] = held
      BY <1>1, <2>1
    <2>3. Ledger!Raise(a, f, i)
      BY <1>10, <1>12, <1>13, <2>2
    <2> QED BY <1>10, <1>13, <2>3 DEF UnusedUnmerged
  <1>14. ASSUME NEW keep \in Incidents, NEW drop \in Incidents,
                i \in {keep, drop}, keep # drop,
                d.incident[keep].merged = None, d.incident[drop].merged = None,
                Merges(d, r, keep, drop)
         PROVE  /\ Ledger!Raise(a, f, i)
                /\ UnusedUnmerged(r)
                /\ \A j \in Incidents : r.incident[j].status = "RECOVERING" =>
                                           committed.incident[j].status = "RECOVERING"
    <2>1. /\ \A b \in Alerts :
                /\ r.alert[b].incident = IF d.alert[b].incident = drop
                                         THEN keep ELSE d.alert[b].incident
                /\ r.alert[b].fingerprint = d.alert[b].fingerprint
                /\ r.alert[b].status = d.alert[b].status
                /\ r.alert[b].reason = d.alert[b].reason
          /\ r.incident[drop].status = "MERGED"
          /\ r.incident[drop].merged = keep
          /\ \A j \in Incidents : j # drop => r.incident[j] = d.incident[j]
      BY <1>14 DEF Merges
    <2>2. \A b \in Alerts : held[b] = d.alert[b].incident
      BY <1>1, <1>8, <1>10
    <2>3. [b \in Alerts |-> r.alert[b].incident]
            = [b \in Alerts |-> IF held[b] = drop THEN keep ELSE held[b]]
      BY <2>1, <2>2
    <2>4. \A j \in Incidents :
            r.incident[j].merged = IF j = drop THEN keep ELSE committed.incident[j].merged
      BY <1>10, <2>1
    <2>5. [j \in Incidents |-> r.incident[j].merged]
            = [[j \in Incidents |-> committed.incident[j].merged] EXCEPT ![drop] = keep]
      BY <2>4
    <2>6. committed.incident[keep].merged = None /\ committed.incident[drop].merged = None
      BY <1>10, <1>14
    <2>7. Ledger!Merge(held, keep, drop)
      BY <1>14, <2>3, <2>5, <2>6 DEF Ledger!Merge
    <2>8. Ledger!Raise(a, f, i)
      BY <1>12, <1>14, <2>1, <2>7
    <2> QED BY <1>10, <2>1, <2>8 DEF UnusedUnmerged
  <1> QED BY <1>9, <1>13, <1>14

-----------------------------------------------------------------------------
(* What each step owes: the invariant, a step of the ledger, and that nobody *)
(* is put under observation while an alert fires.                           *)

StartsQuiet == \A i \in Incidents : Enters(i, "RECOVERING") => ~HasFiring(committed', i)

Owed == LInv' /\ [Ledger!Next]_(Ledger!vars) /\ StartsQuiet

LEMMA OwedByLedger ==
    ASSUME LInv', StartsQuiet, Ledger!Next \/ UNCHANGED Ledger!vars
    PROVE  Owed
  BY DEF Owed

(* Outside the round's transaction there is one store, and whoever commits   *)
(* replaces it.                                                            *)
LEMMA CommitOwes ==
    ASSUME LInv, IInv', NEW d, Commit(d), UNCHANGED sweep, UnusedUnmerged(d)
    PROVE  LInv' /\ db = committed /\ committed' = d
  <1>1. ~sweep.txn /\ db' = d /\ committed' = d /\ sweep' = sweep
    BY DEF Commit
  <1>2. db = committed /\ (sweep.phase = "idle" => sweep = IdleSweep)
    BY <1>1 DEF LInv
  <1>3. Behind(d, d)
    BY BehindSelf
  <1>4. Behind(committed', db') /\ UnusedUnmerged(db') /\ UnusedUnmerged(committed')
    BY <1>1, <1>3
  <1>5. (sweep'.phase = "idle" => sweep' = IdleSweep) /\ (~sweep'.txn => db' = committed')
    BY <1>1, <1>2
  <1> QED BY <1>1, <1>2, <1>4, <1>5 DEF LInv, Behind, UnusedUnmerged, HasFiring, Owned, IdleSweep, NotLoaded

LEMMA RefreshOwes ==
    ASSUME LInv, IInv', NEW S, Commit(RefreshStates(db, S)), UNCHANGED sweep
    PROVE  Owed
  <1> DEFINE d == RefreshStates(db, S)
  <1>1. db \in Store /\ UnusedUnmerged(db)
    BY DEF LInv, IInv, StoreInv, Base
  <1>2. KeepsLedger(db, d)
    BY <1>1, RefreshKeeps
  <1>3. UnusedUnmerged(d)
    BY <1>1, <1>2 DEF UnusedUnmerged, KeepsLedger
  <1> HIDE DEF d
  <1>4. LInv' /\ db = committed /\ committed' = d
    BY <1>3, CommitOwes DEF d
  <1>5. UNCHANGED Ledger!vars
    BY <1>2, <1>4, LedgerRests DEF KeepsLedger
  <1>6. StartsQuiet
    BY <1>2, <1>4 DEF KeepsLedger, StartsQuiet, Enters
  <1> QED BY <1>4, <1>5, <1>6, OwedByLedger

LEMMA WebhookOwes ==
    ASSUME LInv, Webhook
    PROVE  Owed
  <1>1. IInv' /\ UNCHANGED sweep
    BY WebhookPreserves DEF LInv, Webhook, RepeatFiring, NewFiring, ResolvedEvent
  <1>2. StoreInv(db) /\ db \in Store /\ UnusedUnmerged(db)
    BY DEF LInv, IInv, StoreInv, Base
  <1>3. PICK f \in Fingerprints : RepeatFiring(f) \/ NewFiring(f) \/ ResolvedEvent(f)
    BY DEF Webhook
  <1>4. CASE RepeatFiring(f)
    BY <1>1, <1>4, RefreshOwes DEF RepeatFiring
  <1>5. CASE NewFiring(f)
    <2>1. PICK a \in FreshAlerts(db) :
            \E d \in Correlated(CreateAlert(db, a, f), a) :
            \E r \in Reconciled(d, d.alert[a].incident) : Commit(r)
      BY <1>5 DEF NewFiring
    <2>2. PICK d \in Correlated(CreateAlert(db, a, f), a) :
            \E r \in Reconciled(d, d.alert[a].incident) : Commit(r)
      BY <2>1
    <2>3. PICK r \in Reconciled(d, d.alert[a].incident) : Commit(r)
      BY <2>2
    <2>4. FindFiring(db, f) = {}
      BY <1>5 DEF NewFiring
    <2>5. db = committed /\ committed' = r /\ a \in Alerts
      BY <2>3 DEF Commit, LInv, FreshAlerts
    <2>6. /\ \E i \in Incidents : Ledger!Raise(a, f, i)
          /\ UnusedUnmerged(r)
          /\ \A i \in Incidents :
                r.incident[i].status = "RECOVERING" => committed.incident[i].status = "RECOVERING"
      BY <1>2, <2>1, <2>2, <2>3, <2>4, <2>5, LedgerRaises
    <2>7. LInv'
      BY <1>1, <2>3, <2>6, CommitOwes
    <2>8. Ledger!Next
      BY <1>3, <2>5, <2>6 DEF Ledger!Next
    <2>9. StartsQuiet
      BY <2>5, <2>6 DEF StartsQuiet, Enters
    <2> QED BY <2>7, <2>8, <2>9, OwedByLedger
  <1>6. CASE ResolvedEvent(f)
    <2> DEFINE ended(a) == ResolveAlerts(db, {a}, "resolved")
               after(a) == RefreshStates(ended(a), OwnersOf(ended(a), {a}))
    <2>1. PICK a \in FindFiring(db, f) : Commit(after(a))
      BY <1>6 DEF ResolvedEvent
    <2>2. a \in Alerts /\ {a} \in SUBSET Alerts /\ {a} \subseteq Firing(db)
      BY DEF FindFiring, Firing
    <2>3. EndsAlerts(db, after(a), {a}, "resolved")
      BY <1>2, <2>2, ResolveEnds
    <2> HIDE DEF ended, after
    <2>4. UnusedUnmerged(after(a))
      BY <1>2, <2>3 DEF UnusedUnmerged, EndsAlerts
    <2>5. LInv' /\ db = committed /\ committed' = after(a)
      BY <1>1, <2>1, <2>4, CommitOwes
    <2>6. Ledger!End({a}, "resolved")
      BY <2>2, <2>3, <2>5, LedgerEnds
    <2>7. Ledger!Next
      BY <2>2, <2>6 DEF Ledger!Next, Ledger!Recover
    <2>8. StartsQuiet
      BY <2>3, <2>5 DEF EndsAlerts, StartsQuiet, Enters
    <2> QED BY <2>5, <2>7, <2>8, OwedByLedger
  <1> QED BY <1>3, <1>4, <1>5, <1>6

(* A transaction that changes one row of an incident, and not into           *)
(* observation.                                                            *)
LEMMA RowOwes ==
    ASSUME LInv, IInv', NEW i \in Incidents, NEW row,
           row.merged = db.incident[i].merged,
           row.status = "absent" => db.incident[i].status = "absent",
           row.status = "RECOVERING" => db.incident[i].status = "RECOVERING",
           Commit([db EXCEPT !.incident[i] = row]), UNCHANGED sweep
    PROVE  Owed
  <1> DEFINE d == [db EXCEPT !.incident[i] = row]
  <1>1. db \in Store /\ UnusedUnmerged(db)
    BY DEF LInv, IInv, StoreInv, Base
  <1>2. /\ d.alert = db.alert
        /\ d.incident[i] = row
        /\ \A j \in Incidents : j # i => d.incident[j] = db.incident[j]
    BY <1>1 DEF Store
  <1> HIDE DEF d
  <1>3. UnusedUnmerged(d)
    BY <1>1, <1>2 DEF UnusedUnmerged
  <1>4. LInv' /\ db = committed /\ committed' = d
    BY <1>3, CommitOwes DEF d
  <1>5. UNCHANGED Ledger!vars
    BY <1>2, <1>4, LedgerRests
  <1>6. StartsQuiet
    BY <1>2, <1>4 DEF StartsQuiet, Enters
  <1> QED BY <1>4, <1>5, <1>6, OwedByLedger

(* A step that commits nothing owes the invariant only.                     *)
LEMMA QuietOwes ==
    ASSUME LInv', UNCHANGED committed
    PROVE  Owed
  <1>1. UNCHANGED Ledger!vars
    BY LedgerRests
  <1>2. StartsQuiet
    BY DEF StartsQuiet, Enters
  <1> QED BY <1>1, <1>2, OwedByLedger

LEMMA OperatorOwes ==
    ASSUME LInv, OperatorStep
    PROVE  Owed
  <1>1. IInv'
    BY OperatorPreserves DEF LInv
  <1>2. db \in Store /\ UnusedUnmerged(db) /\ RequestsFit
    BY DEF LInv, IInv, StoreInv, Base
  <1>3. \A i \in Incidents : db.incident[i] \in IncidentRow
    BY <1>2, StoreParts
  <1>4. ASSUME UNCHANGED <<db, committed, sweep>>
        PROVE  Owed
    BY <1>1, <1>4, QuietOwes DEF LInv, Behind, UnusedUnmerged, HasFiring, Owned, IdleSweep, NotLoaded
  <1>5. ASSUME NEW o \in Operators, AckIncident(o)
        PROVE  Owed
    <2> DEFINE i == op[o].incident
               row == [db.incident[i] EXCEPT !.status = "ACKNOWLEDGED"]
    <2>1. i \in Incidents /\ UNCHANGED sweep
      BY <1>2, <1>5 DEF AckIncident, RequestsFit, Finish
    <2>2. row.merged = db.incident[i].merged /\ row.status = "ACKNOWLEDGED"
      BY <1>3, <2>1 DEF IncidentRow
    <2>3. [db EXCEPT !.incident[op[o].incident].status = "ACKNOWLEDGED"]
            = [db EXCEPT !.incident[i] = row]
      BY <1>2, <2>1 DEF Store
    <2>4. db = [db EXCEPT !.incident[i] = db.incident[i]]
      BY <1>2, <2>1 DEF Store
    <2>5. Commit([db EXCEPT !.incident[i] = row])
            \/ Commit([db EXCEPT !.incident[i] = db.incident[i]])
      BY <1>5, <2>3, <2>4 DEF AckIncident
    <2> HIDE DEF row
    <2> QED BY <1>1, <2>1, <2>2, <2>5, RowOwes
  <1>6. ASSUME NEW o \in Operators, ResolveIncident(o)
        PROVE  Owed
    <2> DEFINE i == op[o].incident
               row == Flush(db.incident[i], op[o].seen, "RESOLVED")
    <2>1. i \in Incidents /\ UNCHANGED sweep
      BY <1>2, <1>6 DEF ResolveIncident, RequestsFit, Finish
    <2>2. /\ row.merged = db.incident[i].merged
          /\ row.status = "absent" => db.incident[i].status = "absent"
          /\ row.status = "RECOVERING" => db.incident[i].status = "RECOVERING"
      BY <1>3, <2>1 DEF Flush, IncidentRow
    <2>3. Commit([db EXCEPT !.incident[i] = row])
      BY <1>6 DEF ResolveIncident
    <2> HIDE DEF row
    <2> QED BY <1>1, <2>1, <2>2, <2>3, RowOwes
  <1>7. ASSUME NEW o \in Operators, Detach(o)
        PROVE  Owed
    <2>1. PICK a \in Alerts : a = op[o].alert
      BY <1>2, <1>7 DEF Detach, RequestsFit
    <2> DEFINE d == DetachAlert(db, a)
    <2>2. UNCHANGED sweep /\ Commit(d)
      BY <1>7, <2>1 DEF Detach, Finish
    <2>3. d.incident = db.incident
      BY <1>2, DetachAlertFields
    <2>4. UnusedUnmerged(d)
      BY <1>2, <2>3 DEF UnusedUnmerged
    <2>5. LInv' /\ db = committed /\ committed' = d
      BY <1>1, <2>2, <2>4, CommitOwes
    <2>6. StartsQuiet
      BY <2>3, <2>5 DEF StartsQuiet, Enters
    <2>7. committed \in Store /\ committed' = DetachAlert(committed, a)
      BY <1>2, <2>5
    <2>8. Ledger!Release(a) \/ UNCHANGED Ledger!vars
      BY <2>7, LedgerReleases
    <2>9. Ledger!Release(a) => Ledger!Next
      BY DEF Ledger!Next
    <2> QED BY <2>5, <2>6, <2>8, <2>9, OwedByLedger
  <1> QED BY <1>4, <1>5, <1>6, <1>7 DEF OperatorStep, OperatorLoads, OperatorPicksLink

LEMMA SweepOwes ==
    ASSUME LInv, SweepStep
    PROVE  Owed
  <1>1. IInv'
    BY SweepPreserves DEF LInv
  <1>2. /\ db \in Store /\ committed \in Store /\ sweep \in Sweep
        /\ UnusedUnmerged(db) /\ UnusedUnmerged(committed)
        /\ Behind(committed, db)
        /\ sweep.phase = "idle" => sweep = IdleSweep
        /\ ~sweep.txn => db = committed
    BY DEF LInv, IInv, StoreInv, Base
  <1>3. ASSUME UNCHANGED committed, sweep'.phase # "idle",
               ~sweep'.txn => db' = committed',
               Behind(committed, db'), UnusedUnmerged(db')
        PROVE  Owed
    <2>1. LInv'
      BY <1>1, <1>2, <1>3 DEF LInv, Behind, UnusedUnmerged, HasFiring, Owned, IdleSweep, NotLoaded
    <2> QED BY <1>3, <2>1, QuietOwes
  <1>4. ASSUME NEW S \in SUBSET Alerts, SweepExpire(S)
        PROVE  Owed
    <2> DEFINE m == ResolveAlerts(db, S, "stale")
    <2>1. /\ sweep = IdleSweep /\ UNCHANGED committed
          /\ S \subseteq Firing(db)
          /\ db' = RefreshStates(m, OwnersOf(m, S))
          /\ sweep' = [sweep EXCEPT !.phase = "expired", !.txn = S # {}]
      BY <1>2, <1>4 DEF SweepExpire
    <2>2. db = committed
      BY <1>2, <2>1 DEF IdleSweep
    <2>3. EndsAlerts(db, db', S, "stale")
      BY <1>2, <2>1, ResolveEnds
    <2>4. Behind(committed, db') /\ UnusedUnmerged(db')
      BY <1>2, <2>1, <2>2, <2>3 DEF EndsAlerts, Behind, UnusedUnmerged, Firing
    <2>5. sweep'.phase = "expired" /\ sweep'.txn = (S # {})
      BY <1>2, <2>1 DEF Sweep
    <2>6. ASSUME S = {}
          PROVE  db' = db
      <3>1. [b \in Alerts |-> db.alert[b]] = db.alert
        BY <1>2 DEF Store
      <3>2. m = db
        BY <1>2, <2>6, <3>1 DEF ResolveAlerts, Store
      <3>3. OwnersOf(m, S) = {}
        BY <2>6 DEF OwnersOf
      <3>4. [j \in Incidents |-> db.incident[j]] = db.incident
        BY <1>2 DEF Store
      <3> HIDE DEF m
      <3>5. RefreshStates(m, OwnersOf(m, S)) = db
        BY <1>2, <3>2, <3>3, <3>4 DEF RefreshStates, Store
      <3> QED BY <2>1, <3>5
    <2> QED BY <1>3, <2>1, <2>2, <2>4, <2>5, <2>6
  <1>5. ASSUME UNCHANGED <<db, committed>>, sweep'.phase # "idle", sweep'.txn = sweep.txn
        PROVE  Owed
    BY <1>2, <1>3, <1>5
  <1>6. CASE SweepSelectRecovering
    <2>1. sweep'.phase = "explicit" /\ sweep'.txn = sweep.txn
      BY <1>2, <1>6 DEF SweepSelectRecovering, Select, Sweep
    <2> QED BY <1>5, <1>6, <2>1 DEF SweepSelectRecovering
  <1>7. ASSUME NEW i \in Incidents, SweepVerify(i)
        PROVE  Owed
    <2>1. sweep'.phase = sweep.phase /\ sweep'.txn = sweep.txn
      BY <1>2, <1>7 DEF SweepVerify, Sweep
    <2>2. sweep.phase # "idle"
      BY <1>2, <1>7 DEF SweepVerify, IdleSweep
    <2> QED BY <1>5, <1>7, <2>1, <2>2 DEF SweepVerify
  <1>8. ASSUME NEW i \in Incidents, SweepApply(i)
        PROVE  Owed
    <2> DEFINE row == Applied(db.incident[i], sweep.seen[i], sweep.verdict[i], sweep.phase)
    <2>1. /\ sweep.seen[i] \in Loaded /\ sweep.phase \in Phases
          /\ sweep.verdict[i] \in Verdicts /\ db.incident[i] \in IncidentRow
      BY <1>2, <1>8, StoreParts DEF SweepApply, Sweep
    <2>2. /\ row.merged = db.incident[i].merged
          /\ db.incident[i].status # "absent" => row.status # "absent"
          /\ row.status = "RECOVERING" => db.incident[i].status = "RECOVERING"
      BY <2>1, AppliedRow
    <2>3. db' = [db EXCEPT !.incident[i] = row]
      BY <1>8 DEF SweepApply
    <2> HIDE DEF row
    <2>4. /\ db'.alert = db.alert /\ db'.incident[i] = row
          /\ \A j \in Incidents : j # i => db'.incident[j] = db.incident[j]
      BY <1>2, <2>3 DEF Store
    <2>5. UnusedUnmerged(db')
      BY <1>2, <2>2, <2>4 DEF UnusedUnmerged
    <2>6. Behind(committed, db')
      BY <1>2, <2>2, <2>4 DEF Behind, HasFiring, Owned
    <2>7. sweep.phase # "idle"
      BY <1>2, <1>8 DEF SweepApply, IdleSweep
    <2>8. sweep'.phase = sweep.phase /\ sweep'.txn /\ UNCHANGED committed
      BY <1>2, <1>8 DEF SweepApply, Sweep
    <2> QED BY <1>3, <2>5, <2>6, <2>7, <2>8
  <1>9. ASSUME NEW S \in SUBSET Incidents, SweepSelectProbes(S)
        PROVE  Owed
    <2>1. sweep'.phase = "probe" /\ sweep'.txn = sweep.txn
      BY <1>2, <1>9 DEF SweepSelectProbes, Select, Sweep
    <2> QED BY <1>5, <1>9, <2>1 DEF SweepSelectProbes
  <1>10. CASE SweepCommit
    <2>1. committed' = db /\ db' = db /\ sweep' = IdleSweep
      BY <1>10 DEF SweepCommit
    <2>2. LInv'
      BY <1>1, <1>2, <2>1, BehindSelf DEF LInv, UnusedUnmerged
    <2>3. StartsQuiet
      BY <1>2, <2>1 DEF Behind, StartsQuiet, Enters
    <2> DEFINE S == {a \in Alerts : db.alert[a].status # committed.alert[a].status}
    <2>4. /\ S \in SUBSET Alerts /\ S \subseteq Firing(committed)
          /\ EndsAlerts(committed, committed', S, "stale")
      <3>1. \A a \in Alerts :
              /\ db.alert[a].fingerprint = committed.alert[a].fingerprint
              /\ db.alert[a].incident = committed.alert[a].incident
              /\ a \in S => /\ committed.alert[a].status = "FIRING"
                            /\ db.alert[a].status = "RESOLVED"
                            /\ db.alert[a].reason = "stale"
              /\ a \notin S => /\ db.alert[a].status = committed.alert[a].status
                               /\ db.alert[a].reason = committed.alert[a].reason
        BY <1>2 DEF Behind
      <3>2. \A i \in Incidents :
              /\ db.incident[i].merged = committed.incident[i].merged
              /\ db.incident[i].status = "absent" => committed.incident[i].status = "absent"
              /\ db.incident[i].status = "RECOVERING" =>
                    committed.incident[i].status = "RECOVERING" \/ ~HasFiring(db, i)
        BY <1>2 DEF Behind
      <3>3. S \in SUBSET Alerts /\ S \subseteq Firing(committed)
        BY <3>1 DEF Firing
      <3> HIDE DEF S
      <3>4. EndsAlerts(committed, db, S, "stale")
        BY <3>1, <3>2 DEF EndsAlerts
      <3> QED BY <2>1, <3>3, <3>4
    <2>5. CASE S = {}
      <3>1. UNCHANGED Ledger!vars
        BY <2>4, <2>5, LedgerRests DEF EndsAlerts
      <3> QED BY <2>2, <2>3, <3>1, OwedByLedger
    <2>6. CASE S # {}
      <3> HIDE DEF S
      <3>1. Ledger!End(S, "stale")
        BY <2>4, <2>6, LedgerEnds
      <3>2. Ledger!Next
        BY <2>4, <3>1 DEF Ledger!Next, Ledger!Expire
      <3> QED BY <2>2, <2>3, <3>2, OwedByLedger
    <2> QED BY <2>5, <2>6
  <1> QED BY <1>4, <1>6, <1>7, <1>8, <1>9, <1>10 DEF SweepStep

LEMMA EnvironmentOwes ==
    ASSUME LInv, (\E i \in Incidents : DeadlinePasses(i)) \/ SweepFails \/ Crash
    PROVE  Owed
  <1>1. IInv'
    BY EnvironmentPreserves DEF LInv
  <1>2. db \in Store /\ committed \in Store /\ UnusedUnmerged(committed)
    BY DEF LInv, IInv, StoreInv, Base
  <1>3. ASSUME NEW i \in Incidents, DeadlinePasses(i)
        PROVE  Owed
    <2> DEFINE row == [committed.incident[i] EXCEPT !.deadline = "passed"]
    <2>1. sweep = IdleSweep /\ sweep' = sweep /\ db = committed
      BY <1>3 DEF LInv, DeadlinePasses, IdleSweep
    <2>2. /\ db' = committed'
          /\ committed' = [committed EXCEPT !.incident[i].deadline = "passed"]
      BY <1>3, <2>1 DEF DeadlinePasses
    <2>3. row.merged = committed.incident[i].merged /\ row.status = committed.incident[i].status
      BY <1>2, StoreParts DEF IncidentRow
    <2>4. /\ committed'.alert = committed.alert
          /\ committed'.incident[i] = row
          /\ \A j \in Incidents : j # i => committed'.incident[j] = committed.incident[j]
      BY <1>2, <2>2 DEF Store
    <2> HIDE DEF row
    <2>5. \A j \in Incidents :
            /\ committed'.incident[j].merged = committed.incident[j].merged
            /\ committed'.incident[j].status = committed.incident[j].status
      BY <2>3, <2>4
    <2>6. UnusedUnmerged(committed')
      BY <1>2, <2>5 DEF UnusedUnmerged
    <2>7. Behind(committed', committed')
      BY BehindSelf
    <2>8. LInv'
      BY <1>1, <2>1, <2>2, <2>6, <2>7 DEF LInv, UnusedUnmerged, Behind, HasFiring, Owned, IdleSweep, NotLoaded
    <2>9. UNCHANGED Ledger!vars
      BY <2>4, <2>5, LedgerRests
    <2>10. StartsQuiet
      BY <2>5 DEF StartsQuiet, Enters
    <2> QED BY <2>8, <2>9, <2>10, OwedByLedger
  <1>4. CASE SweepFails \/ Crash
    <2>1. committed' = committed /\ db' = committed /\ sweep' = IdleSweep
      BY <1>4 DEF SweepFails, Crash
    <2>2. LInv'
      BY <1>1, <1>2, <2>1, BehindSelf DEF LInv, UnusedUnmerged, Behind, HasFiring, Owned
    <2> QED BY <2>1, <2>2, QuietOwes
  <1> QED BY <1>3, <1>4

LEMMA StutterOwes ==
    ASSUME LInv, UNCHANGED vars
    PROVE  Owed
  <1>1. IInv'
    BY NextSound DEF LInv
  <1>2. LInv'
    BY <1>1 DEF LInv, vars, Behind, UnusedUnmerged, HasFiring, Owned, IdleSweep, NotLoaded
  <1> QED BY <1>2, QuietOwes DEF vars

LEMMA NextOwes == LInv /\ [Next]_vars => Owed
  BY WebhookOwes, SweepOwes, OperatorOwes, EnvironmentOwes, StutterOwes DEF Next

LEMMA LedgerStarts == Init => LInv /\ Ledger!Init
  <1> SUFFICES ASSUME Init PROVE LInv /\ Ledger!Init
    OBVIOUS
  <1>1. /\ db = EmptyStore /\ committed = EmptyStore /\ sweep = IdleSweep
    BY DEF Init
  <1>2. /\ \A a \in Alerts : /\ committed.alert[a].status = "absent"
                              /\ committed.alert[a].fingerprint = None
                              /\ committed.alert[a].incident = None
        /\ \A i \in Incidents : committed.incident[i].merged = None
    BY <1>1 DEF EmptyStore, AbsentAlert, AbsentIncident
  <1>3. LInv
    BY <1>1, <1>2, InitSound, BehindSelf DEF LInv, UnusedUnmerged
  <1>4. Ledger!Init
    BY <1>2 DEF Ledger!Init
  <1> QED BY <1>3, <1>4

-----------------------------------------------------------------------------
(* The store a round builds differs from the committed one only by alerts     *)
(* that fell silent and by rows of incidents, whoever else commits.          *)
THEOREM LedgerInvariant == Spec => []LInv
  BY LedgerStarts, NextOwes, PTL DEF Spec, Owed

(* Webhooks, rounds of the sweep, operators with stale rows and crashes are,  *)
(* for any sets of alerts and incidents, steps of the ledger.                *)
THEOREM LifecycleImplementsLedger == Spec => ImplementsLedger
  <1>1. LInv /\ [Next]_vars => [Ledger!Next]_(Ledger!vars)
    BY NextOwes DEF Owed
  <1> QED BY <1>1, LedgerStarts, LedgerInvariant, PTL DEF Spec, ImplementsLedger, Ledger!Spec

(* No transaction puts an incident with a firing alert under observation.    *)
THEOREM RecoveryAlwaysStartsQuiet == Spec => RecoveryStartsQuiet
  <1>1. LInv /\ [Next]_vars => StartsQuiet
    BY NextOwes DEF Owed
  <1>2. StartsQuiet =>
          [\A i \in Incidents : Enters(i, "RECOVERING") => ~HasFiring(committed', i)]_vars
    BY DEF StartsQuiet
  <1> QED BY <1>1, <1>2, LedgerInvariant, PTL DEF Spec, RecoveryStartsQuiet

-----------------------------------------------------------------------------
(* What the ledger promises holds of the threads that implement it.          *)


LEMMA LedgerStepIsFinal ==
    ASSUME Ledger!Next
    PROVE  Ledger!EndsStand /\ Ledger!MergesStand /\ Ledger!MovesFollow
  <1>1. ASSUME NEW a \in Alerts, NEW f \in Fingerprints, NEW i \in Incidents, Ledger!Raise(a, f, i)
        PROVE  Ledger!EndsStand /\ Ledger!MergesStand /\ Ledger!MovesFollow
    <2>1. Ledger!EndsStand
      BY <1>1 DEF Ledger!Raise, Ledger!EndsStand
    <2>2. Ledger!MergesStand
      BY <1>1 DEF Ledger!Raise, Ledger!Merge, Ledger!MergesStand
    <2> DEFINE held == [[b \in Alerts |-> committed.alert[b].incident] EXCEPT ![a] = i]
    <2>3. CASE [b \in Alerts |-> committed'.alert[b].incident] = held
      <3>1. Ledger!MovesFollow
        BY <1>1, <2>3 DEF Ledger!Raise, Ledger!MovesFollow
      <3> QED BY <2>1, <2>2, <3>1
    <2>4. ASSUME NEW keep \in Incidents, NEW drop \in Incidents, Ledger!Merge(held, keep, drop)
          PROVE  Ledger!MovesFollow
      <3>1. /\ \A b \in Alerts : committed'.alert[b].incident
                                  = IF held[b] = drop THEN keep ELSE held[b]
            /\ committed'.incident[drop].merged = keep
        BY <2>4 DEF Ledger!Merge
      <3>2. \A b \in Alerts : b # a => held[b] = committed.alert[b].incident
        OBVIOUS
      <3>3. committed.alert[a].status = "absent" \/ (committed.alert[a].status = "RESOLVED"
                                                    /\ committed.alert[a].reason = "absent")
        BY <1>1 DEF Ledger!Raise
      <3> HIDE DEF held
      <3> QED BY <3>1, <3>2, <3>3 DEF Ledger!MovesFollow
    <2> QED BY <1>1, <2>1, <2>2, <2>3, <2>4 DEF Ledger!Raise
  <1>2. ASSUME NEW S \in SUBSET Alerts, NEW why \in {"resolved", "stale"}, Ledger!End(S, why)
        PROVE  Ledger!EndsStand /\ Ledger!MergesStand /\ Ledger!MovesFollow
    <2>1. Ledger!EndsStand
      <3> DEFINE old(b) == IF committed.alert[b].status = "RESOLVED"
                           THEN committed.alert[b].reason ELSE committed.alert[b].status
                 new(b) == IF committed'.alert[b].status = "RESOLVED"
                           THEN committed'.alert[b].reason ELSE committed'.alert[b].status
      <3>1. \A b \in Alerts : /\ b \in S => old(b) = "FIRING"
                              /\ new(b) = IF b \in S THEN why ELSE old(b)
                              /\ committed'.alert[b].fingerprint = committed.alert[b].fingerprint
        BY <1>2 DEF Ledger!End
      <3>2. SUFFICES \A b \in Alerts : old(b) \in {"resolved", "stale"} =>
                         /\ new(b) = old(b)
                         /\ committed'.alert[b].fingerprint = committed.alert[b].fingerprint
        BY DEF Ledger!EndsStand
      <3> HIDE DEF old, new
      <3> QED BY <3>1
    <2>2. Ledger!MergesStand
      BY <1>2 DEF Ledger!End, Ledger!MergesStand
    <2>3. Ledger!MovesFollow
      BY <1>2 DEF Ledger!End, Ledger!MovesFollow
    <2> QED BY <2>1, <2>2, <2>3
  <1>3. ASSUME NEW a \in Alerts, Ledger!Release(a)
        PROVE  Ledger!EndsStand /\ Ledger!MergesStand /\ Ledger!MovesFollow
    BY <1>3 DEF Ledger!Release, Ledger!EndsStand, Ledger!MergesStand, Ledger!MovesFollow
  <1> QED BY <1>1, <1>2, <1>3 DEF Ledger!Next, Ledger!Recover, Ledger!Expire

LEMMA LedgerStands ==
    ASSUME LInv, [Next]_vars
    PROVE  [Ledger!EndsStand /\ Ledger!MergesStand /\ Ledger!MovesFollow]_(Ledger!vars)
  <1>1. [Ledger!Next]_(Ledger!vars)
    BY NextOwes DEF Owed
  <1> QED BY <1>1, LedgerStepIsFinal

(* How an alert ended, and of which fault, is never rewritten.               *)
THEOREM HistoryNeverRewritten == Spec => Ledger!HistoryIsFinal
  BY LedgerStands, LedgerInvariant, PTL DEF Spec, Ledger!HistoryIsFinal

(* An incident that was merged stays merged into the same one.               *)
THEOREM MergesNeverUndone == Spec => Ledger!MergeIsFinal
  BY LedgerStands, LedgerInvariant, PTL DEF Spec, Ledger!MergeIsFinal

(* No sweep, webhook or operator moves an alert to an incident other than    *)
(* the one its own was merged into.                                         *)
THEOREM AlertsMoveByMerges == Spec => Ledger!MovesAreMerges
  BY LedgerStands, LedgerInvariant, PTL DEF Spec, Ledger!MovesAreMerges

=============================================================================
