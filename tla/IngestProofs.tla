----------------------------- MODULE IngestProofs -----------------------------
(***************************************************************************)
(* Proofs, for any events, threads, batches and bounds, that Ingest applies  *)
(* an event once, acknowledges only what is stored, writes no more lines to  *)
(* the archive than it got deliveries, gives its locks back, and implements  *)
(* EventInbox.                                                              *)
(***************************************************************************)
EXTENDS Ingest, FiniteSetTheorems, TLAPS

Active == {"begin", "open", "archived"}

(* The phase of a delivery says whether items are left and who holds SQLite's *)
(* write lock; a round that waits has a section to enter.                   *)
PhasesFit ==
    /\ \A t \in Threads :
        /\ http[t].phase \in Active \cup {"waiting"} => http[t].todo # <<>>
        /\ http[t].phase \in {"open", "archived"} => writeLock = t
    /\ sweep.phase = "wants" => sweep.left > 0

(* Nobody else stores the event between the check for a duplicate and the    *)
(* commit.                                                                 *)
CheckHolds ==
    \A t \in Threads : http[t].phase = "archived" => stored[Head(http[t].todo)] = "absent"

AppliedWithRow == \A e \in Events : applied[e] <= IF stored[e] = "absent" THEN 0 ELSE 1

DoneIsStored ==
    /\ \A e \in acknowledged : stored[e] # "absent"
    /\ \A t \in Threads : \A e \in http[t].done : stored[e] # "absent"

IInv == TypeOK /\ PhasesFit /\ CheckHolds /\ AppliedWithRow /\ DoneIsStored

-----------------------------------------------------------------------------
(* An event occurs a natural number of times in a batch.                    *)
LEMMA OccurrencesType ==
    ASSUME NEW b \in Batch, NEW e
    PROVE  Occurrences(b, e) \in Nat
<1>1. PICK n \in Nat : b \in [1..n -> Events]
  BY BoundsAssumption DEF Batch
<1>2. IsFiniteSet(1..n)
  BY FS_Interval
<1>3. {m \in DOMAIN b : b[m] = e} \subseteq 1..n
  BY <1>1
<1>4. IsFiniteSet({m \in DOMAIN b : b[m] = e})
  BY <1>2, <1>3, FS_Subset
<1>. QED
  BY <1>4, FS_CardinalityType DEF Occurrences

(* A batch is a sequence of events that is not empty.                       *)
LEMMA BatchIsSequence ==
    ASSUME NEW b \in Batch
    PROVE  b \in Seq(Events) /\ b # <<>>
<1>1. PICK n \in 1..MaxBatch : b \in [1..n -> Events]
  BY DEF Batch
<1>. QED
  BY <1>1, BoundsAssumption

(* The backfill tool posts one event at a time.                             *)
LEMMA SingleType ==
    ASSUME NEW e \in Events, NEW x
    PROVE  /\ <<e>> \in Seq(Events) /\ <<e>> # <<>>
           /\ Occurrences(<<e>>, x) \in Nat
<1>1. {n \in DOMAIN <<e>> : <<e>>[n] = x} \subseteq {1}
  OBVIOUS
<1>2. IsFiniteSet({1})
  BY FS_Singleton
<1>3. IsFiniteSet({n \in DOMAIN <<e>> : <<e>>[n] = x})
  BY <1>1, <1>2, FS_Subset
<1>. QED
  BY <1>3, FS_CardinalityType DEF Occurrences

(* Going on to the next item of a batch that has one.                       *)
LEMMA NextItemType ==
    ASSUME NEW c \in Call, c.todo # <<>>, NEW ok \in BOOLEAN
    PROVE  /\ NextItem(c, ok) \in Call
           /\ NextItem(c, ok).phase \in {"begin", "answer"}
           /\ NextItem(c, ok).phase = "begin" => NextItem(c, ok).todo # <<>>
           /\ Head(c.todo) \in Events
           /\ NextItem(c, ok).done \subseteq IF ok THEN c.done \cup {Head(c.todo)} ELSE c.done
<1>1. c.todo \in Seq(Events) /\ c.done \subseteq Events
  BY DEF Call
<1>2. Head(c.todo) \in Events /\ Tail(c.todo) \in Seq(Events)
  BY <1>1
<1>. QED
  BY <1>1, <1>2, AttemptsAssumption DEF NextItem, Call

(* Trying again leaves the items as they are or gives the first one up.      *)
LEMMA RetriedType ==
    ASSUME NEW c \in Call, c.todo # <<>>
    PROVE  /\ Retried(c) \in Call
           /\ Retried(c).phase \in {"begin", "answer"}
           /\ Retried(c).phase = "begin" => Retried(c).todo # <<>>
           /\ Retried(c).done \subseteq c.done
<1>1. CASE c.attempt < MaxAttempts - 1
  <2>1. Retried(c) = [c EXCEPT !.phase = "begin", !.attempt = c.attempt + 1]
    BY <1>1 DEF Retried
  <2>2. c.attempt \in Nat /\ c.attempt + 1 \in 0..(MaxAttempts - 1)
    BY <1>1, AttemptsAssumption DEF Call
  <2>. QED
    BY <2>1, <2>2 DEF Call
<1>2. CASE ~(c.attempt < MaxAttempts - 1)
  <2>1. Retried(c) = NextItem(c, FALSE)
    BY <1>2 DEF Retried
  <2>. QED
    BY <2>1, NextItemType
<1>. QED
  BY <1>1, <1>2

-----------------------------------------------------------------------------
(* What the steps of a delivery have in common: they change the call of one  *)
(* thread, and the tables only with the write lock.                         *)
Tables == <<stored, applied, archive, sent, acknowledged, missing, failures>>

TypeOfTables ==
    /\ stored \in [Events -> {"absent", "PROCESSED", "FAILED"}]
    /\ applied \in [Events -> Nat]
    /\ archive \in [Events -> Nat]
    /\ sent \in [Events -> Nat]
    /\ acknowledged \subseteq Events
    /\ missing \subseteq Events
    /\ failures \in 0..MaxFailures

LEMMA CallPreserves ==
    ASSUME IInv, TypeOfTables', UNCHANGED sweep,
           NEW t \in Threads, NEW c \in Call, http' = [http EXCEPT ![t] = c],
           processLock' \in {processLock, t, None}, writeLock' \in {writeLock, t, None},
           writeLock' # writeLock => writeLock \in {t, None},
           c.phase \in Active \cup {"waiting"} => c.todo # <<>>,
           c.phase \in {"open", "archived"} => writeLock' = t,
           c.phase = "archived" => stored'[Head(c.todo)] = "absent",
           stored' # stored => writeLock = t,
           \A e \in Events : stored[e] # "absent" => stored'[e] # "absent",
           \A e \in c.done : stored'[e] # "absent",
           \A e \in acknowledged' : stored'[e] # "absent",
           AppliedWithRow'
    PROVE  IInv'
<1>1. http \in [Threads -> Call] /\ http'[t] = c
  BY DEF IInv, TypeOK
<1>2. \A u \in Threads \ {t} : http'[u] = http[u]
  BY <1>1
<1>3. TypeOK'
  BY <1>1, NamesAssumption DEF IInv, TypeOK, TypeOfTables
<1>4. PhasesFit'
  <2>1. ASSUME NEW u \in Threads
        PROVE  /\ http'[u].phase \in Active \cup {"waiting"} => http'[u].todo # <<>>
               /\ http'[u].phase \in {"open", "archived"} => writeLock' = u
    <3>1. CASE u = t
      BY <1>1, <3>1
    <3>2. CASE u # t
      <4>1. http'[u] = http[u]
        BY <1>2, <3>2
      <4>2. http[u].phase \in {"open", "archived"} => writeLock = u /\ u # None
        BY NamesAssumption DEF IInv, PhasesFit
      <4>. QED
        BY <3>2, <4>1, <4>2 DEF IInv, PhasesFit
    <3>. QED
      BY <3>1, <3>2
  <2>. QED
    BY <2>1 DEF IInv, PhasesFit
<1>5. CheckHolds'
  <2>1. ASSUME NEW u \in Threads, http'[u].phase = "archived"
        PROVE  stored'[Head(http'[u].todo)] = "absent"
    <3>1. CASE u = t
      BY <1>1, <2>1, <3>1
    <3>2. CASE u # t
      <4>1. http'[u] = http[u] /\ writeLock = u
        BY <1>2, <2>1, <3>2 DEF IInv, PhasesFit
      <4>. QED
        BY <2>1, <3>2, <4>1 DEF IInv, CheckHolds
    <3>. QED
      BY <3>1, <3>2
  <2>. QED
    BY <2>1 DEF CheckHolds
<1>6. DoneIsStored'
  <2>1. ASSUME NEW u \in Threads, NEW e \in http'[u].done
        PROVE  stored'[e] # "absent"
    <3>1. CASE u = t
      BY <1>1, <2>1, <3>1
    <3>2. CASE u # t
      <4>1. e \in http[u].done /\ e \in Events
        BY <1>1, <1>2, <2>1, <3>2 DEF Call
      <4>. QED
        BY <4>1 DEF IInv, DoneIsStored
    <3>. QED
      BY <3>1, <3>2
  <2>. QED
    BY <2>1 DEF DoneIsStored
<1>. QED
  BY <1>3, <1>4, <1>5, <1>6 DEF IInv

(* What a delivery that is being worked on has.                             *)
LEMMA CallFields ==
    ASSUME IInv, NEW t \in Threads
    PROVE  /\ http[t] \in Call /\ TypeOfTables
           /\ http[t].todo \in Seq(Events) /\ http[t].done \subseteq Events
           /\ http[t].phase \in Active => http[t].todo # <<>> /\ Head(http[t].todo) \in Events
           /\ http[t].phase \in {"open", "archived"} => writeLock = t
           /\ \A e \in http[t].done : stored[e] # "absent"
           /\ \A e \in acknowledged : stored[e] # "absent"
<1>1. http[t] \in Call
  BY DEF IInv, TypeOK
<1>2. http[t].todo \in Seq(Events) /\ http[t].done \subseteq Events
  BY <1>1 DEF Call
<1>3. http[t].phase \in Active => http[t].todo # <<>>
  BY DEF IInv, PhasesFit
<1>4. http[t].todo # <<>> => Head(http[t].todo) \in Events
  BY <1>2
<1>. QED
  BY <1>1, <1>2, <1>3, <1>4 DEF IInv, TypeOK, TypeOfTables, PhasesFit, DoneIsStored

(* A delivery arrives, from the source or from the backfill tool.            *)
LEMMA PostPreserves ==
    ASSUME IInv, NEW t \in Threads, NEW b, b \in Seq(Events), b # <<>>,
           \A e \in Events : Occurrences(b, e) \in Nat,
           Post(t, b), missing' \subseteq Events,
           UNCHANGED <<stored, applied, archive, acknowledged, processLock, writeLock, sweep, failures>>
    PROVE  IInv'
<1> DEFINE c == NewCall(b)
<1>1. c \in Call /\ c.phase = "waiting" /\ c.todo = b /\ c.done = {}
  BY AttemptsAssumption DEF NewCall, Call
<1>2. http' = [http EXCEPT ![t] = c]
  BY DEF Post
<1> HIDE DEF c
<1>3. TypeOfTables'
  <2>1. \A e \in Events : sent[e] + Occurrences(b, e) \in Nat
    BY DEF IInv, TypeOK
  <2>2. sent' \in [Events -> Nat]
    BY <2>1 DEF Post
  <2>. QED
    BY <2>2 DEF TypeOfTables, IInv, TypeOK
<1>4. AppliedWithRow'
  BY DEF IInv, AppliedWithRow
<1>. QED
  BY <1>1, <1>2, <1>3, <1>4, CallPreserves, CallFields

(* Steps that leave the tables alone.                                       *)
LEMMA QuietCallPreserves ==
    ASSUME IInv, NEW t \in Threads,
           Enter(t) \/ Begin(t) \/ BeginTimesOut(t) \/ Duplicate(t) \/ Answer(t)
    PROVE  IInv'
<1>1. /\ http[t] \in Call /\ TypeOfTables
      /\ http[t].phase \in Active => http[t].todo # <<>> /\ Head(http[t].todo) \in Events
      /\ http[t].phase = "waiting" => http[t].todo # <<>>
      /\ http[t].phase \in {"open", "archived"} => writeLock = t
      /\ \A e \in http[t].done : stored[e] # "absent"
      /\ \A e \in acknowledged : stored[e] # "absent"
  BY CallFields DEF IInv, PhasesFit
<1>2. stored' = stored /\ applied' = applied /\ AppliedWithRow'
  BY DEF IInv, AppliedWithRow, Enter, Begin, BeginTimesOut, Duplicate, Answer
<1>3. UNCHANGED sweep /\ processLock' \in {processLock, t, None}
  BY DEF Enter, Begin, BeginTimesOut, Duplicate, Answer, Released
<1>4. CASE Enter(t)
  <2> DEFINE c == [http[t] EXCEPT !.phase = "begin"]
  <2>1. c \in Call /\ c.phase = "begin" /\ c.todo = http[t].todo /\ c.done = http[t].done
    BY <1>1 DEF Call
  <2>2. http' = [http EXCEPT ![t] = c]
    BY <1>4 DEF Enter, IInv, TypeOK
  <2>3. http[t].todo # <<>> /\ TypeOfTables' /\ writeLock' = writeLock /\ acknowledged' = acknowledged
    BY <1>1, <1>4 DEF Enter, TypeOfTables
  <2>. QED
    BY <1>1, <1>2, <1>3, <2>1, <2>2, <2>3, CallPreserves
<1>5. CASE Begin(t)
  <2> DEFINE c == [http[t] EXCEPT !.phase = "open"]
  <2>1. c \in Call /\ c.phase = "open" /\ c.todo = http[t].todo /\ c.done = http[t].done
    BY <1>1 DEF Call
  <2>2. http' = [http EXCEPT ![t] = c]
    BY <1>5 DEF Begin, IInv, TypeOK
  <2>3. /\ http[t].todo # <<>> /\ TypeOfTables' /\ writeLock = None /\ writeLock' = t
        /\ acknowledged' = acknowledged
    BY <1>1, <1>5 DEF Begin, TypeOfTables, Active
  <2>. QED
    BY <1>1, <1>2, <1>3, <2>1, <2>2, <2>3, CallPreserves
<1>6. CASE BeginTimesOut(t)
  <2>1. http[t].todo # <<>>
    BY <1>1, <1>6 DEF BeginTimesOut, Active
  <2>2. http' = [http EXCEPT ![t] = Retried(http[t])]
    BY <1>6 DEF BeginTimesOut, IInv, TypeOK
  <2>3. TypeOfTables' /\ writeLock' = writeLock /\ acknowledged' = acknowledged
    BY <1>1, <1>6 DEF BeginTimesOut, TypeOfTables
  <2>4. /\ Retried(http[t]) \in Call
        /\ Retried(http[t]).phase \in {"begin", "answer"}
        /\ Retried(http[t]).phase = "begin" => Retried(http[t]).todo # <<>>
        /\ Retried(http[t]).done \subseteq http[t].done
    BY <1>1, <2>1, RetriedType
  <2>. QED
    BY <1>1, <1>2, <1>3, <2>2, <2>3, <2>4, CallPreserves DEF Active
<1>7. CASE Duplicate(t)
  <2> DEFINE c == NextItem(http[t], TRUE)
  <2>1. /\ http[t].todo # <<>> /\ writeLock = t /\ writeLock' = None
        /\ stored[Head(http[t].todo)] # "absent" /\ acknowledged' = acknowledged
    BY <1>1, <1>7 DEF Duplicate, Active, Known
  <2>2. http' = [http EXCEPT ![t] = c] /\ TypeOfTables'
    BY <1>1, <1>7 DEF Duplicate, IInv, TypeOK, TypeOfTables
  <2>3. /\ c \in Call /\ c.phase \in {"begin", "answer"} /\ (c.phase = "begin" => c.todo # <<>>)
        /\ c.done \subseteq http[t].done \cup {Head(http[t].todo)}
    BY <1>1, <2>1, NextItemType
  <2>4. \A e \in c.done : stored[e] # "absent"
    BY <1>1, <2>1, <2>3
  <2> HIDE DEF c
  <2>. QED
    BY <1>1, <1>2, <1>3, <2>1, <2>2, <2>3, <2>4, CallPreserves DEF Active
<1>8. CASE Answer(t)
  <2>1. IdleCall \in Call /\ IdleCall.phase = "idle" /\ IdleCall.done = {}
    BY AttemptsAssumption DEF IdleCall, Call
  <2>2. http' = [http EXCEPT ![t] = IdleCall] /\ writeLock' = writeLock
    BY <1>8 DEF Answer
  <2>3. acknowledged' = acknowledged \cup http[t].done /\ http[t].done \subseteq Events
    BY <1>8, CallFields DEF Answer
  <2>4. TypeOfTables'
    BY <1>1, <1>8, <2>3 DEF Answer, TypeOfTables
  <2>5. \A e \in acknowledged' : stored[e] # "absent"
    BY <1>1, <2>3
  <2>. QED
    BY <1>1, <1>2, <1>3, <2>1, <2>2, <2>4, <2>5, CallPreserves DEF Active
<1>. QED
  BY <1>4, <1>5, <1>6, <1>7, <1>8

(* Steps that archive, store, or roll back.                                 *)
LEMMA WritingCallPreserves ==
    ASSUME IInv, NEW t \in Threads,
           \/ Archive(t)
           \/ \E status \in {"PROCESSED", "FAILED"} : Process(t, status)
           \/ ProcessFails(t)
    PROVE  IInv'
<1> DEFINE h == Head(http[t].todo)
<1>1. /\ http[t] \in Call /\ TypeOfTables
      /\ http[t].phase \in Active => http[t].todo # <<>> /\ h \in Events
      /\ http[t].phase \in {"open", "archived"} => writeLock = t
      /\ \A e \in http[t].done : stored[e] # "absent"
      /\ \A e \in acknowledged : stored[e] # "absent"
  BY CallFields
<1>2. CASE Archive(t)
  <2> DEFINE c == [http[t] EXCEPT !.phase = "archived", !.cached = TRUE]
  <2>1. c \in Call /\ c.phase = "archived" /\ c.todo = http[t].todo /\ c.done = http[t].done
    BY <1>1 DEF Call
  <2>2. http' = [http EXCEPT ![t] = c]
    BY <1>1, <1>2 DEF Archive, IInv, TypeOK, Call
  <2>3. http[t].todo # <<>> /\ h \in Events /\ writeLock = t /\ stored[h] = "absent"
    BY <1>1, <1>2 DEF Archive, Active, Known, TypeOfTables
  <2>4. archive' \in [Events -> Nat]
    BY <1>2, <2>3 DEF Archive, Persisted, IInv, TypeOK
  <2>5. TypeOfTables'
    BY <1>1, <1>2, <2>4 DEF Archive, TypeOfTables
  <2>6. UNCHANGED <<stored, applied, acknowledged, processLock, writeLock, sweep>>
    BY <1>2 DEF Archive
  <2>7. AppliedWithRow'
    BY <2>6 DEF IInv, AppliedWithRow
  <2> HIDE DEF c
  <2>. QED
    BY <1>1, <2>1, <2>2, <2>3, <2>5, <2>6, <2>7, CallPreserves
<1>3. ASSUME NEW status \in {"PROCESSED", "FAILED"}, Process(t, status)
      PROVE  IInv'
  <2> DEFINE c == NextItem(http[t], status = "PROCESSED")
  <2>1. /\ http[t].todo # <<>> /\ h \in Events /\ writeLock = t
        /\ stored[h] = "absent" /\ writeLock' = None
    BY <1>1, <1>3 DEF Process, Active, IInv, CheckHolds
  <2>2. http' = [http EXCEPT ![t] = c]
    BY <1>3 DEF Process, IInv, TypeOK
  <2>3. /\ c \in Call /\ c.phase \in {"begin", "answer"} /\ (c.phase = "begin" => c.todo # <<>>)
        /\ c.done \subseteq http[t].done \cup {h}
    BY <1>1, <2>1, NextItemType
  <2>4. /\ stored' = [stored EXCEPT ![h] = status]
        /\ applied' = [applied EXCEPT ![h] = IF status = "PROCESSED" THEN @ + 1 ELSE @]
        /\ UNCHANGED <<archive, sent, acknowledged, processLock, sweep, missing, failures>>
    BY <1>3 DEF Process
  <2>5. TypeOfTables'
    BY <1>1, <2>1, <2>4 DEF TypeOfTables
  <2>6. \A e \in Events : stored'[e] = IF e = h THEN status ELSE stored[e]
    BY <2>1, <2>4 DEF IInv, TypeOK
  <2>7. AppliedWithRow'
    <3>1. ASSUME NEW e \in Events
          PROVE  applied'[e] <= IF stored'[e] = "absent" THEN 0 ELSE 1
      <4>1. applied[e] \in Nat /\ applied[e] <= IF stored[e] = "absent" THEN 0 ELSE 1
        BY DEF IInv, TypeOK, AppliedWithRow
      <4>2. CASE e = h
        <5>1. applied[e] = 0 /\ stored'[e] # "absent"
          BY <2>1, <2>6, <4>1, <4>2
        <5>2. applied'[e] \in {applied[e], applied[e] + 1}
          BY <2>1, <2>4, <4>2 DEF IInv, TypeOK
        <5>. QED
          BY <5>1, <5>2
      <4>3. CASE e # h
        BY <2>4, <2>6, <4>1, <4>3 DEF IInv, TypeOK
      <4>. QED
        BY <4>2, <4>3
    <3>. QED
      BY <3>1 DEF AppliedWithRow
  <2>8. \A e \in c.done : stored'[e] # "absent"
    BY <1>1, <2>1, <2>3, <2>6 DEF Call
  <2>9. \A e \in acknowledged' : stored'[e] # "absent"
    BY <1>1, <2>4, <2>6 DEF TypeOfTables
  <2> HIDE DEF c
  <2>. QED
    BY <2>1, <2>2, <2>3, <2>4, <2>5, <2>6, <2>7, <2>8, <2>9, CallPreserves DEF Active
<1>4. CASE ProcessFails(t)
  <2>1. /\ http[t].todo # <<>> /\ writeLock = t /\ writeLock' = None
        /\ UNCHANGED <<stored, applied, archive, sent, acknowledged, processLock, sweep, missing>>
    BY <1>1, <1>4 DEF ProcessFails, Active
  <2>2. PICK c \in {Retried(http[t]), NextItem(http[t], FALSE)} : http' = [http EXCEPT ![t] = c]
    BY <1>4 DEF ProcessFails
  <2>3. /\ c \in Call /\ c.phase \in {"begin", "answer"} /\ (c.phase = "begin" => c.todo # <<>>)
        /\ c.done \subseteq http[t].done
    <3>1. CASE c = Retried(http[t])
      BY <1>1, <2>1, <3>1, RetriedType
    <3>2. CASE c = NextItem(http[t], FALSE)
      BY <1>1, <2>1, <3>2, NextItemType
    <3>. QED
      BY <2>2, <3>1, <3>2
  <2>4. TypeOfTables'
    BY <1>1, <1>4, <2>1, BoundsAssumption DEF ProcessFails, TypeOfTables
  <2>5. AppliedWithRow'
    BY <2>1 DEF IInv, AppliedWithRow
  <2>. QED
    BY <1>1, <2>1, <2>2, <2>3, <2>4, <2>5, CallPreserves DEF Active
<1>. QED
  BY <1>2, <1>3, <1>4

(* The scan of the backfill tool, the round, routes and crashes touch no      *)
(* table, and nobody else's write lock.                                     *)
LEMMA OthersPreserve ==
    ASSUME IInv,
           BackfillScans \/ SweepStep \/ SweepEnters \/ SweepFails \/ RouteWrites \/ RouteCommits
    PROVE  IInv'
<1> USE DEF SweepStep
<1>1. UNCHANGED <<stored, applied, archive, sent, acknowledged, http>>
  BY DEF BackfillScans, SweepStarts, SweepEnters, SweepReads, SweepWrites, SweepGoesOn,
         SweepCommits, SweepTimesOut, SweepFails, RouteWrites, RouteCommits
<1>2. /\ processLock' \in Threads \cup {"sweep", None}
      /\ writeLock' \in Threads \cup {"sweep", "route", None}
  BY DEF IInv, TypeOK, FreedBy, BackfillScans, SweepStarts, SweepEnters, SweepReads, SweepWrites,
         SweepGoesOn, SweepCommits, SweepTimesOut, SweepFails, RouteWrites, RouteCommits
<1>3. missing' \subseteq Events /\ failures' \in 0..MaxFailures
  BY BoundsAssumption
     DEF IInv, TypeOK, BackfillScans, SweepStarts, SweepEnters, SweepReads, SweepWrites,
         SweepGoesOn, SweepCommits, SweepTimesOut, SweepFails, RouteWrites, RouteCommits
<1>4. sweep' \in Round /\ (sweep'.phase = "wants" => sweep'.left > 0)
  <2>1. sweep \in Round /\ (sweep.phase = "wants" => sweep.left > 0) /\ IdleRound \in Round
    BY BoundsAssumption DEF IInv, TypeOK, PhasesFit, IdleRound, Round
  <2>2. CASE UNCHANGED sweep
    BY <2>1, <2>2
  <2>3. CASE SweepStarts
    BY <2>3, BoundsAssumption DEF SweepStarts, Round
  <2>4. CASE SweepEnters
    BY <2>1, <2>4, BoundsAssumption DEF SweepEnters, Round
  <2>5. CASE SweepReads \/ SweepWrites
    BY <2>1, <2>5 DEF SweepReads, SweepWrites, Round
  <2>6. CASE SweepGoesOn
    BY <2>1, <2>6 DEF SweepGoesOn, Round
  <2>7. CASE sweep' = IdleRound
    BY <2>1, <2>7 DEF IdleRound
  <2>. QED
    BY <2>2, <2>3, <2>4, <2>5, <2>6, <2>7
       DEF BackfillScans, SweepCommits, SweepTimesOut, SweepFails, RouteWrites, RouteCommits
<1>5. \A t \in Threads : writeLock = t => writeLock' = t
  BY NamesAssumption
     DEF FreedBy, BackfillScans, SweepStarts, SweepEnters, SweepReads, SweepWrites, SweepGoesOn,
         SweepCommits, SweepTimesOut, SweepFails, RouteWrites, RouteCommits
<1>6. TypeOK'
  BY <1>1, <1>2, <1>3, <1>4 DEF IInv, TypeOK
<1>7. PhasesFit'
  BY <1>1, <1>4, <1>5 DEF IInv, PhasesFit
<1>8. CheckHolds' /\ AppliedWithRow' /\ DoneIsStored'
  BY <1>1 DEF IInv, CheckHolds, AppliedWithRow, DoneIsStored
<1>. QED
  BY <1>6, <1>7, <1>8 DEF IInv

(* A crash loses every delivery and both locks.                             *)
LEMMA CrashPreserves ==
    ASSUME IInv, Crash
    PROVE  IInv'
<1>1. IdleCall \in Call /\ IdleRound \in Round
  BY AttemptsAssumption, BoundsAssumption DEF IdleCall, Call, IdleRound, Round
<1>2. TypeOK'
  BY <1>1, BoundsAssumption DEF Crash, IInv, TypeOK
<1>3. \A t \in Threads : http'[t] = IdleCall
  BY DEF Crash
<1>4. PhasesFit' /\ CheckHolds'
  BY <1>3 DEF Crash, PhasesFit, CheckHolds, IdleCall, IdleRound, Active
<1>5. AppliedWithRow' /\ DoneIsStored'
  BY <1>3 DEF Crash, IInv, AppliedWithRow, DoneIsStored, IdleCall
<1>. QED
  BY <1>2, <1>4, <1>5 DEF IInv

-----------------------------------------------------------------------------
(* The invariant holds at first, and every step keeps it.                   *)
LEMMA InitSound == Init => IInv
<1> SUFFICES ASSUME Init PROVE IInv
  OBVIOUS
<1>1. IdleCall \in Call /\ IdleRound \in Round
  BY AttemptsAssumption, BoundsAssumption DEF IdleCall, Call, IdleRound, Round
<1>2. TypeOK
  BY <1>1, BoundsAssumption DEF Init, TypeOK
<1>3. PhasesFit /\ CheckHolds /\ AppliedWithRow /\ DoneIsStored
  BY DEF Init, PhasesFit, CheckHolds, AppliedWithRow, DoneIsStored, IdleCall, IdleRound, Active
<1>. QED
  BY <1>2, <1>3 DEF IInv

(* Each disjunct of Next, and stuttering.                                   *)
LEMMA NextSound == IInv /\ [Next]_vars => IInv'
<1> SUFFICES ASSUME IInv, [Next]_vars PROVE IInv'
  OBVIOUS
<1>1. ASSUME NEW t \in Threads, Deliver(t)
      PROVE  IInv'
  <2>1. PICK b \in Batch : Post(t, b)
    BY <1>1 DEF Deliver
  <2>2. b \in Seq(Events) /\ b # <<>> /\ \A e \in Events : Occurrences(b, e) \in Nat
    BY BatchIsSequence, OccurrencesType
  <2>3. missing' \subseteq Events
    BY <1>1 DEF Deliver, IInv, TypeOK
  <2>. QED
    BY <1>1, <2>1, <2>2, <2>3, PostPreserves DEF Deliver
<1>2. ASSUME NEW t \in Threads, BackfillPosts(t)
      PROVE  IInv'
  <2>1. PICK e \in missing :
            /\ Post(t, <<e>>)
            /\ missing' = missing \ {e}
            /\ UNCHANGED <<stored, applied, archive, acknowledged, processLock, writeLock, sweep, failures>>
    BY <1>2 DEF BackfillPosts
  <2>2. e \in Events /\ missing' \subseteq Events
    BY <2>1 DEF IInv, TypeOK
  <2>3. <<e>> \in Seq(Events) /\ <<e>> # <<>> /\ \A x \in Events : Occurrences(<<e>>, x) \in Nat
    BY <2>2, SingleType
  <2>. QED
    BY <2>1, <2>2, <2>3, PostPreserves
<1>3. ASSUME NEW t \in Threads, Enter(t) \/ CallStep(t) \/ ProcessFails(t)
      PROVE  IInv'
  BY <1>3, QuietCallPreserves, WritingCallPreserves DEF CallStep
<1>4. CASE BackfillScans \/ SweepStep \/ SweepEnters \/ SweepFails \/ RouteWrites \/ RouteCommits
  BY <1>4, OthersPreserve
<1>5. CASE Crash
  BY <1>5, CrashPreserves
<1>6. CASE UNCHANGED vars
  BY <1>6 DEF vars, IInv, TypeOK, PhasesFit, CheckHolds, AppliedWithRow, DoneIsStored
<1>. QED
  BY <1>1, <1>2, <1>3, <1>4, <1>5, <1>6 DEF Next

(* The inductive invariant, for any events, threads and bounds.              *)
THEOREM IngestInvariant == Spec => []IInv
BY InitSound, NextSound, PTL DEF Spec

(* The tables, the locks, the deliveries and the round keep their types.     *)
THEOREM IngestTypeCorrect == Spec => []TypeOK
<1>1. IInv => TypeOK
  BY DEF IInv
<1>. QED
  BY <1>1, IngestInvariant, PTL

(* An event changes alerts and incidents at most once, however often it is    *)
(* delivered, tried again after a rollback, or backfilled.                  *)
THEOREM EventsAppliedOnce == Spec => []AppliedOnce
<1>1. IInv => AppliedOnce
  BY DEF IInv, TypeOK, AppliedWithRow, AppliedOnce
<1>. QED
  BY <1>1, IngestInvariant, PTL

(* An answer PROCESSED or DUPLICATE is never taken back, not by a crash.     *)
THEOREM AcknowledgedStaysStored == Spec => []AcknowledgedIsStored
<1>1. IInv => AcknowledgedIsStored
  BY DEF IInv, DoneIsStored, AcknowledgedIsStored
<1>. QED
  BY <1>1, IngestInvariant, PTL

-----------------------------------------------------------------------------
(* The archive. A delivery that is being handled still owes its file a line  *)
(* for every item left, but for a first item whose line is in raw_cache.     *)
(* Places are counted from the end of the batch, so that taking its first    *)
(* item away renames none of the others.                                   *)
Places(c, e) ==
    {k \in 0..(Len(c.todo) - 1) :
        c.todo[Len(c.todo) - k] = e /\ ~(c.cached /\ k = Len(c.todo) - 1)}

Outstanding(e) == {p \in Threads \X Nat : p[2] \in Places(http[p[1]], e)}

(* What was delivered pays for the lines that are written and for those that  *)
(* can still be written.                                                   *)
LinesPaid ==
    \A e \in Events :
        /\ IsFiniteSet(Outstanding(e))
        /\ archive[e] + Cardinality(Outstanding(e)) <= sent[e]

(* A line precedes the row: a call remembers the line of its first item, and  *)
(* an idle thread remembers nothing.                                       *)
LineFirst ==
    /\ \A t \in Threads :
        /\ http[t].phase = "idle" => http[t].todo = <<>>
        /\ http[t].phase = "archived" => http[t].cached
        /\ http[t].cached /\ http[t].todo # <<>> => archive[Head(http[t].todo)] > 0
    /\ \A e \in Events : stored[e] # "absent" => archive[e] > 0

AInv == LinesPaid /\ LineFirst

(* Each item left is one place of the batch, and the next item drops one.    *)
LEMMA PlacesShrink ==
    ASSUME NEW c \in Call, c.todo # <<>>, NEW e, NEW ok \in BOOLEAN
    PROVE  /\ Places(NextItem(c, ok), e) \subseteq Places(c, e)
           /\ Places(Retried(c), e) \subseteq Places(c, e)
<1>1. c.todo \in Seq(Events) /\ Len(c.todo) \in Nat \ {0}
  BY DEF Call
<1>2. ASSUME NEW okay \in BOOLEAN
      PROVE  Places(NextItem(c, okay), e) \subseteq Places(c, e)
  <2> DEFINE d == NextItem(c, okay)
  <2>1. d.todo = Tail(c.todo) /\ d.cached = FALSE
    BY DEF NextItem
  <2>2. Len(Tail(c.todo)) = Len(c.todo) - 1
    BY <1>1
  <2>3. \A i \in 1..(Len(c.todo) - 1) : Tail(c.todo)[i] = c.todo[i + 1]
    BY <1>1
  <2> SUFFICES ASSUME NEW k \in Places(d, e) PROVE k \in Places(c, e)
    OBVIOUS
  <2>4. k \in 0..(Len(c.todo) - 2) /\ Tail(c.todo)[Len(c.todo) - 1 - k] = e
    BY <1>1, <2>1, <2>2 DEF Places
  <2>5. c.todo[Len(c.todo) - k] = e /\ k \in 0..(Len(c.todo) - 1) /\ k # Len(c.todo) - 1
    <3>1. Len(c.todo) - 1 - k \in 1..(Len(c.todo) - 1) /\ Len(c.todo) - 1 - k + 1 = Len(c.todo) - k
      BY <1>1, <2>4
    <3>2. Tail(c.todo)[Len(c.todo) - 1 - k] = c.todo[Len(c.todo) - 1 - k + 1]
      BY <2>3, <3>1
    <3>. QED
      BY <1>1, <2>4, <3>1, <3>2
  <2>. QED
    BY <2>5 DEF Places
<1>3. Places(Retried(c), e) \subseteq Places(c, e)
  <2>1. CASE c.attempt < MaxAttempts - 1
    <3>1. Retried(c).todo = c.todo /\ Retried(c).cached = c.cached
      BY <2>1 DEF Retried, Call
    <3>. QED
      BY <3>1 DEF Places
  <2>2. CASE ~(c.attempt < MaxAttempts - 1)
    BY <1>2, <2>2 DEF Retried
  <2>. QED
    BY <2>1, <2>2
<1>. QED
  BY <1>2, <1>3

(* A call that has no item left owes nothing.                               *)
LEMMA NoPlaces ==
    ASSUME NEW c, c.todo = <<>>, NEW e
    PROVE  Places(c, e) = {}
<1>1. Len(c.todo) = 0
  OBVIOUS
<1>2. 0..(Len(c.todo) - 1) = {}
  BY <1>1
<1>. QED
  BY <1>2 DEF Places

(* Who owes less than before, and has written nothing, is still paid for.    *)
LEMMA FewerOutstanding ==
    ASSUME LinesPaid, UNCHANGED <<archive, sent>>, TypeOK,
           \A e \in Events : Outstanding(e)' \subseteq Outstanding(e)
    PROVE  LinesPaid'
<1> SUFFICES ASSUME NEW e \in Events
             PROVE  /\ IsFiniteSet(Outstanding(e)')
                    /\ archive[e] + Cardinality(Outstanding(e)') <= sent[e]
  BY DEF LinesPaid
<1>1. IsFiniteSet(Outstanding(e)) /\ Outstanding(e)' \in SUBSET Outstanding(e)
  BY DEF LinesPaid
<1>2. /\ IsFiniteSet(Outstanding(e)')
      /\ Cardinality(Outstanding(e)') <= Cardinality(Outstanding(e))
  BY <1>1, FS_Subset
<1>3. Cardinality(Outstanding(e)') \in Nat /\ Cardinality(Outstanding(e)) \in Nat
  BY <1>1, <1>2, FS_CardinalityType
<1>4. archive[e] + Cardinality(Outstanding(e)) <= sent[e] /\ archive[e] \in Nat /\ sent[e] \in Nat
  BY DEF LinesPaid, TypeOK
<1>. QED
  BY <1>2, <1>3, <1>4

(* The steps of one call that write no line.                                *)
LEMMA LessOwed ==
    ASSUME IInv, AInv, UNCHANGED <<archive, sent>>,
           NEW t \in Threads, NEW c, http' = [http EXCEPT ![t] = c],
           \A e \in Events : Places(c, e) \subseteq Places(http[t], e),
           c.phase = "idle" => c.todo = <<>>,
           c.phase = "archived" => c.cached,
           c.cached /\ c.todo # <<>> => archive[Head(c.todo)] > 0,
           \A e \in Events : stored'[e] # "absent" => archive[e] > 0
    PROVE  AInv'
<1>1. http'[t] = c /\ \A u \in Threads : u # t => http'[u] = http[u]
  BY DEF IInv, TypeOK
<1>2. ASSUME NEW e \in Events
      PROVE  Outstanding(e)' \subseteq Outstanding(e)
  <2> SUFFICES ASSUME NEW p \in Outstanding(e)'
               PROVE  p \in Outstanding(e)
    OBVIOUS
  <2>1. p \in Threads \X Nat /\ p[2] \in Places(http'[p[1]], e)
    BY DEF Outstanding, Places
  <2>2. CASE p[1] = t
    BY <1>1, <2>1, <2>2 DEF Outstanding
  <2>3. CASE p[1] # t
    <3>1. http'[p[1]] = http[p[1]]
      BY <1>1, <2>1, <2>3
    <3>. QED
      BY <2>1, <3>1 DEF Outstanding
  <2>. QED
    BY <2>2, <2>3
<1>3. LinesPaid'
  BY <1>2, FewerOutstanding DEF IInv, AInv
<1>4. LineFirst'
  BY <1>1 DEF AInv, LineFirst
<1>. QED
  BY <1>3, <1>4 DEF AInv

(* A line is written: the first item of the call is paid, the others are as   *)
(* they were.                                                              *)
LEMMA ArchivePays ==
    ASSUME IInv, AInv, NEW t \in Threads, Archive(t)
    PROVE  AInv'
<1> DEFINE c == http[t]
           h == Head(c.todo)
           last == Len(c.todo) - 1
           d == [c EXCEPT !.phase = "archived", !.cached = TRUE]
<1>1. c \in Call /\ c.todo \in Seq(Events) /\ c.todo # <<>> /\ h \in Events /\ c.cached \in BOOLEAN
  BY CallFields DEF Archive, Active, Call
<1>2. /\ d.todo = c.todo /\ d.cached = TRUE /\ d.phase = "archived"
      /\ http' = [http EXCEPT ![t] = d]
  BY <1>1 DEF Archive, Call, IInv, TypeOK
<1>3. http'[t] = d /\ \A u \in Threads : u # t => http'[u] = http[u]
  BY <1>2 DEF IInv, TypeOK
<1>4. last \in Nat /\ Len(c.todo) - last = 1 /\ c.todo[1] = h
  BY <1>1
<1>5. UNCHANGED <<sent, stored>> /\ archive' = (IF c.cached THEN archive ELSE [archive EXCEPT ![h] = @ + 1])
  BY DEF Archive, Persisted
<1>6. \A e \in Events : Places(d, e) = Places(c, e) \ {last}
  BY <1>1, <1>2, <1>4 DEF Places
<1> HIDE DEF d
<1>7. LinesPaid'
  <2> SUFFICES ASSUME NEW e \in Events
               PROVE  /\ IsFiniteSet(Outstanding(e)')
                      /\ archive'[e] + Cardinality(Outstanding(e)') <= sent[e]
    BY <1>5 DEF LinesPaid
  <2>1. Outstanding(e)' = Outstanding(e) \ {<<t, last>>}
    <3>1. ASSUME NEW u \in Threads, NEW k \in Nat
          PROVE  k \in Places(http'[u], e) <=> k \in Places(http[u], e) /\ <<u, k>> # <<t, last>>
      BY <1>3, <1>6
    <3>. QED
      BY <3>1 DEF Outstanding
  <2>2. /\ IsFiniteSet(Outstanding(e)) /\ archive[e] + Cardinality(Outstanding(e)) <= sent[e]
        /\ Cardinality(Outstanding(e)) \in Nat /\ archive[e] \in Nat /\ sent[e] \in Nat
    BY FS_CardinalityType DEF AInv, LinesPaid, IInv, TypeOK
  <2>3. /\ IsFiniteSet(Outstanding(e)')
        /\ Cardinality(Outstanding(e)') =
             IF <<t, last>> \in Outstanding(e) THEN Cardinality(Outstanding(e)) - 1
             ELSE Cardinality(Outstanding(e))
    <3> DEFINE before == Outstanding(e)
               paid == <<t, last>>
    <3>1. IsFiniteSet(before)
      BY <2>2
    <3> HIDE DEF before, paid
    <3>2. /\ IsFiniteSet(before \ {paid})
          /\ Cardinality(before \ {paid}) =
               IF paid \in before THEN Cardinality(before) - 1 ELSE Cardinality(before)
      BY <3>1, FS_RemoveElement
    <3>. QED
      BY <2>1, <3>2 DEF before, paid
  <2>4. archive'[e] = IF e = h /\ ~c.cached THEN archive[e] + 1 ELSE archive[e]
    BY <1>1, <1>5 DEF IInv, TypeOK
  <2>5. e = h /\ ~c.cached => <<t, last>> \in Outstanding(e)
    BY <1>1, <1>4 DEF Outstanding, Places
  <2>. QED
    BY <2>2, <2>3, <2>4, <2>5
<1>8. LineFirst'
  <2>1. \A e \in Events : archive'[e] \in Nat /\ archive'[e] >= archive[e] /\ archive[e] \in Nat
    <3>1. archive \in [Events -> Nat]
      BY DEF IInv, TypeOK
    <3>2. archive' = archive \/ archive' = [archive EXCEPT ![h] = archive[h] + 1]
      BY <1>5
    <3> HIDE DEF h
    <3>. QED
      BY <1>1, <3>1, <3>2
  <2>2. archive'[h] > 0
    <3>1. CASE c.cached
      BY <1>1, <1>5, <3>1 DEF AInv, LineFirst
    <3>2. CASE ~c.cached
      BY <1>1, <1>5, <3>2 DEF IInv, TypeOK
    <3>. QED
      BY <3>1, <3>2
  <2>3. ASSUME NEW u \in Threads
        PROVE  /\ http'[u].phase = "idle" => http'[u].todo = <<>>
               /\ http'[u].phase = "archived" => http'[u].cached
               /\ http'[u].cached /\ http'[u].todo # <<>> => archive'[Head(http'[u].todo)] > 0
    <3>1. CASE u = t
      BY <1>2, <1>3, <2>2, <3>1
    <3>2. CASE u # t
      <4>1. http'[u] = http[u] /\ (http[u].todo # <<>> => Head(http[u].todo) \in Events)
        BY <1>3, <3>2, CallFields
      <4>. QED
        BY <2>1, <4>1 DEF AInv, LineFirst
    <3>. QED
      BY <3>1, <3>2
  <2>4. \A e \in Events : stored'[e] # "absent" => archive'[e] > 0
    BY <1>5, <2>1 DEF AInv, LineFirst
  <2>. QED
    BY <2>3, <2>4 DEF LineFirst
<1>. QED
  BY <1>7, <1>8 DEF AInv

(* A delivery of e adds one place for each of its occurrences.              *)
LEMMA PlacesOccur ==
    ASSUME NEW b \in Seq(Events), NEW e, NEW t, IsFiniteSet({n \in DOMAIN b : b[n] = e})
    PROVE  /\ IsFiniteSet({t} \X Places(NewCall(b), e))
           /\ Cardinality({t} \X Places(NewCall(b), e)) <= Occurrences(b, e)
<1> DEFINE S == {t} \X Places(NewCall(b), e)
           T == {n \in DOMAIN b : b[n] = e}
           f == [p \in S |-> Len(b) - p[2]]
<1>1. Len(b) \in Nat /\ DOMAIN b = 1..Len(b) /\ NewCall(b).todo = b
  BY DEF NewCall
<1>2. \A p \in S : p[1] = t /\ p = <<p[1], p[2]>> /\ p[2] \in 0..(Len(b) - 1) /\ b[Len(b) - p[2]] = e
  BY <1>1 DEF Places
<1> HIDE DEF S
<1>3. f \in [S -> T]
  BY <1>1, <1>2
<1>4. \A p, q \in S : f[p] = f[q] => p = q
  <2> SUFFICES ASSUME NEW p \in S, NEW q \in S, f[p] = f[q] PROVE p = q
    OBVIOUS
  <2>1. p[2] = q[2]
    BY <1>1, <1>2
  <2>. QED
    BY <1>2, <2>1
<1>5. f \in Injection(S, T)
  <2> HIDE DEF f, T
  <2>1. DOMAIN f = S
    BY <1>3
  <2>. QED
    BY <1>3, <1>4, <2>1 DEF Injection, IsInjective
<1> HIDE DEF f, T
<1>6. IsFiniteSet(S) /\ Cardinality(S) <= Cardinality(T)
  BY <1>5, FS_Injection DEF T
<1>. QED
  BY <1>6 DEF S, T, Occurrences

(* The items of a batch are finitely many.                                  *)
LEMMA OccurrencesFinite ==
    ASSUME NEW b \in Seq(Events), NEW e
    PROVE  IsFiniteSet({n \in DOMAIN b : b[n] = e})
<1>1. DOMAIN b = 1..Len(b) /\ Len(b) \in Nat
  OBVIOUS
<1>2. IsFiniteSet(1..Len(b)) /\ {n \in DOMAIN b : b[n] = e} \in SUBSET (1..Len(b))
  BY <1>1, FS_Interval
<1>. QED
  BY <1>2, FS_Subset

(* A delivery pays for the lines it can leave.                              *)
LEMMA PostPays ==
    ASSUME IInv, AInv, NEW t \in Threads, NEW b \in Seq(Events), Post(t, b),
           UNCHANGED <<stored, archive>>
    PROVE  AInv'
<1>1. http'[t] = NewCall(b) /\ \A u \in Threads : u # t => http'[u] = http[u]
  BY DEF Post, IInv, TypeOK
<1>2. http[t].todo = <<>>
  BY DEF Post, AInv, LineFirst
<1>3. LinesPaid'
  <2> SUFFICES ASSUME NEW e \in Events
               PROVE  /\ IsFiniteSet(Outstanding(e)')
                      /\ archive[e] + Cardinality(Outstanding(e)') <= sent'[e]
    BY DEF LinesPaid
  <2> DEFINE before == Outstanding(e)
             new == {t} \X Places(NewCall(b), e)
  <2>1. Outstanding(e)' = before \cup new
    <3>1. Places(http[t], e) = {}
      BY <1>2, NoPlaces
    <3>2. Places(NewCall(b), e) \subseteq Nat
      BY DEF Places
    <3>3. ASSUME NEW u \in Threads, NEW k \in Nat
          PROVE  k \in Places(http'[u], e) <=>
                   k \in Places(http[u], e) \/ (u = t /\ k \in Places(NewCall(b), e))
      BY <1>1, <3>1
    <3>. QED
      BY <3>2, <3>3 DEF Outstanding
  <2>2. /\ IsFiniteSet(before) /\ archive[e] + Cardinality(before) <= sent[e]
        /\ archive[e] \in Nat /\ sent[e] \in Nat
    BY DEF AInv, LinesPaid, IInv, TypeOK
  <2>3. IsFiniteSet(new) /\ Cardinality(new) <= Occurrences(b, e) /\ Occurrences(b, e) \in Nat
    <3>1. IsFiniteSet({n \in DOMAIN b : b[n] = e})
      BY OccurrencesFinite
    <3>. QED
      BY <3>1, PlacesOccur, FS_CardinalityType DEF Occurrences
  <2>4. sent'[e] = sent[e] + Occurrences(b, e)
    BY DEF Post
  <2> HIDE DEF before, new
  <2>5. /\ IsFiniteSet(before \cup new) /\ IsFiniteSet(before \cap new)
        /\ Cardinality(before \cup new) =
             Cardinality(before) + Cardinality(new) - Cardinality(before \cap new)
    BY <2>2, <2>3, FS_Union, FS_Intersection
  <2>6. /\ Cardinality(before) \in Nat /\ Cardinality(new) \in Nat
        /\ Cardinality(before \cap new) \in Nat
    BY <2>2, <2>3, <2>5, FS_CardinalityType
  <2>7. Cardinality(before \cup new) <= Cardinality(before) + Occurrences(b, e)
    BY <2>3, <2>5, <2>6
  <2>8. Cardinality(before \cup new) \in Nat
    BY <2>5, FS_CardinalityType
  <2>9. archive[e] + Cardinality(before \cup new) <= sent'[e]
    BY <2>2, <2>3, <2>4, <2>6, <2>7, <2>8
  <2>. QED
    BY <2>1, <2>5, <2>9
<1>4. LineFirst'
  <2>1. NewCall(b).phase = "waiting" /\ NewCall(b).cached = FALSE
    BY DEF NewCall
  <2>. QED
    BY <1>1, <2>1 DEF AInv, LineFirst
<1>. QED
  BY <1>3, <1>4 DEF AInv

(* The steps of a call, one by one.                                         *)
LEMMA CallPays ==
    ASSUME IInv, AInv, NEW t \in Threads, Enter(t) \/ CallStep(t) \/ ProcessFails(t)
    PROVE  AInv'
<1> DEFINE c == http[t]
<1>1. /\ c \in Call /\ c.todo \in Seq(Events)
      /\ c.phase \in Active => c.todo # <<>> /\ Head(c.todo) \in Events
      /\ c.phase = "archived" => c.cached
      /\ c.cached /\ c.todo # <<>> => archive[Head(c.todo)] > 0
      /\ \A e \in Events : stored[e] # "absent" => archive[e] > 0
  BY CallFields DEF AInv, LineFirst
<1>2. ASSUME NEW d, http' = [http EXCEPT ![t] = d], UNCHANGED <<archive, sent, stored>>,
             d.todo = c.todo, d.cached = c.cached, d.phase \notin {"idle", "archived"}
      PROVE  AInv'
  <2>1. \A e \in Events : Places(d, e) \subseteq Places(c, e)
    BY <1>2 DEF Places
  <2>2. d.cached /\ d.todo # <<>> => archive[Head(d.todo)] > 0
    BY <1>1, <1>2
  <2>3. \A e \in Events : stored'[e] # "absent" => archive[e] > 0
    BY <1>1, <1>2
  <2>. QED
    BY <1>2, <2>1, <2>2, <2>3, LessOwed
<1>3. ASSUME NEW ok \in BOOLEAN, c.phase \in Active, http' = [http EXCEPT ![t] = NextItem(c, ok)],
             UNCHANGED <<archive, sent>>,
             \A e \in Events : stored'[e] # "absent" => archive[e] > 0
      PROVE  AInv'
  <2>1. \A e \in Events : Places(NextItem(c, ok), e) \subseteq Places(c, e)
    BY <1>1, <1>3, PlacesShrink
  <2>2. NextItem(c, ok).phase \notin {"idle", "archived"} /\ NextItem(c, ok).cached = FALSE
    BY DEF NextItem
  <2>. QED
    BY <1>3, <2>1, <2>2, LessOwed
<1>4. ASSUME c.phase \in Active, http' = [http EXCEPT ![t] = Retried(c)],
             UNCHANGED <<archive, sent, stored>>
      PROVE  AInv'
  <2>1. CASE c.attempt < MaxAttempts - 1
    <3>1. /\ Retried(c).todo = c.todo /\ Retried(c).cached = c.cached
          /\ Retried(c).phase = "begin"
      BY <1>1, <2>1 DEF Retried, Call
    <3>. QED
      BY <1>2, <1>4, <3>1
  <2>2. CASE ~(c.attempt < MaxAttempts - 1)
    BY <1>1, <1>3, <1>4, <2>2 DEF Retried
  <2>. QED
    BY <2>1, <2>2
<1>5. CASE Enter(t)
  <2> DEFINE d == [c EXCEPT !.phase = "begin"]
  <2>1. /\ http' = [http EXCEPT ![t] = d] /\ UNCHANGED <<archive, sent, stored>>
        /\ d.todo = c.todo /\ d.cached = c.cached /\ d.phase = "begin"
    BY <1>1, <1>5 DEF Enter, Call, IInv, TypeOK
  <2> HIDE DEF d
  <2>. QED
    BY <1>2, <2>1
<1>6. CASE Begin(t)
  <2> DEFINE d == [c EXCEPT !.phase = "open"]
  <2>1. /\ http' = [http EXCEPT ![t] = d] /\ UNCHANGED <<archive, sent, stored>>
        /\ d.todo = c.todo /\ d.cached = c.cached /\ d.phase = "open"
    BY <1>1, <1>6 DEF Begin, Call, IInv, TypeOK
  <2> HIDE DEF d
  <2>. QED
    BY <1>2, <2>1
<1>7. CASE BeginTimesOut(t)
  BY <1>4, <1>7 DEF BeginTimesOut, Active
<1>8. CASE Duplicate(t)
  BY <1>1, <1>3, <1>8 DEF Duplicate, Active
<1>9. CASE Archive(t)
  BY <1>9, ArchivePays
<1>10. ASSUME NEW status \in {"PROCESSED", "FAILED"}, Process(t, status)
       PROVE  AInv'
  <2>1. /\ c.phase = "archived" /\ UNCHANGED <<archive, sent>>
        /\ stored' = [stored EXCEPT ![Head(c.todo)] = status]
        /\ http' = [http EXCEPT ![t] = NextItem(c, status = "PROCESSED")]
    BY <1>10 DEF Process
  <2>2. \A e \in Events : stored'[e] # "absent" => archive[e] > 0
    BY <1>1, <2>1 DEF IInv, TypeOK, Active
  <2>. QED
    BY <1>3, <2>1, <2>2 DEF Active
<1>11. CASE ProcessFails(t)
  <2>1. c.phase \in Active /\ UNCHANGED <<archive, sent, stored>>
    BY <1>11 DEF ProcessFails, Active
  <2>2. \/ http' = [http EXCEPT ![t] = Retried(c)]
        \/ http' = [http EXCEPT ![t] = NextItem(c, FALSE)]
    BY <1>11 DEF ProcessFails
  <2>3. \A e \in Events : stored'[e] # "absent" => archive[e] > 0
    BY <1>1, <2>1
  <2>. QED
    BY <1>3, <1>4, <2>1, <2>2, <2>3
<1>12. CASE Answer(t)
  <2>1. /\ IdleCall.todo = <<>> /\ IdleCall.phase = "idle" /\ UNCHANGED <<archive, sent, stored>>
        /\ http' = [http EXCEPT ![t] = IdleCall]
    BY <1>12 DEF Answer, IdleCall
  <2>2. \A e \in Events : Places(IdleCall, e) \subseteq Places(c, e)
    BY <2>1, NoPlaces
  <2>3. \A e \in Events : stored'[e] # "absent" => archive[e] > 0
    BY <1>1, <2>1
  <2>. QED
    BY <2>1, <2>2, <2>3, LessOwed
<1>. QED
  BY <1>5, <1>6, <1>7, <1>8, <1>9, <1>10, <1>11, <1>12 DEF CallStep

(* The books of the archive are balanced at first, and every step keeps them. *)
LEMMA ArchiveInit == Init => AInv
<1> SUFFICES ASSUME Init PROVE AInv
  OBVIOUS
<1>1. \A t \in Threads : http[t] = IdleCall
  BY DEF Init
<1>2. IdleCall.todo = <<>> /\ IdleCall.phase = "idle" /\ IdleCall.cached = FALSE
  BY DEF IdleCall
<1>3. ASSUME NEW e \in Events PROVE Outstanding(e) = {}
  <2>1. Places(IdleCall, e) = {}
    BY <1>2, NoPlaces
  <2>. QED
    BY <1>1, <2>1 DEF Outstanding
<1>4. LinesPaid
  BY <1>3, FS_EmptySet DEF Init, LinesPaid
<1>5. LineFirst
  BY <1>1, <1>2 DEF Init, LineFirst
<1>. QED
  BY <1>4, <1>5 DEF AInv

LEMMA ArchiveNext == IInv /\ AInv /\ [Next]_vars => AInv'
<1> SUFFICES ASSUME IInv, AInv, [Next]_vars PROVE AInv'
  OBVIOUS
<1>1. ASSUME NEW t \in Threads, Deliver(t) PROVE AInv'
  <2>1. PICK b \in Batch : Post(t, b)
    BY <1>1 DEF Deliver
  <2>2. b \in Seq(Events) /\ UNCHANGED <<stored, archive>>
    BY <1>1, BatchIsSequence DEF Deliver
  <2>. QED
    BY <2>1, <2>2, PostPays
<1>2. ASSUME NEW t \in Threads, BackfillPosts(t) PROVE AInv'
  <2>1. PICK e \in missing : Post(t, <<e>>)
    BY <1>2 DEF BackfillPosts
  <2>2. <<e>> \in Seq(Events) /\ UNCHANGED <<stored, archive>>
    BY <1>2 DEF BackfillPosts, IInv, TypeOK
  <2>. QED
    BY <2>1, <2>2, PostPays
<1>3. ASSUME NEW t \in Threads, Enter(t) \/ CallStep(t) \/ ProcessFails(t) PROVE AInv'
  BY <1>3, CallPays
<1>4. CASE UNCHANGED <<http, archive, sent, stored>>
  <2>1. \A e \in Events : Outstanding(e)' = Outstanding(e)
    BY <1>4 DEF Outstanding
  <2>2. LinesPaid'
    BY <1>4, <2>1, FewerOutstanding DEF IInv, AInv
  <2>. QED
    BY <1>4, <2>2 DEF AInv, LineFirst
<1>5. CASE Crash
  <2>1. \A t \in Threads : http'[t] = IdleCall
    BY <1>5 DEF Crash
  <2>2. UNCHANGED <<archive, sent, stored>>
    BY <1>5 DEF Crash
  <2>3. IdleCall.todo = <<>> /\ IdleCall.phase = "idle" /\ IdleCall.cached = FALSE
    BY DEF IdleCall
  <2>4. \A e \in Events : Outstanding(e)' \subseteq Outstanding(e)
    <3>1. \A e : Places(IdleCall, e) = {}
      BY <2>3, NoPlaces
    <3>. QED
      BY <2>1, <3>1 DEF Outstanding
  <2>5. LinesPaid'
    BY <2>2, <2>4, FewerOutstanding DEF IInv, AInv
  <2>. QED
    BY <2>1, <2>2, <2>3, <2>5 DEF AInv, LineFirst
<1>6. BackfillScans \/ SweepStep \/ SweepEnters \/ SweepFails \/ RouteWrites \/ RouteCommits
        \/ UNCHANGED vars => UNCHANGED <<http, archive, sent, stored>>
  BY DEF BackfillScans, SweepStep, SweepStarts, SweepEnters, SweepReads, SweepWrites, SweepGoesOn,
         SweepCommits, SweepTimesOut, SweepFails, RouteWrites, RouteCommits, vars
<1>. QED
  BY <1>1, <1>2, <1>3, <1>4, <1>5, <1>6 DEF Next

(* However often an event is tried again, its deliveries leave no more lines  *)
(* in the archive than they are, for batches and retries of any length; and  *)
(* no row is in the database before its line is in the archive.              *)
THEOREM ArchiveKeepsCount == Spec => []ArchivedPerDelivery
<1>1. IInv /\ AInv => ArchivedPerDelivery
  <2> SUFFICES ASSUME IInv, AInv, NEW e \in Events PROVE archive[e] <= sent[e]
    BY DEF AInv, LineFirst, ArchivedPerDelivery
  <2>1. Cardinality(Outstanding(e)) \in Nat /\ archive[e] + Cardinality(Outstanding(e)) <= sent[e]
    BY FS_CardinalityType DEF AInv, LinesPaid
  <2>2. archive[e] \in Nat /\ sent[e] \in Nat
    BY DEF IInv, TypeOK
  <2>. QED
    BY <2>1, <2>2
<1>2. Spec => []AInv
  BY ArchiveInit, ArchiveNext, IngestInvariant, PTL DEF Spec
<1>. QED
  BY <1>1, <1>2, IngestInvariant, PTL

-----------------------------------------------------------------------------
(* Who holds which lock.                                                    *)

(* A step of one call that takes or gives back locks for itself only.        *)
LEMMA CallKeepsLocks ==
    ASSUME IInv, LocksHeld, UNCHANGED sweep,
           NEW t \in Threads, NEW c, http' = [http EXCEPT ![t] = c],
           processLock' # processLock => {processLock, processLock'} \subseteq {t, None},
           writeLock' # writeLock => {writeLock, writeLock'} \subseteq {t, None},
           processLock' = t <=> c.phase \in Active \cup {"answer"},
           writeLock' = t <=> c.phase \in {"open", "archived"}
    PROVE  LocksHeld'
<1>1. http'[t] = c /\ \A u \in Threads : u # t => http'[u] = http[u]
  BY DEF IInv, TypeOK
<1>2. \A u \in Threads : u \notin {None, "sweep"}
  BY NamesAssumption
<1>3. ASSUME NEW u \in Threads
      PROVE  /\ processLock' = u <=> http'[u].phase \in Active \cup {"answer"}
             /\ writeLock' = u <=> http'[u].phase \in {"open", "archived"}
  <2>1. CASE u = t
    BY <1>1, <2>1
  <2>2. CASE u # t
    <3>1. (processLock' = u <=> processLock = u) /\ (writeLock' = u <=> writeLock = u)
      BY <1>2, <2>2
    <3>. QED
      BY <1>1, <2>2, <3>1 DEF LocksHeld, Active
  <2>. QED
    BY <2>1, <2>2
<1>4. None # "sweep"
  BY NamesAssumption
<1>5. /\ processLock' = "sweep" <=> processLock = "sweep"
      /\ writeLock' = "sweep" <=> writeLock = "sweep"
  BY <1>2, <1>4
<1>. QED
  BY <1>3, <1>5 DEF LocksHeld, Active

(* Every step keeps the books of the two locks.                             *)
LEMMA LocksNext == IInv /\ LocksHeld /\ [Next]_vars => LocksHeld'
<1> SUFFICES ASSUME IInv, LocksHeld, [Next]_vars PROVE LocksHeld'
  OBVIOUS
<1>1. \A t \in Threads : t \notin {None, "sweep", "route"}
  BY NamesAssumption
<1>2. None \notin {"sweep", "route"}
  BY NamesAssumption
<1>3. ASSUME NEW t \in Threads, NEW b, Post(t, b), UNCHANGED <<processLock, writeLock, sweep>>
      PROVE  LocksHeld'
  <2>1. http' = [http EXCEPT ![t] = NewCall(b)] /\ http[t].phase = "idle"
    BY <1>3 DEF Post
  <2>2. NewCall(b).phase = "waiting"
    BY DEF NewCall
  <2>. QED
    BY <1>3, <2>1, <2>2, CallKeepsLocks DEF LocksHeld, Active
<1>4. ASSUME NEW t \in Threads, Deliver(t) \/ BackfillPosts(t) PROVE LocksHeld'
  BY <1>3, <1>4 DEF Deliver, BackfillPosts
<1>5. ASSUME NEW t \in Threads, Enter(t) \/ CallStep(t) \/ ProcessFails(t) PROVE LocksHeld'
  <2> DEFINE c == http[t]
  <2>1. /\ c \in Call /\ (c.phase \in Active => c.todo # <<>>)
        /\ processLock = t <=> c.phase \in Active \cup {"answer"}
        /\ writeLock = t <=> c.phase \in {"open", "archived"}
    BY CallFields DEF LocksHeld, Active
  <2>2. ASSUME NEW d, http' = [http EXCEPT ![t] = d], d.phase \in {"begin", "answer"},
               c.phase \in Active, UNCHANGED <<processLock, sweep>>,
               writeLock' = IF c.phase = "begin" THEN writeLock ELSE None
        PROVE  LocksHeld'
    BY <1>1, <2>1, <2>2, CallKeepsLocks DEF Active
  <2>3. \A ok \in BOOLEAN : NextItem(c, ok).phase \in {"begin", "answer"}
    BY DEF NextItem
  <2>4. Retried(c).phase \in {"begin", "answer"}
    <3>1. CASE c.attempt < MaxAttempts - 1
      BY <2>1, <3>1 DEF Retried, Call
    <3>2. CASE ~(c.attempt < MaxAttempts - 1)
      BY <2>3, <3>2 DEF Retried
    <3>. QED
      BY <3>1, <3>2
  <2>5. CASE Enter(t)
    <3> DEFINE d == [c EXCEPT !.phase = "begin"]
    <3>1. /\ http' = [http EXCEPT ![t] = d] /\ d.phase = "begin" /\ c.phase = "waiting"
          /\ processLock = None /\ processLock' = t /\ UNCHANGED <<writeLock, sweep>>
      BY <2>1, <2>5 DEF Enter, Call, IInv, TypeOK
    <3> HIDE DEF d
    <3>. QED
      BY <2>1, <3>1, CallKeepsLocks DEF Active
  <2>6. CASE Begin(t)
    <3> DEFINE d == [c EXCEPT !.phase = "open"]
    <3>1. /\ http' = [http EXCEPT ![t] = d] /\ d.phase = "open" /\ c.phase = "begin"
          /\ writeLock = None /\ writeLock' = t /\ UNCHANGED <<processLock, sweep>>
      BY <2>1, <2>6 DEF Begin, Call, IInv, TypeOK
    <3> HIDE DEF d
    <3>. QED
      BY <2>1, <3>1, CallKeepsLocks DEF Active
  <2>7. CASE Archive(t)
    <3> DEFINE d == [c EXCEPT !.phase = "archived", !.cached = TRUE]
    <3>1. /\ http' = [http EXCEPT ![t] = d] /\ d.phase = "archived" /\ c.phase = "open"
          /\ UNCHANGED <<processLock, writeLock, sweep>>
      BY <2>1, <2>7 DEF Archive, Call, IInv, TypeOK
    <3> HIDE DEF d
    <3>. QED
      BY <2>1, <3>1, CallKeepsLocks DEF Active
  <2>8. CASE BeginTimesOut(t)
    BY <2>2, <2>4, <2>8 DEF BeginTimesOut, Active
  <2>9. CASE Duplicate(t)
    BY <2>2, <2>3, <2>9 DEF Duplicate, Active
  <2>10. ASSUME NEW status \in {"PROCESSED", "FAILED"}, Process(t, status) PROVE LocksHeld'
    BY <2>2, <2>3, <2>10 DEF Process, Active
  <2>11. CASE ProcessFails(t)
    BY <2>2, <2>3, <2>4, <2>11 DEF ProcessFails, Active
  <2>12. CASE Answer(t)
    <3>1. /\ http' = [http EXCEPT ![t] = IdleCall] /\ IdleCall.phase = "idle" /\ c.phase = "answer"
          /\ processLock' = None /\ UNCHANGED <<writeLock, sweep>>
      BY <2>12 DEF Answer, Released, IdleCall
    <3>. QED
      BY <1>1, <2>1, <3>1, CallKeepsLocks DEF Active
  <2>. QED
    BY <1>5, <2>5, <2>6, <2>7, <2>8, <2>9, <2>10, <2>11, <2>12 DEF CallStep
<1>6. CASE SweepStep \/ SweepEnters \/ SweepFails
  <2>1. UNCHANGED http
    BY <1>6 DEF SweepStep, SweepStarts, SweepEnters, SweepReads, SweepWrites, SweepGoesOn,
                SweepCommits, SweepTimesOut, SweepFails
  <2>2. \A t \in Threads : (processLock' = t <=> processLock = t) /\ (writeLock' = t <=> writeLock = t)
    BY <1>1, <1>2, <1>6
       DEF LocksHeld, FreedBy, SweepStep, SweepStarts, SweepEnters, SweepReads, SweepWrites,
           SweepGoesOn, SweepCommits, SweepTimesOut, SweepFails
  <2>3. processLock' = "sweep" <=> sweep'.phase = "section"
    BY <1>2, <1>6
       DEF LocksHeld, IInv, TypeOK, Round, IdleRound, SweepStep, SweepStarts, SweepEnters,
           SweepReads, SweepWrites, SweepGoesOn, SweepCommits, SweepTimesOut, SweepFails
  <2>4. writeLock' = "sweep" => sweep'.phase # "idle"
    BY <1>2, <1>6
       DEF LocksHeld, IInv, TypeOK, Round, IdleRound, FreedBy, SweepStep, SweepStarts, SweepEnters,
           SweepReads, SweepWrites, SweepGoesOn, SweepCommits, SweepTimesOut, SweepFails
  <2>. QED
    BY <2>1, <2>2, <2>3, <2>4 DEF LocksHeld
<1>7. CASE RouteWrites \/ RouteCommits
  BY <1>1, <1>2, <1>7 DEF RouteWrites, RouteCommits, LocksHeld
<1>8. CASE Crash
  BY <1>1, <1>2, <1>8 DEF Crash, LocksHeld, IdleCall, IdleRound, Active
<1>9. CASE BackfillScans \/ UNCHANGED vars
  BY <1>9 DEF BackfillScans, vars, LocksHeld
<1>. QED
  BY <1>4, <1>5, <1>6, <1>7, <1>8, <1>9 DEF Next

(* Batches and sections of a round never overlap, whatever times out, fails or *)
(* crashes, and a lock whose holder has gone home is free again.              *)
THEOREM LocksAreHeldByTheBusy == Spec => []LocksHeld
<1>1. Init => LocksHeld
  BY NamesAssumption DEF Init, LocksHeld, IdleCall, IdleRound, Active
<1>. QED
  BY <1>1, LocksNext, IngestInvariant, PTL DEF Spec

-----------------------------------------------------------------------------
(* Ingest implements EventInbox: the commit of an event is Keep or Reject,    *)
(* the answer to a delivery is Acknowledge, and no other step is seen.       *)

LEMMA CommitIsKept ==
    ASSUME IInv, NEW t \in Threads, NEW status \in {"PROCESSED", "FAILED"}, Process(t, status)
    PROVE  Inbox!Next
<1> DEFINE h == Head(http[t].todo)
<1>1. h \in Events
  BY CallFields DEF Process, Active
<1>2. stored[h] = "absent"
  BY DEF Process, IInv, CheckHolds
<1>3. stored' = [stored EXCEPT ![h] = status] /\ acknowledged' = acknowledged
  BY DEF Process
<1>4. CASE status = "PROCESSED"
  <2>1. applied' = [applied EXCEPT ![h] = @ + 1]
    BY <1>4 DEF Process
  <2>2. Inbox!Keep(h)
    BY <1>2, <1>3, <1>4, <2>1 DEF Inbox!Keep
  <2>. QED
    BY <1>1, <2>2 DEF Inbox!Next
<1>5. CASE status = "FAILED"
  <2>1. applied' = applied
    BY <1>5 DEF Process, IInv, TypeOK
  <2>2. Inbox!Reject(h)
    BY <1>2, <1>3, <1>5, <2>1 DEF Inbox!Reject
  <2>. QED
    BY <1>1, <2>2 DEF Inbox!Next
<1>. QED
  BY <1>4, <1>5

LEMMA AnswerIsAcknowledged ==
    ASSUME IInv, NEW t \in Threads, Answer(t)
    PROVE  Inbox!Next
<1>1. http[t].done \in SUBSET Events /\ \A e \in http[t].done : stored[e] # "absent"
  BY CallFields
<1>2. Inbox!Acknowledge(http[t].done)
  BY <1>1 DEF Answer, Inbox!Acknowledge
<1>. QED
  BY <1>1, <1>2 DEF Inbox!Next

(* Threads, attempts, rollbacks, rounds, routes, the backfill tool and crashes *)
(* come down to an inbox, for any number of them.                            *)
THEOREM IngestImplementsInbox == Spec => ImplementsInbox
<1>1. Init => Inbox!Init
  BY DEF Init, Inbox!Init
<1>2. IInv /\ [Next]_vars => [Inbox!Next]_(Inbox!vars)
  <2> SUFFICES ASSUME IInv, [Next]_vars PROVE [Inbox!Next]_(Inbox!vars)
    OBVIOUS
  <2>1. ASSUME NEW t \in Threads, NEW status \in {"PROCESSED", "FAILED"}, Process(t, status)
        PROVE  Inbox!Next
    BY <2>1, CommitIsKept
  <2>2. ASSUME NEW t \in Threads, Answer(t)
        PROVE  Inbox!Next
    BY <2>2, AnswerIsAcknowledged
  <2>3. ASSUME NEW t \in Threads,
               \/ Deliver(t) \/ BackfillPosts(t) \/ Enter(t) \/ ProcessFails(t)
               \/ Begin(t) \/ BeginTimesOut(t) \/ Duplicate(t) \/ Archive(t)
        PROVE  UNCHANGED <<stored, applied, acknowledged>>
    BY <2>3 DEF Deliver, BackfillPosts, Enter, ProcessFails, Begin, BeginTimesOut, Duplicate, Archive
  <2>4. BackfillScans \/ SweepStep \/ SweepEnters \/ SweepFails \/ RouteWrites \/ RouteCommits
          \/ Crash \/ UNCHANGED vars => UNCHANGED <<stored, applied, acknowledged>>
    BY DEF BackfillScans, SweepStep, SweepStarts, SweepEnters, SweepReads, SweepWrites, SweepGoesOn,
           SweepCommits, SweepTimesOut, SweepFails, RouteWrites, RouteCommits, Crash, vars
  <2>. QED
    BY <2>1, <2>2, <2>3, <2>4 DEF Next, CallStep, Inbox!vars
<1>. QED
  BY <1>1, <1>2, IngestInvariant, PTL DEF Spec, ImplementsInbox, Inbox!Spec

(* What the inbox promises: an event kept as PROCESSED changed something      *)
(* exactly once, a rejected one nothing, what is acknowledged is kept, and    *)
(* the verdict on an event is never taken back.                              *)
InboxType ==
    /\ stored \in [Events -> {"absent", "PROCESSED", "FAILED"}]
    /\ applied \in [Events -> Nat]
    /\ acknowledged \subseteq Events

THEOREM InboxKeepsItsPromises == Inbox!Spec => []Inbox!OnceAndKept /\ Inbox!FirstVerdictStands
<1> DEFINE PInv == InboxType /\ Inbox!OnceAndKept
<1>1. Inbox!Init => PInv
  BY DEF Inbox!Init, InboxType, Inbox!OnceAndKept
<1>2. PInv /\ [Inbox!Next]_(Inbox!vars) => PInv' /\ [Inbox!VerdictStands]_(Inbox!vars)
  <2> SUFFICES ASSUME PInv, [Inbox!Next]_(Inbox!vars)
               PROVE  PInv' /\ [Inbox!VerdictStands]_(Inbox!vars)
    OBVIOUS
  <2>1. ASSUME NEW e \in Events, Inbox!Keep(e)
        PROVE  PInv' /\ Inbox!VerdictStands
    <3>1. /\ stored[e] = "absent" /\ stored' = [stored EXCEPT ![e] = "PROCESSED"]
          /\ applied' = [applied EXCEPT ![e] = applied[e] + 1] /\ acknowledged' = acknowledged
      BY <2>1 DEF Inbox!Keep
    <3>2. applied[e] = 0
      BY <3>1 DEF Inbox!OnceAndKept
    <3>. QED
      BY <3>1, <3>2 DEF InboxType, Inbox!OnceAndKept, Inbox!VerdictStands
  <2>2. ASSUME NEW e \in Events, Inbox!Reject(e)
        PROVE  PInv' /\ Inbox!VerdictStands
    BY <2>2 DEF Inbox!Reject, InboxType, Inbox!OnceAndKept, Inbox!VerdictStands
  <2>3. ASSUME NEW S \in SUBSET Events, Inbox!Acknowledge(S)
        PROVE  PInv' /\ Inbox!VerdictStands
    BY <2>3 DEF Inbox!Acknowledge, InboxType, Inbox!OnceAndKept, Inbox!VerdictStands
  <2>4. CASE UNCHANGED Inbox!vars
    BY <2>4 DEF Inbox!vars, InboxType, Inbox!OnceAndKept
  <2>. QED
    BY <2>1, <2>2, <2>3, <2>4 DEF Inbox!Next
<1>3. PInv => Inbox!OnceAndKept
  OBVIOUS
<1>. QED
  BY <1>1, <1>2, <1>3, PTL DEF Inbox!Spec, Inbox!FirstVerdictStands

(* And so does ingestion itself.                                            *)
THEOREM VerdictsAreFinal == Spec => []Inbox!OnceAndKept /\ Inbox!FirstVerdictStands
  BY IngestImplementsInbox, InboxKeepsItsPromises, PTL DEF ImplementsInbox

=============================================================================
