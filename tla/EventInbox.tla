------------------------------ MODULE EventInbox ------------------------------
(***************************************************************************)
(* What ingestion promises a source of events, without threads, batches,     *)
(* locks, attempts or an archive.  Ingest implements it; one step here is    *)
(* one commit, or one answer, there.                                        *)
(*                                                                         *)
(* An event is kept once and for good, with the changes it makes to alerts   *)
(* and incidents or with the reason that it makes none, and only what is     *)
(* kept is acknowledged.                                                    *)
(***************************************************************************)
EXTENDS Naturals

CONSTANT Events

VARIABLES
    kept,      \* per event: absent, PROCESSED, or FAILED
    changes,   \* per event: how often it changed alerts and incidents
    answered   \* events acknowledged to a source

vars == <<kept, changes, answered>>

Init ==
    /\ kept = [e \in Events |-> "absent"]
    /\ changes = [e \in Events |-> 0]
    /\ answered = {}

(* An event and its changes, in one.                                        *)
Keep(e) ==
    /\ kept[e] = "absent"
    /\ kept' = [kept EXCEPT ![e] = "PROCESSED"]
    /\ changes' = [changes EXCEPT ![e] = @ + 1]
    /\ UNCHANGED answered

(* An event that cannot be normalised is kept as it came.                   *)
Reject(e) ==
    /\ kept[e] = "absent"
    /\ kept' = [kept EXCEPT ![e] = "FAILED"]
    /\ UNCHANGED <<changes, answered>>

Acknowledge(S) ==
    /\ \A e \in S : kept[e] # "absent"
    /\ answered' = answered \cup S
    /\ UNCHANGED <<kept, changes>>

Next ==
    \/ \E e \in Events : Keep(e) \/ Reject(e)
    \/ \E S \in SUBSET Events : Acknowledge(S)

Spec == Init /\ [][Next]_vars

-----------------------------------------------------------------------------
(* What follows for a source.                                              *)

(* Exactly the events kept as PROCESSED changed something, each once; and    *)
(* what was acknowledged is kept.                                          *)
OnceAndKept ==
    /\ \A e \in Events : changes[e] = IF kept[e] = "PROCESSED" THEN 1 ELSE 0
    /\ \A e \in answered : kept[e] # "absent"

VerdictStands ==
    \A e \in Events : kept[e] # "absent" => kept'[e] = kept[e] /\ changes'[e] = changes[e]

(* What became of an event is settled by its first commit: no later delivery *)
(* processes what was rejected, or anything a second time.                   *)
FirstVerdictStands == [][VerdictStands]_vars

=============================================================================
