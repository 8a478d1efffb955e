-------------------------- MODULE SyncConsistency ---------------------------
(***************************************************************************)
(* What a provider sync in flight may rely on, beside the betting          *)
(* requests: the inductive invariant of the ingestion.  Its reads are      *)
(* plain, so a row may have changed since; what it may rely on is that it  *)
(* holds every row it has flushed, that it flushed what it decided on the  *)
(* row as read, and that a row it inserts is still not there.              *)
(***************************************************************************)
EXTENDS Consistency, Ingestion

(* What the reports can become. *)
Payloads == normalize_fixtures(Reports) \cup normalize_matches(Reports)

(* Nothing is known of a row that is not there. *)
Whole(row) == row \in Match /\ (row.status = "none" => row = NoMatch)

(* What t has still to write: the payload in hand and the ones to come. *)
Ahead(t) == ingest[t].todo \cup (IF pc[t] = "sync_flush" THEN {ingest[t].payload} ELSE {})

SessionShape(t) ==
  ingest[t] = [todo |-> ingest[t].todo, payload |-> ingest[t].payload,
               loaded |-> [m \in Matches |-> ingest[t].loaded[m]],
               flushed |-> [m \in Matches |-> ingest[t].flushed[m]], seen |-> ingest[t].seen]

FlushedOK(t, m) ==
  ingest[t].flushed[m] # <<>> =>
    /\ matchLock[m] = t
    /\ \A p \in Ahead(t) : p.external_id # m
    /\ \E p \in Payloads :
         p.external_id = m /\ ingest[t].flushed[m] = Columns(ingest[t].loaded[m], p)
    /\ ingest[t].loaded[m] = NoMatch => match[m] = NoMatch

SyncOK(t) ==
  /\ SessionShape(t)
  /\ ingest[t].seen \in Null(Outcomes)
  /\ pc[t] \in PCs => ingest[t] = [NoIngest EXCEPT !.seen = ingest[t].seen]
  /\ pc[t] = "sync_flush" => ingest[t].payload \notin ingest[t].todo
  /\ pc[t] # "sync_flush" => ingest[t].payload = NoOne
  /\ Ahead(t) \subseteq Payloads
  /\ \A p, q \in Ahead(t) : p.external_id = q.external_id => p = q
  /\ \A m \in Matches : Whole(ingest[t].loaded[m]) /\ FlushedOK(t, m)
  /\ \A m \in Matches : ingest[t].loaded[m] # NoMatch => match[m] # NoMatch

(* The inductive invariant of the ingestion: the betting requests still    *)
(* find their rows as they rely on them when syncs rewrite the matches,    *)
(* and the syncs theirs, whatever confirmations commit in between.         *)
IngestConsistent ==
  /\ Sound
  /\ ingest = [t \in Workers |-> ingest[t]]
  /\ \A t \in Workers : pc[t] \in PCs \cup SyncPCs /\ SyncOK(t)
  /\ \A m \in Matches : Whole(match[m])
  /\ FullTimeResult
=============================================================================
