----------------------------- MODULE MatchSync ------------------------------
(***************************************************************************)
(* MatchSyncService (app/integrations/sync_service.py): the admin's sync   *)
(* requests.  One request fetches fixtures, upserts them one by one in one *)
(* transaction, and get_db commits.  Every upsert SELECTs the row without  *)
(* a lock, decides on what it read, and flushes an UPDATE of the columns   *)
(* it changed; the flush waits for the row, the read did not.              *)
(***************************************************************************)
EXTENDS Providers

CONSTANTS
  SyncEnabled,   \* settings.sports_provider_enabled
  MaxSyncs,      \* bound: sync requests
  Seeded         \* the fixtures already in the table at the start

ASSUME SyncAssumption == 
  SyncEnabled \in BOOLEAN /\ MaxSyncs \in Nat /\ Seeded \subseteq Matches

VARIABLES
  ingest,        \* the fetched payloads and the match rows of every session
  syncs          \* sync requests so far

NoMatch == [status |-> "none", kickoff_at |-> 0, outcome |-> NoOne, confirmed |-> FALSE]

(* payloads still to upsert; the one in hand; the rows as read; the        *)
(* columns flushed; the outcome a confirming session keeps on its match.   *)
NoIngest == [todo |-> {}, payload |-> NoOne, loaded |-> [m \in Matches |-> NoMatch],
             flushed |-> [m \in Matches |-> <<>>], seen |-> NoOne]

SyncPCs == {"sync_next", "sync_flush"}

_ALLOWED_TRANSITIONS ==
  [scheduled |-> {"live", "completed", "postponed", "cancelled", "abandoned"},
   live      |-> {"completed", "postponed", "cancelled", "abandoned"},
   postponed |-> {"scheduled"},
   completed |-> {}, cancelled |-> {}, abandoned |-> {}]

-----------------------------------------------------------------------------
(* sync_upcoming, sync_results, sync_live, up to the first payload. *)
SyncBegin(t, payloads) ==
  /\ pc[t] = "idle"
  /\ SyncEnabled
  /\ payloads # {}
  /\ syncs < MaxSyncs
  /\ syncs' = syncs + 1
  /\ Goto(t, "sync_next")
  /\ ingest' = [ingest EXCEPT ![t] = [NoIngest EXCEPT !.todo = payloads]]
  /\ UNCHANGED <<now, rows, locks, req, snap, psnap, crashes>>

(* _upsert_fixture: get_by_external_id, a plain SELECT. *)
SyncRead(t, p) ==
  /\ pc[t] = "sync_next"
  /\ p \in ingest[t].todo
  /\ Goto(t, "sync_flush")
  /\ ingest' = [ingest EXCEPT ![t].todo = @ \ {p}, ![t].payload = p,
                              ![t].loaded[p.external_id] = match[p.external_id]]
  /\ UNCHANGED <<now, rows, locks, req, snap, psnap, crashes>>

(* The columns _create_fixture inserts. *)
create_fixture(p) ==
  [status |-> p.internal_status, kickoff_at |-> p.kickoff_at,
   outcome |-> p.internal_outcome, confirmed |-> FALSE]

(* Fault: the outcome is written to confirmed matches too. *)
AnyResult(row, p) == p.internal_outcome \notin {NoOne, row.outcome}

(* The provider's result counts until the admin has confirmed one. *)
TakesResult(row, p) == p.internal_outcome \notin {NoOne, row.outcome} /\ ~row.confirmed

(* Fault: the UPDATE writes every column of the row as it was read. *)
WholeRow(row, p) ==
  [row EXCEPT !.outcome = IF TakesResult(row, p) THEN p.internal_outcome ELSE @]

(* The columns _update_fixture sets on the row it read: a kickoff moved by *)
(* more than a minute, an allowed status, the result.  The UPDATE is sent  *)
(* in any case, for last_synced_at.                                        *)
update_fixture(row, p) ==
  LET Changes(c) ==
        CASE c = "kickoff_at" -> Distance(row.kickoff_at, p.kickoff_at) > 1
          [] c = "status"     -> p.internal_status \in _ALLOWED_TRANSITIONS[row.status]
          [] c = "outcome"    -> TakesResult(row, p)
      new == create_fixture(p)
  IN  [c \in {d \in {"kickoff_at", "status", "outcome"} : Changes(d)} |-> new[c]]

Columns(row, p) == IF row = NoMatch THEN create_fixture(p) ELSE update_fixture(row, p)

Target(t) == ingest[t].payload.external_id

(* Fault: external_id is not UNIQUE. *)
NotUnique(t) == FALSE

(* A row absent when read and committed by another request since: the      *)
(* INSERT violates the unique external_id.                                 *)
Duplicate(t) ==
  ingest[t].loaded[Target(t)] = NoMatch /\ match[Target(t)] # NoMatch

(* flush: wait for the row (or for an uncommitted insert of the same id),  *)
(* send the INSERT or UPDATE and keep the lock.                            *)
SyncFlush(t) ==
  LET m == Target(t)
  IN  /\ pc[t] = "sync_flush"
      /\ matchLock[m] = NoOne
      /\ ~Duplicate(t)
      /\ matchLock' = [matchLock EXCEPT ![m] = t]
      /\ Goto(t, "sync_next")
      /\ ingest' = [ingest EXCEPT
            ![t].payload = NoOne,
            ![t].flushed[m] = Columns(ingest[t].loaded[m], ingest[t].payload)]
      /\ UNCHANGED <<now, rows, betLock, walletLock, platformLock, req, snap, psnap, crashes>>

(* A failed flush rolls the whole transaction back.  _process_payloads     *)
(* goes on, but every later statement and in the end the commit fails.     *)
SyncDuplicate(t) ==
  /\ pc[t] = "sync_flush"
  /\ matchLock[Target(t)] = NoOne
  /\ Duplicate(t)
  /\ Finish(t)
  /\ ingest' = [ingest EXCEPT ![t] = NoIngest]
  /\ UNCHANGED <<now, rows, crashes>>

Overwrite(row, columns) ==
  [c \in DOMAIN row |-> IF c \in DOMAIN columns THEN columns[c] ELSE row[c]]

(* get_db commits: the flushed columns, and no others. *)
SyncCommit(t) ==
  /\ pc[t] = "sync_next"
  /\ ingest[t].todo = {}
  /\ match' = [m \in Matches |-> Overwrite(match[m], ingest[t].flushed[m])]
  /\ Finish(t)
  /\ ingest' = [ingest EXCEPT ![t] = NoIngest]
  /\ UNCHANGED <<now, bet, wallet, platform, ledger, events, crashes>>

(* A request that syncs goes on. *)
SyncProgress(t) ==
  \/ \E p \in ingest[t].todo : SyncRead(t, p)
  \/ SyncFlush(t)
  \/ SyncDuplicate(t)
  \/ SyncCommit(t)

SyncStep(t) ==
  \/ \E kind \in FetchKinds : \E payloads \in Fetched[kind] : SyncBegin(t, payloads)
  \/ SyncProgress(t) /\ UNCHANGED syncs
=============================================================================
