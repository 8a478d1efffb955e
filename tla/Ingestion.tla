----------------------------- MODULE Ingestion ------------------------------
(***************************************************************************)
(* The betting core and the provider sync on one database.  They meet in   *)
(* the matches rows: create_bet reads them, confirm_and_settle locks and   *)
(* writes them, every settlement reads the outcome, and the sync rewrites  *)
(* them from what it read before it had the lock.                          *)
(***************************************************************************)
EXTENDS BuddyBet, MatchSync

ivars == <<vars, ingest, syncs>>

IngestInit ==
  /\ match = [m \in Matches |->
                IF m \in Seeded THEN Fixture("scheduled", InitKickoff[m]) ELSE NoMatch]
  /\ InitRest
  /\ ingest = [t \in Workers |-> NoIngest]
  /\ syncs = 0

(* The match instance of the confirming session survives commit A as its   *)
(* bets do, so the bets it has cached settle on the outcome it confirmed,  *)
(* whatever the row says by then; any other settlement reads the row.      *)
SessionOutcome(t, b) ==
  IF b \in req[t].cached THEN ingest[t].seen ELSE MatchOutcome(b)

(* SettlementStep, with the outcome as the session finds it. *)
IngestSettlement(t) ==
  \/ \E m \in Matches, o \in Outcomes : ConfirmLock(t, m, o)
  \/ ConfirmScan(t)
  \/ \E b \in Bets : ConfirmRow(t, b)
  \/ \E b \in Bets : SettleSingle(t, b)
  \/ \E b \in Bets : SettleLockOn(t, b, SessionOutcome(t, b))
  \/ \E b \in Bets : SettleRefusedOn(t, b, SessionOutcome(t, b))
  \/ SettleWallet(t)
  \/ SettlePlatform(t)
  \/ SettleWinner(t)
  \/ SettleNoWinner(t)
  \/ SettleFail(t)

(* Transaction A ends and the session keeps its match. *)
ConfirmAndKeep(t) ==
  /\ ConfirmCommit(t)
  /\ ingest' = [ingest EXCEPT ![t].seen = IF req'[t].cached = {} THEN NoOne ELSE req[t].outcome]

(* The match is forgotten with the session, or with its cached rows. *)
Forget(t) == ingest' = [ingest EXCEPT ![t] = IF req'[t].cached = {} THEN NoIngest ELSE @]

CoreStep(t) ==
  /\ BetServiceStep(t) \/ AdminServiceStep(t) \/ IngestSettlement(t)
  /\ Forget(t)

(* t waits for a row of o, a match row among them. *)
IngestWaits(t, o) ==
  \/ WaitsFor(t, o)
  \/ pc[t] = "sync_flush" /\ matchLock[Target(t)] = o

IngestDeadlocked(D) == D # {} /\ \A t \in D : \E o \in D : IngestWaits(t, o)

IngestAbort(t) ==
  /\ \E D \in SUBSET Workers : t \in D /\ IngestDeadlocked(D)
  /\ IF pc[t] \in SettlePCs THEN NextBet(t, req[t].todo) ELSE Finish(t)
  /\ Forget(t)
  /\ UNCHANGED <<now, rows, crashes>>

(* A process dies or loses its connection: the server rolls back. *)
ConnectionLost(t) ==
  /\ pc[t] # "idle"
  /\ Finish(t)
  /\ Forget(t)
  /\ UNCHANGED <<now, rows, crashes>>

IngestNext ==
  \/ Tick /\ UNCHANGED <<ingest, syncs>>
  \/ \E t \in Workers :
       \/ SyncStep(t)
       \/ CoreStep(t) /\ UNCHANGED syncs
       \/ ConfirmAndKeep(t) /\ UNCHANGED syncs
       \/ IngestAbort(t) /\ UNCHANGED syncs
       \/ ConnectionLost(t) /\ UNCHANGED syncs

IngestSpec == IngestInit /\ [][IngestNext]_ivars

-----------------------------------------------------------------------------
(* Type invariant of the rows the sync writes and of its sessions. *)
IngestTypeOK ==
  /\ match \in [Matches -> Match]
  /\ \A t \in Workers :
       /\ pc[t] \in PCs \cup SyncPCs
       /\ ingest[t].todo \subseteq Payload
       /\ ingest[t].payload \in Null(Payload)
       /\ ingest[t].seen \in Null(Outcomes)
       /\ \A m \in Matches : ingest[t].loaded[m] \in Match

Terminal == {"completed", "cancelled", "abandoned"}

(* Worker t commits a sync that read match m before its result was         *)
(* confirmed, or before it reached a terminal status.                      *)
StaleCommit(t, m) ==
  /\ pc[t] = "sync_next" /\ pc'[t] = "idle"
  /\ ingest[t].flushed[m] # <<>>
  /\ \/ match[m].confirmed /\ ~ingest[t].loaded[m].confirmed
     \/ match[m].status \in Terminal /\ ingest[t].loaded[m].status \notin Terminal

(* A confirmed result changes, or a match leaves a terminal status, only   *)
(* through a sync that had read the row before it was confirmed or ended;  *)
(* a confirmation may complete a match the provider called off.  ("Sync    *)
(* should never move a match backwards or out of a terminal state".)       *)
OnlyStaleSyncsRegress ==
  [][\A m \in Matches :
       \/ match[m].confirmed /\ match'[m].outcome # match[m].outcome
       \/ /\ match[m].status \in Terminal /\ match'[m].status # match[m].status
          /\ match'[m].confirmed = match[m].confirmed
       => \E t \in Workers : StaleCommit(t, m)]_ivars

(* No confirmation is ever taken back, which would let an admin confirm    *)
(* again and settle bets on another result: not even a sync that read the  *)
(* match before the confirmation and commits after it writes the column    *)
(* result_confirmed_at.                                                    *)
ConfirmationKept ==
  [][\A m \in Matches : match[m].confirmed => match'[m].confirmed]_ivars

(* A provider's report that a match is over. *)
Finished(r) ==
  is_completed_api_football_status(r.status) \/ is_completed_football_data_org_status(r.status)

(* The goals of a side that may count, of its full-time count f and its    *)
(* final count g: f where f is a goal or more; of a side without a goal at *)
(* full time, or without a count, the final one too.                       *)
Counted(f, g) == IF f \in {NoOne, 0} THEN {f, g} ELSE {f}

(* o follows from the counted goals of one report that match m is over. *)
FullTimeOf(m, o) ==
  \E r \in Reports :
    /\ r.id = m /\ Finished(r)
    /\ \E home \in Counted(r.fulltime.home, r.goals.home),
         away \in Counted(r.fulltime.away, r.goals.away) : o = derive_outcome(home, away)

(* A provider result in the table, not yet confirmed by the admin, follows *)
(* from a report of that match in its final state, and a goal scored after *)
(* full time decides it only for a side that had none, or no count, at     *)
(* full time (the  or  of _parse_fixture, whose comment means only a       *)
(* missing count).  No score of a match in play, of another match or       *)
(* pieced together from two reports becomes a result.                      *)
FullTimeResult ==
  \A m \in Matches : match[m].outcome # NoOne /\ ~match[m].confirmed =>
    FullTimeOf(m, match[m].outcome)

(* accept_bet never matches a bet at or after the kickoff of its match     *)
(* (schema.sql on kickoff_at).                                             *)
AcceptedBeforeKickoff ==
  [][\A t \in Workers : pc[t] = "idle" /\ pc'[t] = "accept_wallet" =>
       now < match[bet[req'[t].bet].match_id].kickoff_at]_ivars
=============================================================================
