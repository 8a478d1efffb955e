-------------------------- MODULE IngestionProofs ---------------------------
(***************************************************************************)
(* Proofs about the betting core beside the provider sync, for any number  *)
(* of requests, syncs, fixtures and reports.                               *)
(***************************************************************************)
EXTENDS SyncConsistency, MoneyProofs

(* What a step of t never does to the others, their sync sessions too. *)
SyncGuarantees(t) ==
  /\ Guarantees(t)
  /\ \A o \in Workers \ {t} : ingest'[o] = ingest[o]
  /\ \A m \in Matches : match[m] # NoMatch => match'[m] # NoMatch

-----------------------------------------------------------------------------
(* Reports and payloads. *)

(* What the parsers return is a payload. *)
LEMMA PayloadsTyped == Payloads \subseteq Payload
<1> USE ConstantsAssumption, ProvidersAssumption, ReportsAssumption
<1>1. ASSUME NEW r \in Reports, Complete(r)
      PROVE  parse_fixture(r) \in Payload /\ parse_match(r) \in Payload
  <2>1. r.id \in Matches /\ r.date \in Nat
    BY <1>1 DEF Complete, ProvidersAssumption, Report, Null
  <2>2. /\ map_api_football_status(r.status) \in MatchStatus
        /\ map_football_data_org_status(r.status) \in MatchStatus
    BY DEF map_api_football_status, map_football_data_org_status, MatchStatus
  <2>3. /\ is_completed_api_football_status(r.status) \in BOOLEAN
        /\ is_completed_football_data_org_status(r.status) \in BOOLEAN
    BY DEF is_completed_api_football_status, is_completed_football_data_org_status
  <2>4. /\ parse_fixture(r) \in normalize_fixtures(Reports)
        /\ parse_match(r) \in normalize_matches(Reports)
    BY <1>1 DEF normalize_fixtures, normalize_matches
  <2>5. /\ parse_fixture(r).internal_outcome \in Null(Outcomes)
        /\ parse_match(r).internal_outcome \in Null(Outcomes)
    BY <2>4 DEF ReportsAssumption
  <2>6. parse_fixture(r) \in Payload
    BY <2>1, <2>2, <2>3, <2>5 DEF parse_fixture, Payload
  <2>7. parse_match(r) \in Payload
    BY <2>1, <2>2, <2>3, <2>5 DEF parse_match, Payload
  <2> QED BY <2>6, <2>7
<1> QED BY <1>1 DEF Payloads, normalize_fixtures, normalize_matches

(* A result the parsers found follows from the counted goals of a report   *)
(* that the match is over.                                                 *)
LEMMA ParsedResult ==
  ASSUME NEW p \in Payloads, p.internal_outcome # NoOne
  PROVE  FullTimeOf(p.external_id, p.internal_outcome)
<1>1. PICK r \in Reports : p = parse_fixture(r) \/ p = parse_match(r)
  BY DEF Payloads, normalize_fixtures, normalize_matches
<1>2. CASE p = parse_match(r)
  <2>1. /\ p.external_id = r.id /\ is_completed_football_data_org_status(r.status)
        /\ p.internal_outcome = derive_outcome(r.fulltime.home, r.fulltime.away)
    BY <1>2 DEF parse_match
  <2>2. /\ r.fulltime.home \in Counted(r.fulltime.home, r.goals.home)
        /\ r.fulltime.away \in Counted(r.fulltime.away, r.goals.away)
    BY DEF Counted
  <2> QED BY <2>1, <2>2 DEF FullTimeOf, Finished
<1>3. CASE p = parse_fixture(r)
  <2> DEFINE home == OrElse(r.fulltime.home, r.goals.home)
             away == OrElse(r.fulltime.away, r.goals.away)
  <2>1. /\ p.external_id = r.id /\ is_completed_api_football_status(r.status)
        /\ p.internal_outcome = derive_outcome(home, away)
    BY <1>3 DEF parse_fixture
  <2>2. /\ home \in Counted(r.fulltime.home, r.goals.home)
        /\ away \in Counted(r.fulltime.away, r.goals.away)
    BY DEF Counted, OrElse
  <2> HIDE DEF home, away
  <2> QED BY <2>1, <2>2 DEF FullTimeOf, Finished
<1> QED BY <1>1, <1>2, <1>3

(* A fetch returns payloads of reports, one per fixture. *)
LEMMA FetchedPayloads ==
  ASSUME NEW kind \in FetchKinds, NEW P \in Fetched[kind]
  PROVE  P \subseteq Payloads /\ \A p, q \in P : p.external_id = q.external_id => p = q
<1>1. PICK raws \in SUBSET Reports, ids \in BOOLEAN :
        Answer(raws) /\ P = Fetch(raws, kind, ids)
  BY DEF Fetched
<1>2. PICK S \in SUBSET raws : P \subseteq normalize_fixtures(S) \/ P \subseteq normalize_matches(S)
  <2>1. CASE SportsProvider = "football_data_org"
    <3>1. get_matches(raws, kind) \in SUBSET raws BY DEF get_matches
    <3>2. P \subseteq normalize_matches(get_matches(raws, kind))
      BY <1>1, <2>1 DEF Fetch, fetch_football_data_org
    <3> QED BY <3>1, <3>2
  <2>2. CASE SportsProvider # "football_data_org"
    <3>1. get_fixtures(raws, kind) \in SUBSET raws BY DEF get_fixtures
    <3>2. P \subseteq normalize_fixtures(get_fixtures(raws, kind))
      BY <1>1, <2>2 DEF Fetch, fetch_api_football
    <3> QED BY <3>1, <3>2
  <2> QED BY <2>1, <2>2
<1>3. P \subseteq Payloads
  BY <1>2 DEF Payloads, normalize_fixtures, normalize_matches
<1>4. ASSUME NEW p \in P, NEW q \in P, p.external_id = q.external_id PROVE p = q
  <2>1. CASE P \subseteq normalize_fixtures(S)
    <3>1. PICK r \in S : p = parse_fixture(r) BY <2>1 DEF normalize_fixtures
    <3>2. PICK s \in S : q = parse_fixture(s) BY <2>1 DEF normalize_fixtures
    <3>3. r.id = s.id BY <1>4, <3>1, <3>2 DEF parse_fixture
    <3> QED BY <1>1, <3>1, <3>2, <3>3 DEF Answer
  <2>2. CASE P \subseteq normalize_matches(S)
    <3>1. PICK r \in S : p = parse_match(r) BY <2>2 DEF normalize_matches
    <3>2. PICK s \in S : q = parse_match(s) BY <2>2 DEF normalize_matches
    <3>3. r.id = s.id BY <1>4, <3>1, <3>2 DEF parse_match
    <3> QED BY <1>1, <3>1, <3>2, <3>3 DEF Answer
  <2> QED BY <1>2, <2>1, <2>2
<1> QED BY <1>3, <1>4

-----------------------------------------------------------------------------
(* The columns of an upsert. *)

(* The columns an UPDATE of a row writes, and why. *)
LEMMA UpdatedColumns ==
  ASSUME NEW row \in Match, row # NoMatch, Whole(row), NEW p \in Payload
  PROVE  LET c == Columns(row, p)
         IN  /\ DOMAIN c \subseteq {"kickoff_at", "status", "outcome"}
             /\ "kickoff_at" \in DOMAIN c => c["kickoff_at"] = p.kickoff_at
             /\ "status" \in DOMAIN c =>
                  c["status"] = p.internal_status /\ row.status \notin Terminal
             /\ "outcome" \in DOMAIN c =>
                  /\ c["outcome"] = p.internal_outcome
                  /\ p.internal_outcome # NoOne /\ ~row.confirmed
<1> DEFINE c == Columns(row, p)
           D == {"kickoff_at", "status", "outcome"}
           Changes(d) ==
             CASE d = "kickoff_at" -> Distance(row.kickoff_at, p.kickoff_at) > 1
               [] d = "status"     -> p.internal_status \in _ALLOWED_TRANSITIONS[row.status]
               [] d = "outcome"    -> TakesResult(row, p)
           n == create_fixture(p)
<1>1. c = [d \in {e \in D : Changes(e)} |-> n[d]]
  BY DEF Columns, update_fixture
<1>2. DOMAIN c = {e \in D : Changes(e)} BY <1>1
<1>3. \A d \in DOMAIN c : c[d] = n[d] BY <1>1
<1>4. /\ n["kickoff_at"] = p.kickoff_at /\ n["status"] = p.internal_status
      /\ n["outcome"] = p.internal_outcome
  BY DEF create_fixture
<1>5. ASSUME "status" \in DOMAIN c PROVE row.status \notin Terminal
  <2>1. p.internal_status \in _ALLOWED_TRANSITIONS[row.status] BY <1>2, <1>5
  <2>2. row.status \in MatchStatus BY DEF Whole, Match
  <2> QED BY <2>1, <2>2 DEF _ALLOWED_TRANSITIONS, Terminal, MatchStatus
<1>6. ASSUME "outcome" \in DOMAIN c PROVE p.internal_outcome # NoOne /\ ~row.confirmed
  BY <1>2, <1>6 DEF TakesResult
<1> HIDE DEF c
<1> QED BY <1>2, <1>3, <1>4, <1>5, <1>6 DEF c

(* A row as a sync leaves it: inserted whole when it was not there, or     *)
(* with the columns it decided on when it read the row; the confirmation   *)
(* is never written, a result only over an unconfirmed one, a status only  *)
(* over one that is not terminal.                                          *)
LEMMA Overwritten ==
  ASSUME NEW row \in Match, Whole(row), NEW p \in Payload, NEW old \in Match, Whole(old),
         row = NoMatch <=> old = NoMatch
  PROVE  LET c == Columns(row, p)
             n == Overwrite(old, c)
         IN  /\ Whole(n)
             /\ n.confirmed = old.confirmed
             /\ old # NoMatch => n # NoMatch
             /\ n.outcome # old.outcome => n.outcome = p.internal_outcome
             /\ n.outcome # old.outcome /\ old # NoMatch => c # <<>> /\ ~row.confirmed
             /\ n.status # old.status /\ old # NoMatch =>
                  c # <<>> /\ row.status \notin Terminal
<1> DEFINE c == Columns(row, p)
           n == Overwrite(old, c)
           F == {"status", "kickoff_at", "outcome", "confirmed"}
<1>1. DOMAIN old = F BY DEF Match
<1>2. n = [d \in F |-> IF d \in DOMAIN c THEN c[d] ELSE old[d]] BY <1>1 DEF Overwrite
<1>3. /\ p.kickoff_at \in Nat /\ p.internal_status \in MatchStatus
      /\ p.internal_outcome \in Null(Outcomes)
  BY DEF Payload
<1>4. CASE row = NoMatch
  <2>1. c = create_fixture(p) BY <1>4 DEF Columns
  <2>2. n = create_fixture(p) BY <1>2, <2>1 DEF create_fixture
  <2>3. old = NoMatch BY <1>4
  <2>4. /\ n.status = p.internal_status /\ n.outcome = p.internal_outcome
        /\ n.confirmed = FALSE /\ n \in Match
    BY <1>3, <2>2 DEF create_fixture, Match
  <2>5. p.internal_status # "none" BY <1>3 DEF MatchStatus
  <2> QED BY <2>3, <2>4, <2>5 DEF Whole, NoMatch
<1>5. CASE row # NoMatch
  <2>1. /\ DOMAIN c \subseteq {"kickoff_at", "status", "outcome"}
        /\ "kickoff_at" \in DOMAIN c => c["kickoff_at"] = p.kickoff_at
        /\ "status" \in DOMAIN c => c["status"] = p.internal_status /\ row.status \notin Terminal
        /\ "outcome" \in DOMAIN c =>
             c["outcome"] = p.internal_outcome /\ p.internal_outcome # NoOne /\ ~row.confirmed
    BY <1>5, UpdatedColumns
  <2>2. ASSUME NEW d \in DOMAIN c PROVE c # <<>>
    <3>1. DOMAIN <<>> = {} OBVIOUS
    <3> QED BY <3>1
  <2>3. /\ old.status \in MatchStatus /\ old.kickoff_at \in Nat
        /\ old.outcome \in Null(Outcomes) /\ old.confirmed \in BOOLEAN
    BY <1>5 DEF Whole, Match
  <2> HIDE DEF c, n
  <2>4. /\ n.status = IF "status" \in DOMAIN c THEN p.internal_status ELSE old.status
        /\ n.kickoff_at = IF "kickoff_at" \in DOMAIN c THEN p.kickoff_at ELSE old.kickoff_at
        /\ n.outcome = IF "outcome" \in DOMAIN c THEN p.internal_outcome ELSE old.outcome
        /\ n.confirmed = old.confirmed
    BY <1>2, <2>1
  <2>5. n = [status |-> n.status, kickoff_at |-> n.kickoff_at, outcome |-> n.outcome,
             confirmed |-> n.confirmed]
    BY <1>2
  <2>6. n.status \in MatchStatus BY <1>3, <2>3, <2>4
  <2>7. n \in Match BY <1>3, <2>3, <2>4, <2>5, <2>6 DEF Match
  <2>8. n.status # "none" BY <2>6 DEF MatchStatus
  <2>9. Whole(n) /\ n # NoMatch BY <2>7, <2>8 DEF Whole, NoMatch
  <2>10. /\ n.outcome # old.outcome => c # <<>> /\ ~row.confirmed
         /\ n.status # old.status => c # <<>> /\ row.status \notin Terminal
    BY <2>1, <2>2, <2>4
  <2> QED BY <2>4, <2>9, <2>10 DEF c, n
<1> QED BY <1>4, <1>5

-----------------------------------------------------------------------------
(* What a step has to show. *)

(* A step that keeps its guarantees leaves the other syncs as they are. *)
LEMMA SyncRely ==
  ASSUME IngestConsistent, NEW t \in Workers, SyncGuarantees(t), NEW o \in Workers \ {t}
  PROVE  pc'[o] \in PCs \cup SyncPCs /\ SyncOK(o)'
<1>1. SyncOK(o) /\ pc[o] \in PCs \cup SyncPCs BY DEF IngestConsistent
<1>2. pc'[o] = pc[o] /\ ingest'[o] = ingest[o]
  BY DEF SyncGuarantees, Guarantees, SessionsKept
<1>3. ASSUME NEW m \in Matches, matchLock[m] = o PROVE matchLock'[m] = o /\ match'[m] = match[m]
  <2>1. o # NoOne BY ConstantsAssumption DEF ConstantsAssumption
  <2> QED BY <1>3, <2>1 DEF SyncGuarantees, Guarantees, LocksKept, RowsKept
<1>4. Ahead(o)' = Ahead(o) BY <1>2 DEF Ahead
<1>5. ASSUME NEW m \in Matches PROVE FlushedOK(o, m)'
  <2>1. FlushedOK(o, m) BY <1>1 DEF SyncOK
  <2>2. SUFFICES ASSUME ingest[o].flushed[m] # <<>>
                 PROVE  /\ matchLock'[m] = o
                        /\ \A p \in Ahead(o) : p.external_id # m
                        /\ \E p \in Payloads : p.external_id = m
                             /\ ingest[o].flushed[m] = Columns(ingest[o].loaded[m], p)
                        /\ ingest[o].loaded[m] = NoMatch => match'[m] = NoMatch
    BY <1>2, <1>4 DEF FlushedOK
  <2> QED BY <1>3, <2>1, <2>2 DEF FlushedOK
<1>6. \A m \in Matches : match[m] # NoMatch => match'[m] # NoMatch BY DEF SyncGuarantees
<1>7. \A m \in Matches : /\ Whole(ingest'[o].loaded[m])
                         /\ ingest'[o].loaded[m] # NoMatch => match'[m] # NoMatch
  BY <1>1, <1>2, <1>6 DEF SyncOK
<1> QED BY <1>1, <1>2, <1>4, <1>5, <1>7 DEF SyncOK, SessionShape

(* What is left to show of a step of t. *)
LEMMA IngestAdvance ==
  ASSUME IngestConsistent, NEW t \in Workers, SyncGuarantees(t), Sound',
         ingest' = [w \in Workers |-> ingest'[w]],
         pc'[t] \in PCs \cup SyncPCs, SyncOK(t)',
         \A m \in Matches : Whole(match'[m]), FullTimeResult'
  PROVE  IngestConsistent'
<1>1. \A w \in Workers : pc'[w] \in PCs \cup SyncPCs /\ SyncOK(w)' BY SyncRely
<1> QED BY <1>1 DEF IngestConsistent

(* A step that leaves the matches alone. *)
LEMMA MatchesSame ==
  ASSUME IngestConsistent, UNCHANGED match
  PROVE  /\ \A m \in Matches : Whole(match'[m])
         /\ FullTimeResult'
         /\ \A m \in Matches : match[m] # NoMatch => match'[m] # NoMatch
BY DEF IngestConsistent, FullTimeResult

(* A step that changes one sync session. *)
LEMMA SessionChange ==
  ASSUME IngestConsistent, NEW t \in Workers, NEW s, ingest' = [ingest EXCEPT ![t] = s]
  PROVE  /\ ingest' = [w \in Workers |-> ingest'[w]]
         /\ ingest'[t] = s
         /\ \A o \in Workers \ {t} : ingest'[o] = ingest[o]
BY DEF IngestConsistent

(* An empty sync session, but for the outcome a confirmation keeps. *)
LEMMA QuietSession ==
  ASSUME NEW t \in Workers, NEW o \in Null(Outcomes),
         ingest'[t] = [NoIngest EXCEPT !.seen = o], pc'[t] \in PCs
  PROVE  SyncOK(t)'
<1>1. /\ ingest'[t] = [todo |-> {}, payload |-> NoOne, loaded |-> [m \in Matches |-> NoMatch],
                       flushed |-> [m \in Matches |-> <<>>], seen |-> o]
  BY DEF NoIngest
<1>2. pc'[t] # "sync_flush" BY DEF PCs, SettlePCs
<1>3. Ahead(t)' = {} BY <1>1, <1>2 DEF Ahead
<1>4. SessionShape(t)' BY <1>1 DEF SessionShape
<1>5. Whole(NoMatch)
  BY ConstantsAssumption DEF ConstantsAssumption, Whole, NoMatch, Match, Null
<1>6. \A m \in Matches : FlushedOK(t, m)' BY <1>1 DEF FlushedOK
<1>7. ingest'[t] = [NoIngest EXCEPT !.seen = ingest'[t].seen] BY <1>1 DEF NoIngest
<1> QED BY <1>1, <1>2, <1>3, <1>4, <1>5, <1>6, <1>7 DEF SyncOK

-----------------------------------------------------------------------------
(* The steps of a sync. *)

(* A sync that only reads or locks a match keeps every betting request's   *)
(* facts.                                                                  *)
LEMMA SyncInside ==
  ASSUME Sound, NEW t \in Workers, NEW label \in SyncPCs, Goto(t, label),
         UNCHANGED <<now, rows, betLock, walletLock, platformLock, req, snap, psnap, crashes>>,
         \/ matchLock' = matchLock
         \/ \E m \in Matches : matchLock[m] = NoOne /\ matchLock' = [matchLock EXCEPT ![m] = t]
  PROVE  Sound' /\ Guarantees(t) /\ pc'[t] = label
<1>1. Typed BY DEF Sound
<1>2. pc'[t] = label /\ label \notin PCs
  BY <1>1 DEF Goto, Typed, SyncPCs, PCs, SettlePCs
<1>3. LockTypes' BY <1>1 DEF Typed, LockTypes, Null
<1>4. WorkTypes' BY <1>1 DEF Typed, WorkTypes, Goto
<1>5. SessionsKept(t) BY <1>1 DEF Typed, SessionsKept, Goto
<1>6. LocksKept(t) BY <1>1 DEF Typed, LocksKept
<1>7. RequestOK(t)' BY <1>2 DEF RequestOK, PCs, SettlePCs
<1>8. IdsDistinct' BY <1>2, <1>5, IdsKept DEF CreatePCs, PCs
<1>9. platformLock' = t =>
        psnap'[t] = platform \/ (platformLock = t /\ psnap'[t] = psnap[t])
  OBVIOUS
<1> QED BY <1>2, <1>3, <1>4, <1>5, <1>6, <1>7, <1>8, <1>9, AdvanceStep

(* sync_upcoming, sync_results and sync_live begin with their payloads. *)
LEMMA SyncBeginStep ==
  ASSUME IngestConsistent, NEW t \in Workers, NEW kind \in FetchKinds, NEW P \in Fetched[kind],
         SyncBegin(t, P)
  PROVE  IngestConsistent' /\ SyncGuarantees(t)
<1>1. Sound' /\ Guarantees(t) /\ pc'[t] = "sync_next"
  BY SyncInside DEF IngestConsistent, SyncBegin, SyncPCs, locks
<1>2. match' = match BY DEF SyncBegin, rows
<1> DEFINE s == [NoIngest EXCEPT !.todo = P]
<1>3. /\ ingest' = [w \in Workers |-> ingest'[w]] /\ ingest'[t] = s
      /\ \A o \in Workers \ {t} : ingest'[o] = ingest[o]
  <2>1. ingest' = [ingest EXCEPT ![t] = s] BY DEF SyncBegin
  <2> HIDE DEF s
  <2> QED BY <2>1, SessionChange
<1>4. SyncGuarantees(t) BY <1>1, <1>2, <1>3 DEF SyncGuarantees
<1>5. SyncOK(t)'
  <2>1. s = [todo |-> P, payload |-> NoOne, loaded |-> [m \in Matches |-> NoMatch],
             flushed |-> [m \in Matches |-> <<>>], seen |-> NoOne]
    BY DEF NoIngest
  <2>2. P \subseteq Payloads /\ \A p, q \in P : p.external_id = q.external_id => p = q
    BY FetchedPayloads
  <2>3. Ahead(t)' = P BY <1>1, <1>3, <2>1 DEF Ahead
  <2>4. SessionShape(t)' BY <1>3, <2>1 DEF SessionShape
  <2>5. Whole(NoMatch) /\ NoOne \in Null(Outcomes)
    BY ConstantsAssumption DEF ConstantsAssumption, Whole, NoMatch, Match, Null
  <2>6. \A m \in Matches : FlushedOK(t, m)' BY <1>3, <2>1 DEF FlushedOK
  <2>7. pc'[t] \notin PCs BY <1>1 DEF PCs, SettlePCs
  <2> HIDE DEF s
  <2> QED BY <1>1, <1>3, <2>1, <2>2, <2>3, <2>4, <2>5, <2>6, <2>7 DEF SyncOK
<1>6. pc'[t] \in PCs \cup SyncPCs BY <1>1 DEF SyncPCs
<1> QED BY <1>1, <1>2, <1>3, <1>4, <1>5, <1>6, MatchesSame, IngestAdvance

(* A sync session, spelled out. *)
Session(a, b, l, f, n) ==
  [todo |-> a, payload |-> b, loaded |-> l, flushed |-> f, seen |-> n]

(* What SyncRead and SyncFlush do to one. *)
WithRow(i, x, y, z)  == [i EXCEPT !.todo = x, !.payload = y, !.loaded = z]
WithColumns(i, y, z) == [i EXCEPT !.payload = y, !.flushed = z]

(* The session after SyncRead. *)
LEMMA ReadSession ==
  ASSUME NEW i, NEW a, NEW b, NEW l, NEW f, NEW n, NEW x, NEW y, NEW z,
         i = Session(a, b, l, f, n)
  PROVE  WithRow(i, x, y, z) = Session(x, y, z, f, n)
<1> USE DEF Session
<1>1. [i EXCEPT !.todo = x] = Session(x, b, l, f, n) OBVIOUS
<1>2. [Session(x, b, l, f, n) EXCEPT !.payload = y] = Session(x, y, l, f, n) OBVIOUS
<1>3. [Session(x, y, l, f, n) EXCEPT !.loaded = z] = Session(x, y, z, f, n) OBVIOUS
<1> HIDE DEF Session
<1> QED BY ONLY <1>1, <1>2, <1>3, Zenon DEF WithRow

(* The session after SyncFlush. *)
LEMMA FlushSession ==
  ASSUME NEW i, NEW a, NEW b, NEW l, NEW f, NEW n, NEW y, NEW z,
         i = Session(a, b, l, f, n)
  PROVE  WithColumns(i, y, z) = Session(a, y, l, z, n)
<1> USE DEF Session
<1>1. [i EXCEPT !.payload = y] = Session(a, y, l, f, n) OBVIOUS
<1>2. [Session(a, y, l, f, n) EXCEPT !.flushed = z] = Session(a, y, l, z, n) OBVIOUS
<1> HIDE DEF Session
<1> QED BY ONLY <1>1, <1>2, Zenon DEF WithColumns

(* _upsert_fixture reads its row. *)
LEMMA SyncReadStep ==
  ASSUME IngestConsistent, NEW t \in Workers, NEW p \in ingest[t].todo, SyncRead(t, p)
  PROVE  IngestConsistent' /\ SyncGuarantees(t)
<1>1. Sound' /\ Guarantees(t) /\ pc'[t] = "sync_flush"
  BY SyncInside DEF IngestConsistent, SyncRead, SyncPCs, locks
<1>2. match' = match /\ matchLock' = matchLock /\ pc[t] = "sync_next"
  BY DEF SyncRead, rows, locks
<1>3. SyncOK(t) BY DEF IngestConsistent
<1>4. Ahead(t) = ingest[t].todo BY <1>2 DEF Ahead
<1>5. p \in Payloads /\ p \in Payload /\ p.external_id \in Matches
  BY <1>3, <1>4, PayloadsTyped DEF SyncOK, Payload
<1> DEFINE i == ingest[t]
           m == p.external_id
           s == [todo |-> i.todo \ {p}, payload |-> p,
                 loaded |-> [i.loaded EXCEPT ![m] = match[m]], flushed |-> i.flushed,
                 seen |-> i.seen]
<1>6. ingest' = [ingest EXCEPT ![t] = s]
  <2>1. ingest = [w \in Workers |-> ingest[w]] BY DEF IngestConsistent
  <2>2. SessionShape(t) BY <1>3 DEF SyncOK
  <2>3. PICK a, b, l, f, n : i = Session(a, b, l, f, n)
    BY <2>2 DEF SessionShape, Session
  <2>4. i.flushed = f /\ i.seen = n BY <2>3 DEF Session
  <2> DEFINE z == [i.loaded EXCEPT ![m] = match[m]]
  <2>5. ingest' = [ingest EXCEPT ![t] = WithRow(i, i.todo \ {p}, p, z)]
    BY <2>1, <2>2 DEF SyncRead, SessionShape, WithRow
  <2>6. WithRow(i, i.todo \ {p}, p, z) = Session(i.todo \ {p}, p, z, f, n)
    BY <2>3, ReadSession
  <2> QED BY <2>4, <2>5, <2>6 DEF Session
<1>7. /\ i.loaded = [n \in Matches |-> i.loaded[n]] /\ i.flushed = [n \in Matches |-> i.flushed[n]]
  BY <1>3 DEF SyncOK, SessionShape
<1> HIDE DEF s
<1>8. /\ ingest' = [w \in Workers |-> ingest'[w]] /\ ingest'[t] = s
      /\ \A o \in Workers \ {t} : ingest'[o] = ingest[o]
  BY <1>6, SessionChange
<1>9. SyncGuarantees(t) BY <1>1, <1>2, <1>8 DEF SyncGuarantees
<1>10. Ahead(t)' = i.todo BY <1>1, <1>8 DEF Ahead, s
<1>11. SyncOK(t)'
  <2>1. SessionShape(t)' BY <1>5, <1>7, <1>8 DEF SessionShape, s
  <2>2. ASSUME NEW n \in Matches
        PROVE  /\ FlushedOK(t, n)' /\ Whole(ingest'[t].loaded[n])
               /\ ingest'[t].loaded[n] # NoMatch => match'[n] # NoMatch
    <3>1. /\ FlushedOK(t, n) /\ Whole(i.loaded[n]) /\ Whole(match[n])
          /\ i.loaded[n] # NoMatch => match[n] # NoMatch
      BY <1>3 DEF SyncOK, IngestConsistent
    <3>2. /\ ingest'[t].loaded[n] = IF n = m THEN match[n] ELSE i.loaded[n]
          /\ ingest'[t].flushed[n] = i.flushed[n]
      BY <1>5, <1>7, <1>8 DEF s
    <3>3. i.flushed[n] # <<>> => n # m BY <1>4, <3>1 DEF FlushedOK
    <3>4. FlushedOK(t, n)'
      BY <1>2, <1>4, <1>10, <3>1, <3>2, <3>3 DEF FlushedOK
    <3> QED BY <1>2, <3>1, <3>2, <3>4
  <2>3. pc'[t] \notin PCs BY <1>1 DEF PCs, SettlePCs
  <2>4. /\ i.seen \in Null(Outcomes) /\ i.todo \subseteq Payloads
        /\ \A q, r \in i.todo : q.external_id = r.external_id => q = r
    BY <1>3, <1>4 DEF SyncOK
  <2>5. /\ ingest'[t].seen = i.seen /\ ingest'[t].payload \notin ingest'[t].todo
    BY <1>8 DEF s
  <2> QED BY <1>1, <1>10, <2>1, <2>2, <2>3, <2>4, <2>5 DEF SyncOK
<1>12. pc'[t] \in PCs \cup SyncPCs BY <1>1 DEF SyncPCs
<1> QED BY <1>1, <1>2, <1>8, <1>9, <1>11, <1>12, MatchesSame, IngestAdvance

(* flush: the row is locked and its columns are sent. *)
LEMMA SyncFlushStep ==
  ASSUME IngestConsistent, NEW t \in Workers, SyncFlush(t)
  PROVE  IngestConsistent' /\ SyncGuarantees(t)
<1> DEFINE i == ingest[t]
           p == i.payload
           m == p.external_id
           c == Columns(i.loaded[m], p)
           s == Session(i.todo, NoOne, i.loaded, [i.flushed EXCEPT ![m] = c], i.seen)
<1>1. SyncOK(t) /\ pc[t] = "sync_flush" /\ Target(t) = m
  BY DEF IngestConsistent, SyncFlush, Target
<1>2. Ahead(t) = i.todo \cup {p} /\ p \notin i.todo BY <1>1 DEF Ahead, SyncOK
<1>3. p \in Payloads /\ m \in Matches BY <1>1, <1>2, PayloadsTyped DEF SyncOK, Payload
<1>4. /\ matchLock[m] = NoOne /\ matchLock' = [matchLock EXCEPT ![m] = t] /\ match' = match
      /\ ~Duplicate(t) /\ Goto(t, "sync_next")
  BY <1>1 DEF SyncFlush, rows
<1>5. Sound' /\ Guarantees(t) /\ pc'[t] = "sync_next"
  <2>1. \E n \in Matches : matchLock[n] = NoOne /\ matchLock' = [matchLock EXCEPT ![n] = t]
    BY <1>3, <1>4
  <2>2. UNCHANGED <<now, rows, betLock, walletLock, platformLock, req, snap, psnap, crashes>>
    BY DEF SyncFlush
  <2> QED BY <1>4, <2>1, <2>2, SyncInside DEF IngestConsistent, SyncPCs
<1>6. /\ i.loaded = [n \in Matches |-> i.loaded[n]] /\ i.flushed = [n \in Matches |-> i.flushed[n]]
  BY <1>1 DEF SyncOK, SessionShape
<1>7. ingest' = [ingest EXCEPT ![t] = s]
  <2>1. ingest = [w \in Workers |-> ingest[w]] BY DEF IngestConsistent
  <2>2. SessionShape(t) BY <1>1 DEF SyncOK
  <2>3. PICK a, b, l, f, n : i = Session(a, b, l, f, n)
    BY <2>2 DEF SessionShape, Session
  <2>4. i.todo = a /\ i.loaded = l /\ i.seen = n BY <2>3 DEF Session
  <2> DEFINE z == [i.flushed EXCEPT ![m] = c]
  <2>5. ingest' = [ingest EXCEPT ![t] = WithColumns(i, NoOne, z)]
    BY <1>1, <2>1, <2>2 DEF SyncFlush, SessionShape, WithColumns
  <2>6. WithColumns(i, NoOne, z) = Session(a, NoOne, l, z, n)
    BY <2>3, FlushSession
  <2> QED BY <2>4, <2>5, <2>6
<1> HIDE DEF s
<1>8. /\ ingest' = [w \in Workers |-> ingest'[w]] /\ ingest'[t] = s
      /\ \A o \in Workers \ {t} : ingest'[o] = ingest[o]
  BY <1>7, SessionChange
<1>9. SyncGuarantees(t) BY <1>4, <1>5, <1>8 DEF SyncGuarantees
<1>10. /\ s.todo = i.todo /\ s.payload = NoOne /\ s.loaded = i.loaded /\ s.seen = i.seen
       /\ s.flushed = [i.flushed EXCEPT ![m] = c]
  BY DEF s, Session
<1>11. Ahead(t)' = i.todo BY <1>5, <1>8, <1>10 DEF Ahead
<1>12. SyncOK(t)'
  <2>1. SessionShape(t)'
    <3>1. s.flushed = [n \in Matches |-> s.flushed[n]] BY <1>6, <1>10
    <3>2. s = [todo |-> s.todo, payload |-> s.payload, loaded |-> s.loaded,
               flushed |-> s.flushed, seen |-> s.seen]
      BY DEF s, Session
    <3> QED BY <1>6, <1>8, <1>10, <3>1, <3>2 DEF SessionShape
  <2>2. ASSUME NEW n \in Matches PROVE FlushedOK(t, n)'
    <3>1. CASE n = m
      <4>1. ingest'[t].flushed[n] = Columns(ingest'[t].loaded[n], p)
        BY <1>3, <1>6, <1>8, <1>10, <3>1
      <4>2. \A q \in i.todo : q.external_id # m BY <1>1, <1>2 DEF SyncOK
      <4>3. matchLock'[n] = t
        BY <1>3, <1>4, <3>1 DEF IngestConsistent, Sound, Typed
      <4>4. ingest'[t].loaded[n] = NoMatch => match'[n] = NoMatch
        BY <1>1, <1>4, <1>8, <1>10, <3>1 DEF Duplicate
      <4> QED BY <1>3, <1>11, <3>1, <4>1, <4>2, <4>3, <4>4 DEF FlushedOK
    <3>2. CASE n # m
      <4>1. FlushedOK(t, n) BY <1>1 DEF SyncOK
      <4>2. ingest'[t].flushed[n] = i.flushed[n] /\ ingest'[t].loaded[n] = i.loaded[n]
        BY <1>6, <1>8, <1>10, <3>2
      <4>3. matchLock'[n] = matchLock[n]
        BY <1>4, <3>2 DEF IngestConsistent, Sound, Typed
      <4>4. Ahead(t)' \subseteq Ahead(t) BY <1>2, <1>11
      <4> QED BY <1>4, <4>1, <4>2, <4>3, <4>4 DEF FlushedOK
    <3> QED BY <3>1, <3>2
  <2>3. pc'[t] \notin PCs BY <1>5 DEF PCs, SettlePCs
  <2>4. /\ i.seen \in Null(Outcomes) /\ i.todo \subseteq Payloads
        /\ \A q, r \in i.todo : q.external_id = r.external_id => q = r
        /\ \A n \in Matches : /\ Whole(i.loaded[n])
                              /\ i.loaded[n] # NoMatch => match[n] # NoMatch
    BY <1>1, <1>2 DEF SyncOK
  <2> QED BY <1>4, <1>5, <1>8, <1>10, <1>11, <2>1, <2>2, <2>3, <2>4 DEF SyncOK
<1>13. pc'[t] \in PCs \cup SyncPCs BY <1>5 DEF SyncPCs
<1> QED BY <1>4, <1>5, <1>8, <1>9, <1>12, <1>13, MatchesSame, IngestAdvance

(* The end of a request that syncs nothing any more. *)
LEMMA SyncEnds ==
  ASSUME IngestConsistent, NEW t \in Workers, Sound', Guarantees(t), pc'[t] \in PCs,
         \A m \in Matches : match[m] # NoMatch => match'[m] # NoMatch,
         NEW o \in Null(Outcomes), ingest' = [ingest EXCEPT ![t] = [NoIngest EXCEPT !.seen = o]],
         \A m \in Matches : Whole(match'[m]), FullTimeResult'
  PROVE  IngestConsistent' /\ SyncGuarantees(t)
<1> DEFINE s == [NoIngest EXCEPT !.seen = o]
<1>1. /\ ingest' = [w \in Workers |-> ingest'[w]] /\ ingest'[t] = s
      /\ \A w \in Workers \ {t} : ingest'[w] = ingest[w]
  <2>1. ingest' = [ingest EXCEPT ![t] = s] OBVIOUS
  <2> HIDE DEF s
  <2> QED BY <2>1, SessionChange
<1>2. SyncGuarantees(t) BY <1>1 DEF SyncGuarantees
<1>3. SyncOK(t)' BY <1>1, QuietSession
<1> QED BY <1>1, <1>2, <1>3, IngestAdvance

(* An empty session keeps no outcome. *)
LEMMA NothingSeen == NoIngest = [NoIngest EXCEPT !.seen = NoOne] /\ NoOne \in Null(Outcomes)
BY DEF NoIngest, Null

(* A duplicate INSERT rolls the sync back. *)
LEMMA SyncDuplicateStep ==
  ASSUME IngestConsistent, NEW t \in Workers, SyncDuplicate(t)
  PROVE  IngestConsistent' /\ SyncGuarantees(t)
<1>1. Finish(t) /\ UNCHANGED <<now, rows, crashes>> /\ match' = match
      /\ ingest' = [ingest EXCEPT ![t] = NoIngest]
  BY DEF SyncDuplicate, rows
<1>2. Sound' /\ Guarantees(t)
  BY <1>1, VictimStep DEF IngestConsistent, Sound, Typed
<1>3. pc'[t] \in PCs BY <1>1 DEF Finish, PCs, IngestConsistent, Sound, Typed
<1> QED BY <1>1, <1>2, <1>3, NothingSeen, MatchesSame, SyncEnds

(* What the commit of a sync writes into one row. *)
LEMMA SyncWrites ==
  ASSUME IngestConsistent, NEW t \in Workers, SyncCommit(t), NEW m \in Matches
  PROVE  LET row == ingest[t].loaded[m]
             old == match[m]
             new == match'[m]
             f   == ingest[t].flushed[m]
         IN  /\ Whole(new)
             /\ new.confirmed = old.confirmed
             /\ old # NoMatch => new # NoMatch
             /\ new # old => matchLock[m] = t /\ f # <<>>
             /\ new.outcome # old.outcome /\ new.outcome # NoOne => FullTimeOf(m, new.outcome)
             /\ new.outcome # old.outcome /\ old # NoMatch => ~row.confirmed
             /\ new.status # old.status /\ old # NoMatch => row.status \notin Terminal
<1> DEFINE row == ingest[t].loaded[m]
           old == match[m]
           f   == ingest[t].flushed[m]
           n   == Overwrite(old, f)
<1>1. match'[m] = n BY DEF SyncCommit
<1>2. SyncOK(t) /\ Whole(old) /\ Whole(row) BY DEF IngestConsistent, SyncOK
<1>3. CASE f = <<>>
  <2>1. DOMAIN f = {} BY <1>3
  <2>2. n = [d \in DOMAIN old |-> old[d]] BY <2>1 DEF Overwrite
  <2>3. old = [status |-> old.status, kickoff_at |-> old.kickoff_at, outcome |-> old.outcome,
               confirmed |-> old.confirmed]
    BY <1>2 DEF Whole, Match
  <2>4. n = old BY <2>2, <2>3
  <2> QED BY <1>1, <1>2, <2>4
<1>4. CASE f # <<>>
  <2>1. FlushedOK(t, m) BY <1>2 DEF SyncOK
  <2>2. PICK p \in Payloads : p.external_id = m /\ f = Columns(row, p)
    BY <1>4, <2>1 DEF FlushedOK
  <2>3. /\ matchLock[m] = t /\ (row = NoMatch <=> old = NoMatch)
    BY <1>2, <1>4, <2>1 DEF FlushedOK, SyncOK
  <2>4. p \in Payload /\ row \in Match /\ old \in Match
    BY <1>2, PayloadsTyped DEF Whole
  <2> HIDE DEF n, f, row, old
  <2>5. /\ Whole(n)
        /\ n.confirmed = old.confirmed
        /\ old # NoMatch => n # NoMatch
        /\ n.outcome # old.outcome => n.outcome = p.internal_outcome
        /\ n.outcome # old.outcome /\ old # NoMatch => ~row.confirmed
        /\ n.status # old.status /\ old # NoMatch => row.status \notin Terminal
    <3>1. n = Overwrite(old, Columns(row, p)) BY <2>2 DEF n
    <3> QED BY <1>2, <2>3, <2>4, <3>1, Overwritten
  <2>6. n.outcome # old.outcome /\ n.outcome # NoOne => FullTimeOf(m, n.outcome)
    BY <2>2, <2>5, ParsedResult
  <2> QED BY <1>1, <1>4, <2>3, <2>5, <2>6 DEF n, f, row, old
<1> QED BY <1>3, <1>4

(* get_db commits the flushed columns: rows the sync has locked, and no    *)
(* confirmation among them.                                                *)
LEMMA SyncCommitStep ==
  ASSUME IngestConsistent, NEW t \in Workers, SyncCommit(t)
  PROVE  IngestConsistent' /\ SyncGuarantees(t)
<1>1. /\ Finish(t) /\ ingest' = [ingest EXCEPT ![t] = NoIngest]
      /\ match' = [m \in Matches |-> match'[m]]
      /\ UNCHANGED <<now, bet, wallet, platform, ledger, events, crashes>>
  BY DEF SyncCommit
<1>2. Sound /\ Typed BY DEF IngestConsistent, Sound
<1>3. ASSUME NEW m \in Matches
      PROVE  /\ Whole(match'[m]) /\ match'[m].confirmed = match[m].confirmed
             /\ match[m] # NoMatch => match'[m] # NoMatch
             /\ match'[m] # match[m] => matchLock[m] = t
             /\ match'[m].outcome # match[m].outcome /\ match'[m].outcome # NoOne
                  => FullTimeOf(m, match'[m].outcome)
  BY SyncWrites
<1>4. \A m \in Matches : match'[m] \in Match BY <1>3 DEF Whole
<1>5. match' \in [Matches -> Match]
  <2>1. \A f : f = [m \in Matches |-> f[m]] /\ (\A m \in Matches : f[m] \in Match)
          => f \in [Matches -> Match]
    OBVIOUS
  <2> QED BY <1>1, <1>4, <2>1
<1>6. RowTypes' BY <1>1, <1>2, <1>5 DEF RowTypes, Typed
<1>7. RowsKept(t) BY <1>1, <1>3 DEF RowsKept
<1>8. ASSUME NEW b \in Bets PROVE RowOK(b)'
  <2>1. RowOK(b) BY <1>2 DEF Sound
  <2>2. bet[b].status # "none" => bet[b].match_id \in Matches BY <2>1 DEF RowOK
  <2>3. bet' = bet BY <1>1
  <2> QED BY <1>3, <2>1, <2>2, <2>3 DEF RowOK
<1>9. Sound' /\ Guarantees(t)
  <2>1. Ends(t) BY <1>1, FinishEnds
  <2> QED BY <1>2, <1>6, <1>7, <1>8, <2>1, EndStep
<1>10. FullTimeResult' BY <1>3 DEF FullTimeResult, IngestConsistent
<1>11. pc'[t] \in PCs BY <1>1, <1>2 DEF Finish, PCs, Typed
<1> QED BY <1>1, <1>3, <1>9, <1>10, <1>11, NothingSeen, SyncEnds

(* Every step of a sync preserves the invariant. *)
LEMMA SyncStepConsistent ==
  ASSUME IngestConsistent, NEW t \in Workers, SyncStep(t)
  PROVE  IngestConsistent' /\ SyncGuarantees(t)
BY SyncBeginStep, SyncReadStep, SyncFlushStep, SyncDuplicateStep, SyncCommitStep
DEF SyncStep, SyncProgress

-----------------------------------------------------------------------------
(* The steps of the betting core beside the syncs. *)

(* The outcome a session finds is one, or none. *)
LEMMA SessionFinds ==
  ASSUME IngestConsistent, NEW t \in Workers, NEW b \in Bets,
         SettleLockOn(t, b, SessionOutcome(t, b))
  PROVE  SessionOutcome(t, b) \in Null(Outcomes)
<1>1. CASE b \in req[t].cached BY <1>1 DEF SessionOutcome, IngestConsistent, SyncOK
<1>2. CASE b \notin req[t].cached
  <2>1. bet[b].opponent_id # NoOne BY DEF SettleLockOn, SettleChecks
  <2>2. bet[b].match_id \in Matches BY <2>1 DEF IngestConsistent, Sound, RowOK, NoBet
  <2> QED BY <1>2, <2>2 DEF SessionOutcome, MatchOutcome, IngestConsistent, Sound, Typed, Match
<1> QED BY <1>1, <1>2

(* Settlement steps, whatever outcome the session finds. *)
LEMMA IngestSettlementSound ==
  ASSUME IngestConsistent, NEW t \in Workers, IngestSettlement(t)
  PROVE  Sound' /\ Guarantees(t)
<1>1. Sound BY DEF IngestConsistent
<1>2. ASSUME NEW b \in Bets, SettleLockOn(t, b, SessionOutcome(t, b))
      PROVE  Sound' /\ Guarantees(t)
  BY <1>1, <1>2, SessionFinds, SettleLockOnStep
<1>3. ASSUME NEW b \in Bets, SettleRefusedOn(t, b, SessionOutcome(t, b))
      PROVE  Sound' /\ Guarantees(t)
  BY <1>1, <1>3, RefusalSteps
<1> QED
  BY <1>1, <1>2, <1>3, ConfirmLockStep, ConfirmScanStep, ConfirmRowStep, SettleSingleStep,
     RefusalSteps, SettleWalletStep, SettlePlatformStep, SettleWinnerStep, SettleNoWinnerStep
  DEF IngestSettlement

(* No step of the core but the commit of a confirmation writes a match,    *)
(* and none of them is a step of a sync.                                   *)
LEMMA CoreFrame ==
  ASSUME IngestConsistent, NEW t \in Workers,
         BetServiceStep(t) \/ AdminServiceStep(t) \/ IngestSettlement(t)
  PROVE  match' = match /\ pc[t] \in PCs /\ pc'[t] \in PCs
<1>1. CASE BetServiceStep(t) \/ AdminServiceStep(t)
  <2>1. ServiceStep(t) BY <1>1 DEF ServiceStep
  <2>2. pc'[t] \in PCs
    BY <2>1, LabelStep DEF Goto, IngestConsistent, Sound, Typed
  <2>3. match' = match
    BY <1>1 DEF BetServiceStep, AdminServiceStep, CreateBegin, AcceptLock, LockStake,
      LockStakeRefused, CreateCommit, AcceptCommit, CancelRead, UnlockStake,
      UnlockStakeRefused, CancelCommit, VoidLock, VoidRefund, VoidRefundRefused, VoidCommit, rows
  <2> QED BY <2>1, <2>2, <2>3, LabelBefore
<1>2. CASE IngestSettlement(t)
  <2>1. match' = match
    BY <1>2 DEF IngestSettlement, ConfirmLock, ConfirmScan, ConfirmRow, SettleSingle,
      SettleLockOn, SettleRefusedOn, SettleWallet, SettlePlatform, SettleFail,
      SettleWinner, SettleNoWinner, CompleteSettlement, rows
  <2>2. pc[t] \in PCs
    BY <1>2 DEF IngestSettlement, ConfirmLock, ConfirmScan, ConfirmRow, SettleSingle,
      SettleLockOn, SettleRefusedOn, SettleWallet, SettlePlatform, SettleFail,
      SettleWinner, SettleNoWinner, PCs, SettlePCs
  <2>3. \E label \in PCs : Goto(t, label) \/ pc' = pc
    BY <1>2 DEF IngestSettlement, ConfirmLock, ConfirmScan, ConfirmRow, SettleSingle,
      SettleLockOn, SettleRefusedOn, NextBet, AfterBet, SettleWallet, SettlePlatform,
      SettleFail, SettleWinner, SettleNoWinner, CompleteSettlement, PCs, SettlePCs
  <2> QED BY <2>1, <2>2, <2>3 DEF Goto, IngestConsistent, Sound, Typed
<1> QED BY <1>1, <1>2

(* The session forgets its match, or keeps it with its cached rows. *)
LEMMA Forgotten ==
  ASSUME IngestConsistent, NEW t \in Workers, Forget(t), pc[t] \in PCs \/ req'[t].cached = {}
  PROVE  \E o \in Null(Outcomes) : ingest' = [ingest EXCEPT ![t] = [NoIngest EXCEPT !.seen = o]]
<1>1. SyncOK(t) /\ ingest[t].seen \in Null(Outcomes) BY DEF IngestConsistent, SyncOK
<1>2. CASE req'[t].cached = {} BY <1>2, NothingSeen DEF Forget
<1>3. CASE req'[t].cached # {}
  <2>1. ingest[t] = [NoIngest EXCEPT !.seen = ingest[t].seen] BY <1>1, <1>3 DEF SyncOK
  <2>2. ingest' = [ingest EXCEPT ![t] = ingest[t]] BY <1>3 DEF Forget
  <2> QED BY <1>1, <2>1, <2>2
<1> QED BY <1>2, <1>3

(* A step of the core other than the commit of a confirmation. *)
LEMMA CoreStepConsistent ==
  ASSUME IngestConsistent, NEW t \in Workers, CoreStep(t)
  PROVE  IngestConsistent' /\ SyncGuarantees(t)
<1>1. BetServiceStep(t) \/ AdminServiceStep(t) \/ IngestSettlement(t) BY DEF CoreStep
<1>2. Sound' /\ Guarantees(t)
  BY <1>1, BetServiceSound, AdminServiceSound, IngestSettlementSound DEF IngestConsistent
<1>3. match' = match /\ pc[t] \in PCs /\ pc'[t] \in PCs BY <1>1, CoreFrame
<1>4. PICK o \in Null(Outcomes) : ingest' = [ingest EXCEPT ![t] = [NoIngest EXCEPT !.seen = o]]
  BY <1>3, Forgotten DEF CoreStep
<1> QED BY <1>2, <1>3, <1>4, MatchesSame, SyncEnds

(* A rollback: a deadlock victim or a lost connection. *)
LEMMA IngestAbortConsistent ==
  ASSUME IngestConsistent, NEW t \in Workers, IngestAbort(t) \/ ConnectionLost(t)
  PROVE  IngestConsistent' /\ SyncGuarantees(t)
<1>1. Sound /\ Typed /\ req[t].todo \in SUBSET Bets
  BY DEF IngestConsistent, Sound, Typed, Request
<1>2. Finish(t) \/ NextBet(t, req[t].todo) BY DEF IngestAbort, ConnectionLost
<1>3. UNCHANGED <<now, rows, crashes>> /\ Forget(t) BY DEF IngestAbort, ConnectionLost
<1>4. Sound' /\ Guarantees(t)
  <2>1. crashes' \in Nat BY <1>1, <1>3 DEF Typed
  <2> QED BY <1>1, <1>2, <1>3, <2>1, VictimStep
<1>5. pc'[t] \in PCs /\ req'[t].cached = {}
  <2>1. pc'[t] \in PCs
    BY <1>1, <1>2 DEF Finish, NextBet, AfterBet, Goto, Typed, PCs, SettlePCs
  <2>2. \A todo : [NoRequest EXCEPT !.todo = todo].cached = {} /\ NoRequest.cached = {}
    BY DEF NoRequest
  <2>3. \E r : req' = [req EXCEPT ![t] = r] /\ r.cached = {}
    BY <1>2, <2>2 DEF Finish, NextBet
  <2> QED BY <1>1, <2>1, <2>3 DEF Typed
<1>6. PICK o \in Null(Outcomes) : ingest' = [ingest EXCEPT ![t] = [NoIngest EXCEPT !.seen = o]]
  BY <1>3, <1>5, Forgotten
<1>7. match' = match BY <1>3 DEF rows
<1> QED BY <1>4, <1>5, <1>6, <1>7, MatchesSame, SyncEnds

(* The row a confirmation leaves behind. *)
LEMMA ConfirmedRow ==
  ASSUME IngestConsistent, NEW t \in Workers, ConfirmCommit(t)
  PROVE  LET m == req[t].match
         IN  /\ m \in Matches /\ req[t].outcome \in Outcomes /\ ~match[m].confirmed
             /\ match'[m].status = "completed" /\ match'[m].confirmed
             /\ match'[m].outcome = req[t].outcome
             /\ \A n \in Matches \ {m} : match'[n] = match[n]
<1>1. pc[t] = "confirm_rows" BY DEF ConfirmCommit
<1>2. ConfirmOK(t) BY <1>1 DEF IngestConsistent, Sound, RequestOK
<1>3. match \in [Matches -> Match] BY DEF IngestConsistent, Sound, Typed
<1> DEFINE m == req[t].match
           n == [match[m] EXCEPT !.status = "completed", !.outcome = req[t].outcome,
                                 !.confirmed = TRUE]
<1>4. m \in Matches /\ req[t].outcome \in Outcomes /\ ~match[m].confirmed BY <1>2 DEF ConfirmOK
<1>5. match' = [match EXCEPT ![m] = n] BY <1>3, <1>4 DEF ConfirmCommit, Match
<1>6. n.status = "completed" /\ n.outcome = req[t].outcome /\ n.confirmed
  BY <1>3, <1>4 DEF Match
<1> HIDE DEF n
<1> QED BY <1>3, <1>4, <1>5, <1>6

(* The commit of a confirmation; the session keeps its outcome. *)
LEMMA ConfirmAndKeepConsistent ==
  ASSUME IngestConsistent, NEW t \in Workers, ConfirmAndKeep(t)
  PROVE  IngestConsistent' /\ SyncGuarantees(t)
<1>1. ConfirmCommit(t) BY DEF ConfirmAndKeep
<1>2. Sound' /\ Guarantees(t) BY <1>1, ConfirmCommitStep DEF IngestConsistent
<1>3. pc[t] \in PCs /\ pc'[t] \in PCs
  BY <1>1 DEF ConfirmCommit, AfterBet, Goto, PCs, SettlePCs, IngestConsistent, Sound, Typed
<1> DEFINE m == req[t].match
<1>4. /\ m \in Matches /\ req[t].outcome \in Outcomes
      /\ match'[m].status = "completed" /\ match'[m].confirmed
      /\ \A n \in Matches \ {m} : match'[n] = match[n]
  BY <1>1, ConfirmedRow
<1>5. ASSUME NEW n \in Matches PROVE Whole(match'[n]) /\ (match[n] # NoMatch => match'[n] # NoMatch)
  <2>1. CASE n = m
    <3>1. match'[n] \in Match BY <1>2 DEF Sound, Typed
    <3> QED BY <1>4, <2>1, <3>1 DEF Whole, NoMatch
  <2>2. CASE n # m BY <1>4, <2>2 DEF IngestConsistent
  <2> QED BY <2>1, <2>2
<1>6. FullTimeResult' BY <1>4 DEF FullTimeResult, IngestConsistent
<1>7. PICK o \in Null(Outcomes) : ingest' = [ingest EXCEPT ![t] = [NoIngest EXCEPT !.seen = o]]
  <2> DEFINE o == IF req'[t].cached = {} THEN NoOne ELSE req[t].outcome
  <2>1. o \in Null(Outcomes) BY <1>4 DEF Null
  <2>2. ingest[t] = [NoIngest EXCEPT !.seen = ingest[t].seen] BY <1>3 DEF IngestConsistent, SyncOK
  <2>3. ingest = [w \in Workers |-> ingest[w]] BY DEF IngestConsistent
  <2>4. ingest' = [ingest EXCEPT ![t].seen = o] BY DEF ConfirmAndKeep
  <2> HIDE DEF o
  <2>5. [ingest[t] EXCEPT !.seen = o] = [NoIngest EXCEPT !.seen = o] BY <2>2 DEF NoIngest
  <2>6. ingest' = [ingest EXCEPT ![t] = [NoIngest EXCEPT !.seen = o]] BY <2>3, <2>4, <2>5
  <2> QED BY <2>1, <2>6
<1> QED BY <1>2, <1>3, <1>5, <1>6, <1>7, SyncEnds

-----------------------------------------------------------------------------
(* The invariant. *)

(* A step of somebody preserves the invariant. *)
LEMMA WorkerConsistent ==
  ASSUME IngestConsistent, NEW t \in Workers,
         \/ SyncStep(t) \/ CoreStep(t) \/ ConfirmAndKeep(t)
         \/ IngestAbort(t) \/ ConnectionLost(t)
  PROVE  IngestConsistent'
BY SyncStepConsistent, CoreStepConsistent, ConfirmAndKeepConsistent, IngestAbortConsistent

(* The clock and stuttering steps change nothing a request relies on. *)
LEMMA StillIngest ==
  ASSUME IngestConsistent, UNCHANGED <<rows, locks, work, crashes, ingest>>, now' \in Nat
  PROVE  IngestConsistent'
<1>1. Sound' BY IdleStep DEF IngestConsistent
<1>2. match' = match /\ matchLock' = matchLock /\ pc' = pc BY DEF rows, locks, work
<1>3. ASSUME NEW t \in Workers PROVE pc'[t] \in PCs \cup SyncPCs /\ SyncOK(t)'
  <2>1. SyncOK(t) /\ pc[t] \in PCs \cup SyncPCs BY DEF IngestConsistent
  <2>2. Ahead(t)' = Ahead(t) BY <1>2 DEF Ahead
  <2>3. \A m \in Matches : FlushedOK(t, m)' BY <1>2, <2>1, <2>2 DEF SyncOK, FlushedOK
  <2> QED BY <1>2, <2>1, <2>2, <2>3 DEF SyncOK, SessionShape
<1> QED BY <1>1, <1>2, <1>3, MatchesSame DEF IngestConsistent

(* The invariant holds at the start, with any fixtures seeded. *)
LEMMA InitIngest == IngestInit => IngestConsistent
<1> SUFFICES ASSUME IngestInit PROVE IngestConsistent OBVIOUS
<1> USE ConstantsAssumption DEF ConstantsAssumption
<1>1. NoMatch \in Match BY DEF NoMatch, Match, Null
<1>2. ASSUME NEW m \in Matches
      PROVE  match[m] \in Match /\ match[m].outcome = NoOne /\ Whole(match[m])
  <2>1. match[m] = Fixture("scheduled", InitKickoff[m]) \/ match[m] = NoMatch BY DEF IngestInit
  <2>2. InitKickoff[m] \in Nat OBVIOUS
  <2>3. \A k \in Nat : /\ Fixture("scheduled", k) \in Match
                       /\ Fixture("scheduled", k).status = "scheduled"
                       /\ Fixture("scheduled", k).outcome = NoOne
    BY DEF Fixture, Match, MatchStatus, Null
  <2> QED BY <1>1, <2>1, <2>2, <2>3 DEF Whole, NoMatch
<1>3. match \in [Matches -> Match] BY <1>2 DEF IngestInit
<1>4. Sound BY <1>3, InitSound DEF IngestInit
<1>5. FullTimeResult BY <1>2 DEF FullTimeResult
<1>6. ASSUME NEW t \in Workers PROVE pc[t] \in PCs /\ SyncOK(t)
  <2>1. ingest[t] = [todo |-> {}, payload |-> NoOne, loaded |-> [m \in Matches |-> NoMatch],
                     flushed |-> [m \in Matches |-> <<>>], seen |-> NoOne]
    BY DEF IngestInit, NoIngest
  <2>2. pc[t] = "idle" /\ pc[t] \in PCs BY DEF IngestInit, InitRest, PCs
  <2>3. Ahead(t) = {} BY <2>1, <2>2 DEF Ahead
  <2>4. SessionShape(t)
    <3>1. /\ ingest[t].todo = {} /\ ingest[t].payload = NoOne /\ ingest[t].seen = NoOne
          /\ \A m \in Matches : ingest[t].loaded[m] = NoMatch /\ ingest[t].flushed[m] = <<>>
      BY <2>1
    <3>2. /\ [m \in Matches |-> ingest[t].loaded[m]] = [m \in Matches |-> NoMatch]
          /\ [m \in Matches |-> ingest[t].flushed[m]] = [m \in Matches |-> <<>>]
      BY <3>1
    <3> QED BY <2>1, <3>1, <3>2, Zenon DEF SessionShape
  <2>5. Whole(NoMatch) /\ NoOne \in Null(Outcomes) BY <1>1 DEF Whole, Null
  <2>6. \A m \in Matches : FlushedOK(t, m) BY <2>1 DEF FlushedOK
  <2>7. ingest[t] = [NoIngest EXCEPT !.seen = ingest[t].seen] BY <2>1 DEF NoIngest
  <2> QED BY <2>1, <2>2, <2>3, <2>4, <2>5, <2>6, <2>7 DEF SyncOK
<1>7. ingest = [t \in Workers |-> ingest[t]] BY DEF IngestInit
<1> QED BY <1>2, <1>4, <1>5, <1>6, <1>7 DEF IngestConsistent

(* Every step of the composition preserves the invariant. *)
LEMMA NextIngest == IngestConsistent /\ [IngestNext]_ivars => IngestConsistent'
<1> SUFFICES ASSUME IngestConsistent, [IngestNext]_ivars PROVE IngestConsistent' OBVIOUS
<1>1. CASE Tick /\ UNCHANGED <<ingest, syncs>>
  BY <1>1, StillIngest DEF Tick, IngestConsistent, Sound, Typed
<1>2. CASE UNCHANGED ivars
  BY <1>2, StillIngest DEF ivars, vars, IngestConsistent, Sound, Typed
<1> QED BY <1>1, <1>2, WorkerConsistent DEF IngestNext

(* Whatever syncs and betting requests commit between two of its steps,    *)
(* every request still finds what the rest of its transaction relies on.   *)
THEOREM IngestConsistentAlways == IngestSpec => []IngestConsistent
BY InitIngest, NextIngest, PTL DEF IngestSpec

(* The invariant has the types of the sync in it. *)
LEMMA IngestTypes == IngestConsistent => IngestTypeOK
<1> SUFFICES ASSUME IngestConsistent PROVE IngestTypeOK OBVIOUS
<1>1. match \in [Matches -> Match] BY DEF IngestConsistent, Sound, Typed
<1>2. ASSUME NEW t \in Workers
      PROVE  /\ pc[t] \in PCs \cup SyncPCs /\ ingest[t].todo \subseteq Payload
             /\ ingest[t].payload \in Null(Payload) /\ ingest[t].seen \in Null(Outcomes)
             /\ \A m \in Matches : ingest[t].loaded[m] \in Match
  <2>1. SyncOK(t) /\ pc[t] \in PCs \cup SyncPCs BY DEF IngestConsistent
  <2>2. Ahead(t) \subseteq Payload BY <2>1, PayloadsTyped DEF SyncOK
  <2>3. ingest[t].todo \subseteq Payload BY <2>2 DEF Ahead
  <2>4. ingest[t].payload \in Null(Payload)
    <3>1. CASE pc[t] = "sync_flush" BY <2>2, <3>1 DEF Ahead, Null
    <3>2. CASE pc[t] # "sync_flush" BY <2>1, <3>2 DEF SyncOK, Null
    <3> QED BY <3>1, <3>2
  <2> QED BY <2>1, <2>3, <2>4 DEF SyncOK, Whole
<1> QED BY <1>1, <1>2 DEF IngestTypeOK

(* Rows, payloads and sync sessions keep their types: whatever a report    *)
(* says, the row it ends in is a match.                                    *)
THEOREM IngestTypeCorrect == IngestSpec => []IngestTypeOK
BY IngestConsistentAlways, IngestTypes, PTL

(* For any reports, fetched in any order by any number of syncs: a stored, *)
(* unconfirmed result follows from one report of the finished match, whose *)
(* final goals count only for a side with no goal, or no count, at full    *)
(* time.                                                                   *)
THEOREM AlwaysFullTime == IngestSpec => []FullTimeResult
<1>1. IngestConsistent => FullTimeResult BY DEF IngestConsistent
<1> QED BY <1>1, IngestConsistentAlways, PTL

-----------------------------------------------------------------------------
(* Results. *)

(* Every step leaves a match alone but the commit of a confirmation or of  *)
(* a sync.                                                                 *)
LEMMA MatchWriters ==
  ASSUME IngestConsistent, [IngestNext]_ivars
  PROVE  \/ match' = match
         \/ \E t \in Workers : ConfirmCommit(t) \/ SyncCommit(t)
<1>1. ASSUME NEW t \in Workers, CoreStep(t) PROVE match' = match
  BY <1>1, CoreFrame DEF CoreStep
<1>2. ASSUME NEW t \in Workers, SyncStep(t), ~SyncCommit(t) PROVE match' = match
  BY <1>2 DEF SyncStep, SyncProgress, SyncBegin, SyncRead, SyncFlush, SyncDuplicate, rows
<1>3. ASSUME NEW t \in Workers, IngestAbort(t) \/ ConnectionLost(t) PROVE match' = match
  BY <1>3 DEF IngestAbort, ConnectionLost, rows
<1> QED BY <1>1, <1>2, <1>3 DEF IngestNext, Tick, ConfirmAndKeep, ivars, vars, rows

(* A step never takes a confirmation back, and changes a confirmed result  *)
(* or a terminal status only through a stale sync.                         *)
LEMMA StepResults ==
  ASSUME IngestConsistent, [IngestNext]_ivars, NEW m \in Matches
  PROVE  /\ match[m].confirmed => match'[m].confirmed
         /\ \/ match[m].confirmed /\ match'[m].outcome # match[m].outcome
            \/ /\ match[m].status \in Terminal /\ match'[m].status # match[m].status
               /\ match'[m].confirmed = match[m].confirmed
            => \E t \in Workers : StaleCommit(t, m)
<1>1. CASE match' = match BY <1>1
<1>2. ASSUME NEW t \in Workers, ConfirmCommit(t)
      PROVE  /\ match[m].confirmed => match'[m].confirmed
             /\ match[m].confirmed => match'[m] = match[m]
             /\ match'[m] # match[m] => match'[m].confirmed /\ ~match[m].confirmed
  BY <1>2, ConfirmedRow
<1>3. ASSUME NEW t \in Workers, SyncCommit(t)
      PROVE  /\ match'[m].confirmed = match[m].confirmed
             /\ \/ match[m].confirmed /\ match'[m].outcome # match[m].outcome
                \/ match[m].status \in Terminal /\ match'[m].status # match[m].status
                => StaleCommit(t, m)
  <2> DEFINE row == ingest[t].loaded[m]
             f   == ingest[t].flushed[m]
  <2>1. /\ match'[m].confirmed = match[m].confirmed
        /\ match'[m] # match[m] => f # <<>>
        /\ match'[m].outcome # match[m].outcome /\ match[m] # NoMatch => ~row.confirmed
        /\ match'[m].status # match[m].status /\ match[m] # NoMatch => row.status \notin Terminal
    BY <1>3, SyncWrites
  <2>2. pc[t] = "sync_next" /\ pc'[t] = "idle"
    BY <1>3 DEF SyncCommit, Finish, IngestConsistent, Sound, Typed
  <2>3. match[m].confirmed \/ match[m].status \in Terminal => match[m] # NoMatch
    BY DEF NoMatch, Terminal
  <2> HIDE DEF row, f
  <2> QED BY <2>1, <2>2, <2>3 DEF StaleCommit, row, f
<1> QED BY <1>1, <1>2, <1>3, MatchWriters

(* No confirmation of a result is ever taken back, by however many syncs   *)
(* that read the match before it.                                          *)
THEOREM ConfirmationsAlwaysKept == IngestSpec => ConfirmationKept
<1>1. IngestConsistent /\ [IngestNext]_ivars
        => [\A m \in Matches : match[m].confirmed => match'[m].confirmed]_ivars
  BY StepResults
<1> QED BY <1>1, IngestConsistentAlways, PTL DEF IngestSpec, ConfirmationKept

(* A confirmed result changes, or a match leaves a terminal status, only   *)
(* through a sync that read the row before it was confirmed or ended.      *)
THEOREM StaleSyncsAloneRegress == IngestSpec => OnlyStaleSyncsRegress
<1> DEFINE A == \A m \in Matches :
                  \/ match[m].confirmed /\ match'[m].outcome # match[m].outcome
                  \/ /\ match[m].status \in Terminal /\ match'[m].status # match[m].status
                     /\ match'[m].confirmed = match[m].confirmed
                  => \E t \in Workers : StaleCommit(t, m)
<1>1. IngestConsistent /\ [IngestNext]_ivars => [A]_ivars BY StepResults
<1> QED BY <1>1, IngestConsistentAlways, PTL DEF IngestSpec, OnlyStaleSyncsRegress

-----------------------------------------------------------------------------
(* Money. *)

(* Every step moves money by a betting commit or not at all. *)
LEMMA IngestMoves ==
  ASSUME IngestConsistent, Typed', [IngestNext]_ivars
  PROVE  MoneyMove
<1>1. Sound BY DEF IngestConsistent
<1>2. ASSUME NEW t \in Workers, CoreStep(t) PROVE MoneyMove
  <2>1. CASE IngestSettlement(t)
    BY <1>1, <2>1, NoMove, WinnerMoves, NoWinnerMoves
    DEF IngestSettlement, ConfirmLock, ConfirmScan, ConfirmRow, SettleSingle,
        SettleLockOn, SettleRefusedOn, SettleWallet, SettlePlatform, SettleFail
  <2> QED BY <1>1, <1>2, <2>1, BettingMoves DEF CoreStep
<1>3. ASSUME NEW t \in Workers, ConfirmAndKeep(t) PROVE MoneyMove
  BY <1>1, <1>3, ConfirmMoves DEF ConfirmAndKeep
<1>4. ASSUME NEW t \in Workers, SyncStep(t) PROVE MoneyMove
  <2>1. wallet' = wallet /\ platform' = platform /\ ledger' = ledger /\ bet' = bet
    BY <1>4 DEF SyncStep, SyncProgress, SyncBegin, SyncRead, SyncFlush, SyncDuplicate,
       SyncCommit, rows
  <2> QED BY <2>1 DEF MoneyMove, GainKept
<1>5. ASSUME NEW t \in Workers, IngestAbort(t) \/ ConnectionLost(t) PROVE MoneyMove
  BY <1>5, NoMove DEF IngestAbort, ConnectionLost
<1> QED BY <1>2, <1>3, <1>4, <1>5, NoMove DEF IngestNext, Tick, ivars, vars

(* Whatever results the syncs write under a settlement, no cent is created *)
(* or destroyed by it: every pool is paid out whole, and what the wallets  *)
(* hold beyond the initial funds is the cents of stakes with half a cent.  *)
THEOREM SyncsTraceMoney == IngestSpec => []MoneyTraced
<1>1. IngestInit => MoneyRight BY InitMoneyRight DEF IngestInit
<1>2. IngestConsistent /\ IngestConsistent' /\ MoneyRight /\ [IngestNext]_ivars => MoneyRight'
  <2> SUFFICES ASSUME IngestConsistent, IngestConsistent', MoneyRight, [IngestNext]_ivars
               PROVE  MoneyRight'
    OBVIOUS
  <2>1. Typed /\ Typed' BY DEF IngestConsistent, Sound
  <2> QED BY <2>1, IngestMoves, MovesKeepMoney
<1>3. MoneyRight => MoneyTraced BY DEF MoneyRight
<1> QED BY <1>1, <1>2, <1>3, IngestConsistentAlways, PTL DEF IngestSpec
=============================================================================
