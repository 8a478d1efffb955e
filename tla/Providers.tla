----------------------------- MODULE Providers ------------------------------
(***************************************************************************)
(* The sports data providers (app/integrations/providers) and the status   *)
(* mapper: what a fixture reported by API-Football or Football-Data.org    *)
(* becomes before it reaches the database.  Team and competition names are *)
(* left out, except that a report without both teams is dropped.           *)
(***************************************************************************)
EXTENDS Store

CONSTANTS
  home_win, away_win, draw,   \* FootballOutcome
  SportsProvider,             \* settings.sports_provider
  Reports                     \* fixtures the provider may report

(* A raw fixture: goals at full time, and at the very end. *)
Score == [home : Null(Nat), away : Null(Nat)]

Report == [id : Null(Matches), date : Null(Nat), teams : BOOLEAN, status : STRING,
           fulltime : Score, goals : Score]

ASSUME ProvidersAssumption ==
  /\ Outcomes \subseteq {home_win, away_win, draw}
  /\ home_win # away_win /\ home_win # draw /\ away_win # draw
  /\ Reports \subseteq Report
  /\ SportsProvider \in {"api_football", "football_data_org"}

(* ProviderMatchPayload; home and away goals have become the outcome. *)
Payload == [external_id : Matches, kickoff_at : Nat, completed : BOOLEAN,
            internal_status : MatchStatus, internal_outcome : Null(Outcomes)]

-----------------------------------------------------------------------------
(* status_mapper *)

ApiFootballLive      == {"1H", "HT", "2H", "ET", "BT", "P", "SUSP", "INT", "LIVE"}
ApiFootballCompleted == {"FT", "AET", "PEN", "AWD", "WO"}

(* Fault: the provider's status is kept as it is. *)
RawStatus(raw) == raw

(* An unknown code counts as scheduled. *)
map_api_football_status(raw) ==
  CASE raw \in ApiFootballLive      -> "live"
    [] raw \in ApiFootballCompleted -> "completed"
    [] raw = "PST"  -> "postponed"
    [] raw = "CANC" -> "cancelled"
    [] raw = "ABD"  -> "abandoned"
    [] OTHER        -> "scheduled"

map_football_data_org_status(raw) ==
  CASE raw \in {"IN_PLAY", "PAUSED"} -> "live"
    [] raw = "FINISHED"  -> "completed"
    [] raw = "POSTPONED" -> "postponed"
    [] raw = "SUSPENDED" -> "abandoned"
    [] raw = "CANCELLED" -> "cancelled"
    [] OTHER             -> "scheduled"

is_completed_api_football_status(raw) == raw \in ApiFootballCompleted
is_completed_football_data_org_status(raw) == raw = "FINISHED"

derive_outcome(home, away) ==
  CASE NoOne \in {home, away} -> NoOne
    [] NoOne \notin {home, away} /\ home > away -> home_win
    [] NoOne \notin {home, away} /\ home < away -> away_win
    [] OTHER -> draw

-----------------------------------------------------------------------------
(* Parsing.  A report without id, date or teams is skipped. *)

Complete(raw) == raw.id # NoOne /\ raw.date # NoOne /\ raw.teams

(* Fault: the goals at the very end come first. *)
FinalFirst(a, b) == IF b = NoOne THEN a ELSE b

(* Python's  a or b : a missing value and zero both give way to b. *)
OrElse(a, b) == IF a \in {NoOne, 0} THEN b ELSE a

(* ApiFootballProvider._parse_fixture: each side of the full-time score,   *)
(* or else that side of the final goals; scores of a match that is not     *)
(* over are dropped.                                                       *)
parse_fixture(raw) ==
  LET over == is_completed_api_football_status(raw.status)
      home == OrElse(raw.fulltime.home, raw.goals.home)
      away == OrElse(raw.fulltime.away, raw.goals.away)
  IN  [external_id |-> raw.id, kickoff_at |-> raw.date, completed |-> over,
       internal_status |-> map_api_football_status(raw.status),
       internal_outcome |-> IF over THEN derive_outcome(home, away) ELSE NoOne]

(* FootballDataOrgProvider._parse_match. *)
parse_match(raw) ==
  LET over == is_completed_football_data_org_status(raw.status)
  IN  [external_id |-> raw.id, kickoff_at |-> raw.date, completed |-> over,
       internal_status |-> map_football_data_org_status(raw.status),
       internal_outcome |-> IF over THEN derive_outcome(raw.fulltime.home, raw.fulltime.away)
                                    ELSE NoOne]

normalize_fixtures(raws) == {parse_fixture(raw) : raw \in {r \in raws : Complete(r)}}
normalize_matches(raws)  == {parse_match(raw) : raw \in {r \in raws : Complete(r)}}

(* FootballOutcome has all three results; an instance with fewer Outcomes  *)
(* has no report of another one.                                           *)
ASSUME ReportsAssumption ==
  \A p \in normalize_fixtures(Reports) \cup normalize_matches(Reports) :
    p.internal_outcome \in Null(Outcomes)

-----------------------------------------------------------------------------
(* Fetching.  raws is what the API has for the dates and leagues asked; on *)
(* a timeout, an HTTP error or an error in the body nothing is returned,   *)
(* so an answer may also be empty.                                         *)

(* GET /fixtures of API-Football: only fetch_results filters by status. *)
get_fixtures(raws, kind) ==
  CASE kind = "results" -> {r \in raws : r.status \in ApiFootballCompleted}
    [] kind = "live"    -> {r \in raws : r.status \in ApiFootballLive}
    [] OTHER            -> raws

(* GET /competitions/.../matches of Football-Data.org. *)
get_matches(raws, kind) ==
  CASE kind = "results" -> {r \in raws : r.status = "FINISHED"}
    [] kind = "live"    -> {r \in raws : r.status \in {"IN_PLAY", "PAUSED"}}
    [] OTHER            -> {r \in raws : r.status \in {"SCHEDULED", "TIMED"}}

(* ApiFootballProvider, with or without league ids (of the request, or     *)
(* else of the settings).  Without any there is no league to ask about.    *)
(* fetch_live_fixtures asks for everything and compares each payload's     *)
(* league with the ids, but _league_id_from_payload knows no league.       *)
fetch_api_football(raws, kind, ids) ==
  LET payloads == normalize_fixtures(get_fixtures(raws, kind))
  IN  CASE kind = "upcoming" /\ ids -> payloads
        [] kind = "results" /\ ids -> {p \in payloads : p.completed}
        [] kind = "live" /\ ~ids    -> payloads
        [] OTHER -> {}

(* FootballDataOrgProvider, which has competitions of its own by default. *)
fetch_football_data_org(raws, kind) ==
  LET payloads == normalize_matches(get_matches(raws, kind))
  IN  IF kind = "results" THEN {p \in payloads : p.completed} ELSE payloads

(* _get_provider: the client the settings name. *)
Fetch(raws, kind, ids) ==
  IF SportsProvider = "football_data_org" THEN fetch_football_data_org(raws, kind)
                                          ELSE fetch_api_football(raws, kind, ids)

FetchKinds == {"upcoming", "results", "live"}

(* An answer has one report per fixture. *)
Answer(raws) == \A r, q \in raws : r.id = q.id => r = q

(* What a fetch of each kind may bring. *)
Fetched ==
  [kind \in FetchKinds |->
     {Fetch(raws, kind, ids) : raws \in {s \in SUBSET Reports : Answer(s)}, ids \in BOOLEAN}]
=============================================================================
