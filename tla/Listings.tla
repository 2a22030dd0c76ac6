---- MODULE Listings ----
(***************************************************************************)
(* Market listings: src/backend/services/listing_service.go, and the       *)
(* engine's registry they feed, RefreshMarkets in perpetual_engine.go.     *)
(*                                                                         *)
(* One symbol, with a main listing, which relates two rates (maintenance   *)
(* and initial margin of a futures listing, LTV and liquidation threshold  *)
(* of a margin listing), and a perps listing, which does not.  The check   *)
(* of a create and its insert are one step, as the symbol is unique in the *)
(* table; an update checks the row it loaded.                              *)
(***************************************************************************)
EXTENDS Integers

CONSTANTS
    Rates,
    Statuses,   \* statuses a request sets; deleting sets "delisting"
    Requests    \* requests that are served at a time

VARIABLE db     \* the two rows, the registry, and requests on their way to it

Kinds == {"futures", "margin"}      \* what the main listing is
None == "none"
NoRow == [status |-> None]
Terms(row) == [lo |-> row.lo, hi |-> row.hi]
Active(row) == row.status = "active"
NoRefresh == [at |-> "idle", value |-> None]

Init == \E kind \in Kinds :
    db = [kind |-> kind, main |-> NoRow, perps |-> NoRow, seen |-> <<>>, registry |-> None,
          hook |-> [r \in Requests |-> NoRefresh],
          skewed |-> FALSE,     \* history: an update checked a row that had changed
          unsure |-> FALSE]     \* history: the last refreshes overlapped, or failed

\* Mutant of Hook: the write is not announced.
HookForgotten(r) == db.hook

(* notifyMarketsChanged, after the write: a refresh is due.  Margin listings *)
(* are read by their engine from the table.                                  *)
Hook(r) == [db.hook EXCEPT ![r].at = "due"]

Idle(r) == db.hook[r].at = "idle"
MainHook(r) == IF db.kind = "futures" THEN Hook(r) ELSE db.hook

(* A new listing is paused. *)
CreateMain(r, lo, hi) ==
    /\ Idle(r) /\ db.main = NoRow /\ lo <= hi
    /\ db' = [db EXCEPT !.main = [status |-> "paused", lo |-> lo, hi |-> hi], !.hook = MainHook(r)]

CreateFuturesMarket(r, lo, hi) == db.kind = "futures" /\ CreateMain(r, lo, hi)
CreateMarginMarket(r, lo, hi) == db.kind = "margin" /\ CreateMain(r, lo, hi)

CreatePerpsMarket(r) ==
    /\ Idle(r) /\ db.perps = NoRow
    /\ db' = [db EXCEPT !.perps = [status |-> "paused"], !.hook = Hook(r)]

LoadRow == db.main # NoRow /\ db' = [db EXCEPT !.seen = Terms(db.main)]

\* Mutant of RatesFit: only two rates of the same request are compared.
RatesFitEachOther(row, changes) ==
    {"lo", "hi"} \subseteq DOMAIN changes => changes.lo <= changes.hi

Merged(row, changes) == [x \in DOMAIN row |-> IF x \in DOMAIN changes THEN changes[x] ELSE row[x]]

(* "Guard the margin relationship when only one side is being changed." *)
RatesFit(row, changes) == Merged(row, changes).lo <= Merged(row, changes).hi

OneRate(changes) == ("lo" \in DOMAIN changes) # ("hi" \in DOMAIN changes)

(* The columns a request names are written; s is the row it loaded. *)
UpdateMain(r, s, changes) ==
    /\ Idle(r) /\ db.main # NoRow
    /\ RatesFit(s, changes)
    /\ db' = [db EXCEPT !.main = Merged(@, changes), !.hook = MainHook(r),
                        !.skewed = @ \/ (s # Terms(db.main) /\ OneRate(changes))]

UpdateFuturesMarket(r, s, changes) == db.kind = "futures" /\ UpdateMain(r, s, changes)
UpdateMarginMarket(r, s, changes) == db.kind = "margin" /\ UpdateMain(r, s, changes)

UpdatePerpsMarket(r, status) ==
    /\ Idle(r) /\ db.perps # NoRow
    /\ db' = [db EXCEPT !.perps.status = status, !.hook = Hook(r)]

DeleteMain(r) ==
    /\ Idle(r) /\ db.main # NoRow
    /\ db' = [db EXCEPT !.main.status = "delisting", !.hook = MainHook(r)]

DeleteFuturesMarket(r) == db.kind = "futures" /\ DeleteMain(r)
DeleteMarginMarket(r) == db.kind = "margin" /\ DeleteMain(r)

DeletePerpsMarket(r) ==
    /\ Idle(r) /\ db.perps # NoRow
    /\ db' = [db EXCEPT !.perps.status = "delisting", !.hook = Hook(r)]

----
(* RefreshMarkets: the futures listings, the perps listings, the lock. *)
Busy(r) == \E q \in Requests \ {r} : db.hook[q].at \notin {"idle", "due"}

ReadFutures(r) ==
    /\ db.hook[r].at = "due"
    /\ db' = [db EXCEPT !.unsure = Busy(r),
                        !.hook[r] = [at |-> "perps", value |-> IF db.kind = "futures" /\ Active(db.main)
                                                              THEN "futures" ELSE None]]

ReadPerps(r) ==
    /\ db.hook[r].at = "perps"
    /\ db' = [db EXCEPT !.hook[r] = [at |-> "lock", value |-> IF @.value = None /\ Active(db.perps)
                                                             THEN "perps" ELSE @.value]]

SetRegistry(r) ==
    /\ db.hook[r].at = "lock"
    /\ db' = [db EXCEPT !.registry = db.hook[r].value, !.hook[r] = NoRefresh]

(* A read fails: the hook logs it. *)
RefreshFails(r) ==
    /\ db.hook[r].at \in {"due", "perps"}
    /\ db' = [db EXCEPT !.hook[r] = NoRefresh, !.unsure = TRUE]

(* The rates the request has loaded: those of the row, or those of before. *)
Loaded == IF db.main = NoRow THEN {} ELSE {Terms(db.main), db.seen} \ {<<>>}

Changes ==
    [status : Statuses] \cup [lo : Rates] \cup [hi : Rates] \cup [lo : Rates, hi : Rates]

Next ==
    \/ LoadRow
    \/ \E r \in Requests :
          \/ \E lo, hi \in Rates : CreateFuturesMarket(r, lo, hi) \/ CreateMarginMarket(r, lo, hi)
          \/ \E s \in Loaded, changes \in Changes :
                UpdateFuturesMarket(r, s, changes) \/ UpdateMarginMarket(r, s, changes)
          \/ DeleteFuturesMarket(r) \/ DeleteMarginMarket(r)
          \/ CreatePerpsMarket(r) \/ DeletePerpsMarket(r)
          \/ \E status \in Statuses : UpdatePerpsMarket(r, status)
          \/ ReadFutures(r) \/ ReadPerps(r) \/ SetRegistry(r) \/ RefreshFails(r)

----
TypeOK ==
    /\ db.main = NoRow \/ {db.main.lo, db.main.hi} \subseteq Rates
    /\ {db.main.status, db.perps.status} \subseteq Statuses \cup {"delisting", None}
    /\ db.registry \in {"futures", "perps", None}

(* "An inconsistent listing can never reach the matching engine": the two    *)
(* rates keep their order through updates of either one, unless an update    *)
(* was checked against a row that another one changed meanwhile.             *)
RatesOrdered == db.main # NoRow /\ ~db.skewed => db.main.lo <= db.main.hi

(* "Pausing a market in the admin immediately stops it being tradable":      *)
(* when no refresh is under way the registry is what the tables say, unless  *)
(* the last refreshes overlapped or one failed; the next one repairs it.     *)
RegistryCurrent ==
    (\A r \in Requests : Idle(r)) /\ ~db.unsure =>
        db.registry = IF db.kind = "futures" /\ Active(db.main) THEN "futures"
                      ELSE IF Active(db.perps) THEN "perps" ELSE None
====
