---- MODULE Bots ----
(***************************************************************************)
(* Trading bots: src/backend/services/bots_service.go.  One bot and the    *)
(* pending orders of its engine.  Every request loads the bot's row and    *)
(* writes in a later statement, without a lock; an order's request counts  *)
(* the pending orders in between.  Order sizes are held to a limit that    *)
(* nothing changes, and are left out.                                      *)
(***************************************************************************)
EXTENDS Integers, FiniteSets

CONSTANTS
    Requests,
    Limits,         \* max_open_orders to ask for
    MostOpen        \* the most that may be asked for (1000)

VARIABLE db

Statuses == {"active", "paused", "stopped"}

(* strategyConfigKeys, for the schedule of a TWAP bot *)
Schema == [slices |-> "int", total_quantity |-> "decimal", side |-> "side"]

(* What a value of a configuration may look like in JSON; "digits" and       *)
(* "decimal" are strings.                                                    *)
Forms == {"number", "digits", "decimal", "side", "word", "null"}
Configs == UNION {[K -> Forms] : K \in SUBSET (DOMAIN Schema \cup {"misspelt"})}

(* decodeInt takes a number, a string of digits, and null as 0. *)
Accepts(kind) == CASE kind = "int" -> {"number", "digits", "null"}
                   [] kind = "decimal" -> {"digits", "decimal"}
                   [] kind = "side" -> {"side"}

(* validateStrategyConfig: known keys and values of their kind, stored in    *)
(* the form the engine reads.                                                *)
Valid(config) == \A k \in DOMAIN config : k \in DOMAIN Schema /\ config[k] \in Accepts(Schema[k])
Canonical(config) == [k \in DOMAIN config |-> IF Schema[k] = "int" THEN "number" ELSE config[k]]

CreateBot(limit, config) ==
    /\ 1 <= limit /\ limit <= MostOpen /\ Valid(config)
    /\ db = [there |-> TRUE, status |-> "active", limit |-> limit, pending |-> 0,
             config |-> Canonical(config),
             job |-> [r \in Requests |-> "idle"]]   \* the status r loaded, or "counted"

Init == \E limit \in Limits, config \in Configs : CreateBot(limit, config)

LoadBot(r) ==
    /\ db.there /\ db.job[r] = "idle"
    /\ db' = [db EXCEPT !.job[r] = db.status]

(* UpdateBotStatus: a bot loaded as stopped stays so; a row that is gone     *)
(* takes no update.                                                          *)
UpdateBotStatus(r, status) ==
    /\ db.job[r] \in {"active", "paused"}
    /\ db' = [db EXCEPT !.job[r] = "idle", !.status = IF db.there THEN status ELSE @]

(* DeleteBot: the bot and its pending orders in one transaction. *)
DeleteBot(r) ==
    /\ db.job[r] \in {"paused", "stopped"}
    /\ db' = [db EXCEPT !.job[r] = "idle", !.there = FALSE, !.pending = 0]

\* Mutant of Room: one order more than the limit.
RoomForOneMore(n) == n <= db.limit

Room(n) == n < db.limit

(* RecordBotOrder: the bot is active, the pending orders are counted ...     *)
CountOrders(r) ==
    /\ db.job[r] = "active"
    /\ db' = [db EXCEPT !.job[r] = IF Room(db.pending) THEN "counted" ELSE "idle"]

(* ... and the order is created. *)
RecordBotOrder(r) ==
    /\ db.job[r] = "counted"
    /\ db' = [db EXCEPT !.job[r] = "idle", !.pending = @ + 1]

(* An order is filled, rejected or cancelled by the exchange. *)
FinishOrder == db.pending > 0 /\ db' = [db EXCEPT !.pending = @ - 1]

Next ==
    \/ FinishOrder
    \/ \E r \in Requests :
          \/ LoadBot(r) \/ DeleteBot(r) \/ CountOrders(r) \/ RecordBotOrder(r)
          \/ \E status \in Statuses : UpdateBotStatus(r, status)

----
TypeOK == db.status \in Statuses /\ db.pending \in Nat

(* max_open_orders holds up to the requests that counted at the same time,   *)
(* and of a deleted bot only orders are left whose requests loaded it before *)
(* it was deleted, by another request.                                       *)
LimitKept ==
    LET late == Cardinality(Requests) - 1 IN
    db.pending <= IF db.there THEN db.limit + late ELSE late

(* "What the engine later reads is exactly what was validated": the keys of  *)
(* the strategy, each with a value its reader takes.                         *)
ConfigReadable ==
    /\ DOMAIN db.config \subseteq DOMAIN Schema
    /\ \A k \in DOMAIN db.config :
          db.config[k] \in IF Schema[k] = "int" THEN {"number"} ELSE Accepts(Schema[k])
====
