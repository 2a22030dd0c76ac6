---- MODULE CopyTrading ----
(***************************************************************************)
(* Copy trading: src/backend/services/copy_trading.go.  Traders, who       *)
(* follows whom, and copied positions, kept in memory under one mutex; the *)
(* sweep reads prices between two holds of it.                             *)
(***************************************************************************)
EXTENDS Integers, Sequences, SequencesExt

CONSTANTS
    Traders, Users,
    Positions,      \* identifiers of copied positions
    Prices,
    Ratios          \* copy ratios to ask for, in percent

VARIABLE db     \* the engine's maps, and the sweep's open positions and price

None == "none"
NoPosition == [status |-> None]

Init ==
    db = [count |-> <<>>,           \* registered traders: their Followers field
          following |-> [u \in Users |-> None],
          followers |-> [t \in Traders |-> <<>>],
          pos |-> [p \in Positions |-> NoPosition],
          sweep |-> <<>>, renewed |-> {}]   \* renewed is history

Registered == DOMAIN db.count

(* RegisterTrader replaces the record of a trader who has one. *)
RegisterTrader(t) ==
    db' = [db EXCEPT !.count = [r \in Registered \cup {t} |-> IF r = t THEN 0 ELSE db.count[r]],
                     !.renewed = IF t \in Registered THEN @ \cup {t} ELSE @]

StartFollowing(u, t) ==
    /\ t \in Registered /\ db.following[u] = None
    /\ db' = [db EXCEPT !.following[u] = t, !.followers[t] = Append(@, u), !.count[t] = @ + 1]

(* The caller follows in his own name, with a ratio that is one. *)
StartFollowingHandler(u, t, ratio) ==
    0 < ratio /\ ratio <= 100 /\ StartFollowing(u, t)

StopFollowing(u) ==
    LET t == db.following[u] IN
    /\ t # None
    /\ db' = [db EXCEPT !.followers[t] = RemoveFirst(@, u), !.count[t] = @ - 1,
                        !.following[u] = None]

CopyTrade(u, t, p, price) ==
    /\ db.following[u] = t /\ db.pos[p] = NoPosition
    /\ db' = [db EXCEPT !.pos[p] = [status |-> "open", owner |-> u, trader |-> t, mark |-> price]]

IsOpen(p) == db.pos[p].status = "open"

(* UpdateCopyPositions: the open positions' pairs are collected, prices are  *)
(* read unlocked, and applied to the positions that are open then.           *)
ReadPrices(price) ==
    /\ \E p \in Positions : IsOpen(p)
    /\ db' = [db EXCEPT !.sweep = [open |-> {p \in Positions : IsOpen(p)}, price |-> price]]

\* Mutant of Marked: what was open when the prices were read.
MarkedAsCollected == db.sweep.open

Marked == {p \in Positions : IsOpen(p)}

UpdateCopyPositions ==
    /\ db.sweep # <<>>
    /\ db' = [db EXCEPT !.sweep = <<>>,
                        !.pos = [p \in Positions |-> IF p \in Marked
                                    THEN [db.pos[p] EXCEPT !.mark = db.sweep.price]
                                    ELSE db.pos[p]]]

(* ClosePositionHandler: CloseCopyPosition first; that the caller is not the *)
(* owner is found, and answered, afterwards.                                 *)
CloseCopyPosition(u, p) ==
    /\ IsOpen(p)
    /\ db' = [db EXCEPT !.pos[p].status = "closed"]

Next ==
    \/ UpdateCopyPositions
    \/ \E price \in Prices : ReadPrices(price)
    \/ \E t \in Traders : RegisterTrader(t)
    \/ \E u \in Users :
          \/ StopFollowing(u)
          \/ \E t \in Traders, ratio \in Ratios : StartFollowingHandler(u, t, ratio)
          \/ \E p \in Positions :
                \/ CloseCopyPosition(u, p)
                \/ \E t \in Traders, price \in Prices : CopyTrade(u, t, p, price)

----
TypeOK ==
    /\ Registered \subseteq Traders
    /\ \A p \in Positions : db.pos[p].status \in {None, "open", "closed"}

(* The two directions of "follows" agree, nobody is in a list twice, and the *)
(* count a trader shows is the length of his list, unless he registered      *)
(* again, which empties the count and keeps the list.                        *)
FollowersAgree ==
    \A t \in Traders :
        /\ ToSet(db.followers[t]) = {u \in Users : db.following[u] = t}
        /\ IsInjective(db.followers[t])
        /\ t \in Registered \ db.renewed => db.count[t] = Len(db.followers[t])

(* A price read before a position was closed does not change what it closed  *)
(* at.                                                                       *)
ClosedStaysClosed ==
    \A p \in Positions : db.pos[p].status = "closed" => db'.pos[p] = db.pos[p]
====
