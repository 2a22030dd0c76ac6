---- MODULE Airdrop ----
(***************************************************************************)
(* Airdrop campaigns: src/backend/services/airdrop_service.go.  One        *)
(* campaign; users fund it from the ledger and claim their allocation.     *)
(*                                                                         *)
(* Edits look at rows they loaded without a lock: the current ones, or     *)
(* db.seen, which slow requests loaded before.                             *)
(***************************************************************************)
EXTENDS Integers, FiniteSets, FiniteSetsExt

CONSTANTS
    Users,
    Amounts,    \* amounts allocated and funded
    Opening,    \* a user's ledger balance at the start
    MaxFunded   \* bound: what the campaign is funded with

VARIABLE db     \* the tables of the service and the ledger balances

Statuses == {"paused", "active", "closed"}
Total(f) == MapThenSumSet(LAMBDA x : f[x], DOMAIN f)

Load(d) == [there |-> d.there, open |-> d.status = "active" /\ d.window,
            paid |-> d.claimed > 0, taken |-> \E u \in DOMAIN d.alloc : d.alloc[u].claimed]
Loaded == {Load(db), db.seen}

(* CreateCampaign: paused, without allocations or funds.  window says       *)
(* whether the time is between its start and its end.                       *)
CreateCampaign(window) ==
    [there |-> TRUE, status |-> "paused", window |-> window, alloc |-> <<>>,
     funded |-> 0, claimed |-> 0, bal |-> [u \in Users |-> Opening],
     times |-> [u \in Users |-> 0],     \* history: claims paid to u
     raced |-> FALSE]                   \* history: allocations replaced after a claim

Init == \E window \in BOOLEAN :
    LET d == CreateCampaign(window) IN
    db = [x \in DOMAIN d \cup {"seen"} |-> IF x = "seen" THEN Load(d) ELSE d[x]]

LoadRows == db' = [db EXCEPT !.seen = Load(db)]

(* The window opens and passes, or UpdateCampaign moves it. *)
UpdateCampaign(status, window) ==
    db.there /\ db' = [db EXCEPT !.status = status, !.window = window]

(* SetAllocations counts the claimed rows, then replaces them all. *)
SetAllocations(s, new) ==
    /\ s.there /\ db.there /\ ~s.taken /\ DOMAIN new # {}
    /\ db' = [db EXCEPT !.alloc = [u \in DOMAIN new |-> [amount |-> new[u], claimed |-> FALSE]],
                        !.raced = @ \/ Load(db).taken]

(* FundCampaign: the debit and the escrow in one transaction. *)
FundCampaign(u, x) ==
    /\ db.there /\ db.bal[u] >= x /\ db.funded + x <= MaxFunded
    /\ db' = [db EXCEPT !.bal[u] = @ - x, !.funded = @ + x]

\* Mutant of Payable: the flag of the allocation is not looked at.
PayableAgain(u) == db.funded - db.claimed >= db.alloc[u].amount

Payable(u) == ~db.alloc[u].claimed /\ db.funded - db.claimed >= db.alloc[u].amount

(* ClaimAirdrop: open when loaded, and active still under the lock; the      *)
(* clock is the one read before, so that only a window moved meanwhile, which *)
(* is let pass here, would end it too.                                       *)
ClaimAirdrop(u, s) ==
    /\ s.open /\ db.there /\ db.status = "active"
    /\ u \in DOMAIN db.alloc /\ Payable(u)
    /\ db' = [db EXCEPT !.alloc[u].claimed = TRUE, !.claimed = @ + db.alloc[u].amount,
                        !.bal[u] = @ + db.alloc[u].amount, !.times[u] = @ + 1]

(* DeleteCampaign closes a campaign that has paid, and deletes another. *)
DeleteCampaign(s) ==
    /\ s.there /\ db.there
    /\ db' = IF s.paid THEN [db EXCEPT !.status = "closed"]
             ELSE [db EXCEPT !.alloc = <<>>, !.there = FALSE]

Next ==
    \/ LoadRows
    \/ \E status \in Statuses, w \in BOOLEAN : UpdateCampaign(status, w)
    \/ \E u \in Users, x \in Amounts : FundCampaign(u, x)
    \/ \E s \in Loaded :
          \/ \E U \in SUBSET Users : \E new \in [U -> Amounts] : SetAllocations(s, new)
          \/ DeleteCampaign(s)
          \/ \E u \in Users : ClaimAirdrop(u, s)

----
TypeOK ==
    /\ db.status \in Statuses /\ DOMAIN db.alloc \subseteq Users
    /\ db.funded \in Nat /\ \A u \in Users : db.bal[u] \in Nat

(* "A claim can only pay out of funded escrow": what the users do not have   *)
(* is in the campaign's escrow, which is never overdrawn.                    *)
PaidFromEscrow ==
    /\ 0 <= db.claimed /\ db.claimed <= db.funded
    /\ Total(db.bal) + db.funded - db.claimed = Opening * Cardinality(Users)

(* "nor paid twice": one claim per user through pauses, edits and retries,   *)
(* unless allocations were replaced by a request that counted the claims     *)
(* before one was made.                                                      *)
AirdropClaimedOnce == \A u \in Users : ~db.raced => db.times[u] <= 1
====
