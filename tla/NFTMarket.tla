---- MODULE NFTMarket ----
(***************************************************************************)
(* The NFT marketplace: src/backend/services/nft_service.go.  One          *)
(* collection, its tokens, fixed-price listings that hold a token in       *)
(* escrow and offers that hold their payment.                              *)
(*                                                                         *)
(* Handlers that write a row they did not lock are given what they loaded: *)
(* the current rows, or db.seen, which slow requests loaded before.        *)
(***************************************************************************)
EXTENDS Integers, FiniteSets, FiniteSetsExt

CONSTANTS
    Users,
    TokenIds,   \* positive integers
    Listings,   \* ids of the listing rows
    Offers,     \* ids of the offer rows
    Prices,
    Rates,      \* values of the fee, in parts of Whole (basis points in the code)
    Whole,
    Opening     \* a user's ledger balance at the start

VARIABLE db     \* the tables of the service, its fee, and the ledger balances

Escrow == "escrow"      \* nftEscrowOwner
FeeAccount == "fees"
Nothing == "nothing"
Statuses == {"active", "sold", "canceled"}
Total(f) == MapThenSumSet(LAMBDA x : f[x], DOMAIN f)
Put(f, x, row) == [y \in DOMAIN f \cup {x} |-> IF y = x THEN row ELSE f[y]]

(* nftFee rounds the fee down and gives the seller the rest. *)
Fee(row) == (row.price * row.rate) \div Whole

Load(d) == [coll |-> d.coll, empty |-> DOMAIN d.token = {},
            live |-> {l \in DOMAIN d.listing : d.listing[l].status = "active"}]
Loaded == {Load(db), db.seen}

CreateCollection(status) ==
    [coll |-> status, supply |-> 0, token |-> <<>>, listing |-> <<>>, offer |-> <<>>, rate |-> 0,
     bal |-> [a \in Users \cup {FeeAccount} |-> IF a = FeeAccount THEN 0 ELSE Opening]]

Init == \E status \in {"active", "paused"} :
    LET d == CreateCollection(status) IN
    db = [x \in DOMAIN d \cup {"seen"} |-> IF x = "seen" THEN Load(d) ELSE d[x]]

(* A slow request loads the rows. *)
LoadRows == db' = [db EXCEPT !.seen = Load(db)]

UpdateCollection(status) ==
    /\ db.coll # "gone"
    /\ db' = [db EXCEPT !.coll = status]

(* DeleteCollection counts the tokens and then deletes the row. *)
DeleteCollection(s) ==
    /\ s.empty /\ s.coll # "gone"
    /\ db' = [db EXCEPT !.coll = "gone"]

(* Mint: the next id of the collection's counter, or a free one asked for. *)
Mint(owner, id) ==
    /\ db.coll = "active"
    /\ id \notin DOMAIN db.token
    /\ db' = [db EXCEPT !.supply = Max({@, id}),
                        !.token = Put(@, id, [owner |-> owner, escrow |-> Nothing])]

SetFeeBps(rate) == db' = [db EXCEPT !.rate = rate]

Expire == \/ \E l \in DOMAIN db.listing : db' = [db EXCEPT !.listing[l].late = TRUE]
          \/ \E o \in DOMAIN db.offer : db' = [db EXCEPT !.offer[o].late = TRUE]

----
\* Mutant of MayList: only the seller's name is looked at, not the owner.
MayListAnything(u, id) == db.token[id].owner # Nothing

MayList(u, id) == db.token[id].owner = u /\ db.token[id].escrow = Nothing

(* ListNFT puts a token of the caller in escrow and freezes the fee. *)
ListNFT(u, s, l, id, price) ==
    /\ s.coll = "active"
    /\ id \in DOMAIN db.token /\ l \notin DOMAIN db.listing
    /\ MayList(u, id)
    /\ db' = [db EXCEPT !.token[id] = [owner |-> Escrow, escrow |-> l],
                        !.listing = Put(@, l, [token |-> id, seller |-> u, price |-> price,
                             rate |-> db.rate, late |-> FALSE, status |-> "active"])]

(* BuyNFT: sold, handed over and paid for in one transaction. *)
BuyNFT(u, l) ==
    LET row == db.listing[l] IN
    /\ row.status = "active" /\ ~row.late /\ row.seller # u
    /\ db.coll # "gone"
    /\ db.bal[u] >= row.price
    /\ db' = [db EXCEPT !.listing[l].status = "sold",
                        !.token[row.token] = [owner |-> u, escrow |-> Nothing],
                        !.bal[u] = @ - row.price,
                        !.bal[row.seller] = @ + row.price - Fee(row),
                        !.bal[FeeAccount] = @ + Fee(row)]

(* CancelListing, of a live or expired listing. *)
CancelListing(l) ==
    LET row == db.listing[l] IN
    /\ row.status = "active"
    /\ db' = [db EXCEPT !.listing[l].status = "canceled",
                        !.token[row.token] = [owner |-> row.seller, escrow |-> Nothing]]

(* UpdateListingPrice writes price or deadline of a listing it saw live. *)
UpdateListingPrice(s, l, price) ==
    /\ l \in s.live
    /\ db' = [db EXCEPT !.listing[l].price = price, !.listing[l].late = FALSE]

----
(* MakeOffer takes the payment, also for a token in escrow. *)
MakeOffer(u, s, o, id, price) ==
    /\ s.coll # "gone"
    /\ id \in DOMAIN db.token /\ o \notin DOMAIN db.offer
    /\ db.token[id].owner # u
    /\ db.bal[u] >= price
    /\ db' = [db EXCEPT !.bal[u] = @ - price,
                        !.offer = Put(@, o, [token |-> id, buyer |-> u, price |-> price,
                             rate |-> db.rate, late |-> FALSE, status |-> "active"])]

(* AcceptOffer, by the owner of a token that is not in escrow. *)
AcceptOffer(u, o) ==
    LET row == db.offer[o] IN
    /\ row.status = "active" /\ ~row.late
    /\ db.token[row.token] = [owner |-> u, escrow |-> Nothing]
    /\ db.coll # "gone"
    /\ db' = [db EXCEPT !.offer[o].status = "sold",
                        !.token[row.token].owner = row.buyer,
                        !.bal[u] = @ + row.price - Fee(row),
                        !.bal[FeeAccount] = @ + Fee(row)]

\* Mutant of Refundable: an expired offer is taken for a live one.
RefundableOnce(o) == db.offer[o].status # "canceled"

Refundable(o) == db.offer[o].status = "active"

(* CancelOffer refunds the buyer, if the collection is still there. *)
CancelOffer(o) ==
    /\ Refundable(o) /\ db.coll # "gone"
    /\ db' = [db EXCEPT !.offer[o].status = "canceled",
                        !.bal[db.offer[o].buyer] = @ + db.offer[o].price]

Next ==
    \/ LoadRows \/ Expire
    \/ \E status \in {"active", "paused"} : UpdateCollection(status)
    \/ \E r \in Rates : SetFeeBps(r)
    \/ \E u \in Users, id \in TokenIds : Mint(u, id)
    \/ \E l \in DOMAIN db.listing : CancelListing(l) \/ \E u \in Users : BuyNFT(u, l)
    \/ \E o \in DOMAIN db.offer : CancelOffer(o) \/ \E u \in Users : AcceptOffer(u, o)
    \/ \E s \in Loaded :
          \/ DeleteCollection(s)
          \/ \E u \in Users, id \in TokenIds, p \in Prices :
                \/ \E l \in Listings : ListNFT(u, s, l, id, p)
                \/ \E o \in Offers : MakeOffer(u, s, o, id, p)
          \/ \E l \in Listings, p \in Prices : UpdateListingPrice(s, l, p)

----
TypeOK ==
    /\ db.coll \in {"active", "paused", "gone"}
    /\ DOMAIN db.token \subseteq TokenIds \cap 1..db.supply
    /\ \A id \in DOMAIN db.token : db.token[id].owner \in Users \cup {Escrow}
    /\ \A l \in DOMAIN db.listing : db.listing[l].status \in Statuses
    /\ \A o \in DOMAIN db.offer : db.offer[o].status \in Statuses
    /\ \A a \in DOMAIN db.bal : db.bal[a] \in Nat

(* "a live listing is always fillable": a token is held in escrow by a       *)
(* listing exactly while that listing is active, whoever lists, buys, bids,  *)
(* accepts and cancels, and no two live listings sell one token.             *)
OneCustodian ==
    /\ \A id \in DOMAIN db.token : (db.token[id].owner = Escrow) = (db.token[id].escrow # Nothing)
    /\ \A l \in DOMAIN db.listing : (db.listing[l].status = "active")
            = (db.token[db.listing[l].token].escrow = l)

(* What buyers paid is with the seller and the fee account, or still held    *)
(* for a live offer.                                                         *)
PaymentsHeld ==
    LET live == {o \in DOMAIN db.offer : db.offer[o].status = "active"} IN
    Total(db.bal) + MapThenSumSet(LAMBDA o : db.offer[o].price, live)
        = Opening * Cardinality(Users)
====
