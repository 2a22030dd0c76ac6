---- MODULE Platform ----
(***************************************************************************)
(* The platform's services, one at a time: those of src/backend/services   *)
(* that keep their own tables or maps, and the keeper of src/backend/go.   *)
(* A behaviour picks one service and follows it.  They share nothing but   *)
(* the users' ledger accounts, which Ledger keeps and whose postings are   *)
(* steps of the transactions here; what follows from two of them moving    *)
(* one account is a matter of Ledger alone.                                *)
(***************************************************************************)
EXTENDS Integers, FiniteSets, TLC

CONSTANTS
    Users, Ids,             \* Ids: of rows, requests, connections and processes
    Chains, FirstChain,     \* of the integration registry
    Cap                     \* bound: the most a user, campaign or account is given

(* Users, rows and requests are finitely many, and none has a name that      *)
(* stands for the marketplace's escrow or its fee account, or for none; the  *)
(* chain the registry starts with is one of its chains; the bound is a       *)
(* number.                                                                   *)
ASSUME PlatformAssumption ==
    /\ IsFiniteSet(Users) /\ Users \cap {"escrow", "fees", "none"} = {}
    /\ IsFiniteSet(Ids) /\ Ids \cap {"nothing", "none"} = {}
    /\ FirstChain \in Chains
    /\ Cap \in Nat

VARIABLES service, db

Options == INSTANCE Options WITH
    Amounts <- {2}, Sizes <- {1}, Premiums <- {1}, Prices <- {1, 3}, Strike <- 2, Opening <- 2
NFT == INSTANCE NFTMarket WITH
    TokenIds <- {1}, Listings <- Ids, Offers <- {"offer"}, Prices <- {Cap}, Rates <- {1},
    Whole <- 4, Opening <- Cap
Airdrop == INSTANCE Airdrop WITH Amounts <- {1, 2}, Opening <- 2, MaxFunded <- Cap
Margin == INSTANCE MarginEngine WITH
    Amounts <- {1, 2}, Prices <- {1, 2}, Ltv <- 50, Threshold <- 75, Bonus <- 100,
    CloseFactor <- 50, Rate <- 50, MaxColl <- Cap, MaxDebt <- Cap - 1
Block == INSTANCE BlockTrades WITH Quantities <- {1, 2, 3}, Duration <- 2, MaxDelay <- 1
Launchpad == INSTANCE Launchpad WITH
    Amounts <- {1, 2, 3}, HardCaps <- {0, 3}, MinPurchase <- 1, MaxPurchase <- 2,
    MaxAllocations <- Cap
Copy == INSTANCE CopyTrading WITH Traders <- Ids, Positions <- {"p"}, Prices <- {1, 2},
    Ratios <- {0, 50, 101}
Bridge == INSTANCE Bridge WITH Relayers <- Ids, MaxStrays <- 2
Listings == INSTANCE Listings WITH
    Rates <- {1, 2}, Statuses <- {"active", "paused"}, Requests <- Ids
Integrations == INSTANCE Integrations WITH
    Tokens <- Chains, FirstToken <- FirstChain, Bridges <- {"bridge"}, Farms <- {"farm"}
Sessions == INSTANCE Sessions WITH Processes <- Users, Tokens <- Ids
Hub == INSTANCE Hub WITH Conns <- Ids, Backlog <- 1, Room <- 1
Admin == INSTANCE AdminConsole WITH
    Items <- {"token"}, Requests <- Ids, Switches <- {"trading"}, Maintenance <- "maintenance"
Keeper == INSTANCE Keeper WITH
    Prices <- {1, 2, 3}, Sizes <- {1, 3}, Collaterals <- {1, 2}, Precision <- 2,
    Maintenance <- 1, OrderTypes <- {"limit", "stop_loss", "twap"}, Amounts <- {5},
    LimitPrice <- 2, Parts <- 2
Bots == INSTANCE Bots WITH Requests <- Ids, Limits <- {1, 2, Cap}, MostOpen <- 2
Fees == INSTANCE FeeCollector WITH
    Requests <- Ids, Amounts <- {2, 4}, Percents <- {-50, 100, 101}, Fixed <- {-1, 0, 3},
    Days <- {1, 2}, MaxRecords <- 2

Services == {"options", "nft", "airdrop", "margin", "block", "launchpad", "copy", "bridge",
             "listings", "integrations", "sessions", "hub", "admin", "keeper",
             "bots", "fees"}

Init ==
    \/ service = "options" /\ Options!Init
    \/ service = "nft" /\ NFT!Init
    \/ service = "airdrop" /\ Airdrop!Init
    \/ service = "margin" /\ Margin!Init
    \/ service = "block" /\ Block!Init
    \/ service = "launchpad" /\ Launchpad!Init
    \/ service = "copy" /\ Copy!Init
    \/ service = "bridge" /\ Bridge!Init
    \/ service = "listings" /\ Listings!Init
    \/ service = "integrations" /\ Integrations!Init
    \/ service = "sessions" /\ Sessions!Init
    \/ service = "hub" /\ Hub!Init
    \/ service = "admin" /\ Admin!Init
    \/ service = "keeper" /\ Keeper!Init
    \/ service = "bots" /\ Bots!Init
    \/ service = "fees" /\ Fees!Init

Step(s) == service = s /\ UNCHANGED service

Next ==
    \/ Step("options") /\ Options!Next
    \/ Step("nft") /\ NFT!Next
    \/ Step("airdrop") /\ Airdrop!Next
    \/ Step("margin") /\ Margin!Next
    \/ Step("block") /\ Block!Next
    \/ Step("launchpad") /\ Launchpad!Next
    \/ Step("copy") /\ Copy!Next
    \/ Step("bridge") /\ Bridge!Next
    \/ Step("listings") /\ Listings!Next
    \/ Step("integrations") /\ Integrations!Next
    \/ Step("sessions") /\ Sessions!Next
    \/ Step("hub") /\ Hub!Next
    \/ Step("admin") /\ Admin!Next
    \/ Step("keeper") /\ Keeper!Next
    \/ Step("bots") /\ Bots!Next
    \/ Step("fees") /\ Fees!Next

Spec == Init /\ [][Next]_<<service, db>>

Symmetry == Permutations(Users) \cup Permutations(Ids)

----
TypeOK ==
    /\ service \in Services
    /\ service = "options" => Options!TypeOK
    /\ service = "nft" => NFT!TypeOK
    /\ service = "airdrop" => Airdrop!TypeOK
    /\ service = "margin" => Margin!TypeOK
    /\ service = "block" => Block!TypeOK
    /\ service = "launchpad" => Launchpad!TypeOK
    /\ service = "copy" => Copy!TypeOK
    /\ service = "bridge" => Bridge!TypeOK
    /\ service = "listings" => Listings!TypeOK
    /\ service = "integrations" => Integrations!TypeOK
    /\ service = "sessions" => Sessions!TypeOK
    /\ service = "hub" => Hub!TypeOK
    /\ service = "admin" => Admin!TypeOK
    /\ service = "keeper" => Keeper!TypeOK
    /\ service = "bots" => Bots!TypeOK
    /\ service = "fees" => Fees!TypeOK

(* Escrow is whole: what the options pools, the marketplace, an airdrop and  *)
(* a margin account hold, with what the users have, is what there was, and   *)
(* each covers the rows that say so, whatever requests raced or stopped; and *)
(* the fee collector's accounts of its revenue agree.                        *)
FundsHeld ==
    /\ service = "options" => Options!PoolIsWhole
    /\ service = "nft" => NFT!PaymentsHeld
    /\ service = "airdrop" => Airdrop!PaidFromEscrow
    /\ service = "margin" => Margin!MarginBooks
    /\ service = "fees" => Fees!FeesAccounted

(* Nobody has more claims than were granted: puts on a settled or active     *)
(* series are covered, a token has one owner or is in escrow once, an        *)
(* allocation is claimed once.                                               *)
ClaimsBounded ==
    /\ service = "options" => Options!PutsCovered
    /\ service = "nft" => NFT!OneCustodian
    /\ service = "airdrop" => Airdrop!AirdropClaimedOnce

(* A trade is what its parties agreed: an OTC order is taken once and on its *)
(* terms, a TWAMM schedule executes no more than is due, a sale keeps to its *)
(* caps and a buyer's limits, a bot to the orders it may have open and to    *)
(* what its configuration said.                                              *)
TradesAsAgreed ==
    /\ service = "block" => Block!TermsKept /\ Block!ScheduleKept
    /\ service = "launchpad" => Launchpad!SaleFair
    /\ service = "bots" => Bots!LimitKept /\ Bots!ConfigReadable

(* A transfer is minted only against its mined lock, whichever relayer takes *)
(* it up and whenever a process dies.                                        *)
BridgeBacked == service = "bridge" => Bridge!BridgeBacked

(* What operators list keeps its order and refers to what exists, and the    *)
(* engine trades what the tables list.                                       *)
ListingsRight ==
    /\ service = "listings" => Listings!RatesOrdered /\ Listings!RegistryCurrent
    /\ service = "integrations" => Integrations!ReferencesKnown

(* What a process keeps in memory follows what it was told last: who follows *)
(* whom, a token that was logged out, a switch that was set.                 *)
MemoryMatches ==
    /\ service = "copy" => Copy!FollowersAgree
    /\ service = "sessions" => Sessions!LogoutHolds
    /\ service = "admin" => Admin!SwitchesKept

(* No goroutine of the WebSocket hub sends on a closed channel or closes one *)
(* twice.                                                                    *)
ChannelsSafe == service = "hub" => Hub!ChannelsSafe

(* The keeper liquidates what the contract would, up to rounding.            *)
LiquidationMirrored == service = "keeper" => Keeper!LiquidationMirrored

(* What is over stays over, and what counts on it is not let go: a borrow    *)
(* leaves the buffer, a closed copy keeps its price, a deleted row stays,    *)
(* and the keeper forgets no order that can be filled.                       *)
NoStepBack ==
    [][/\ service = "margin" => Margin!BufferKept
       /\ service = "copy" => Copy!ClosedStaysClosed
       /\ service = "admin" => Admin!RowsRetained
       /\ service = "keeper" => Keeper!OrdersWatched]_<<service, db>>
====
