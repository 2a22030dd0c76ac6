---- MODULE PlatformProofs ----
(***************************************************************************)
(* Proofs about the services of Platform, each for every set of users,     *)
(* relayers, connections, requests and processes.                          *)
(***************************************************************************)
EXTENDS Platform, SumTheorems, SequenceTheorems

(* Bridge.  A mint under way, and a stray one, comes after the mined lock.   *)
BridgeRow == [status : Bridge!Statuses, request : {"start", "send", "await", "done"},
              lock : Bridge!Outcomes, mints : {0, 1}, strays : Nat,
              relayer : [Ids -> {"idle", "send", "await"}], tx : [Ids -> Bridge!Outcomes]]

BridgeSound ==
    /\ db \in BridgeRow
    /\ db.request = "start" => db.status = "absent"
    /\ db.request \in {"start", "send"} => db.lock = "none"
    /\ db.request # "start" => db.status # "absent"
    /\ \/ db.mints > 0 \/ db.status \in {"confirmed", "delivered"} \/ db.strays > 0
       \/ \E r \in Ids : db.relayer[r] # "idle" \/ db.tx[r] # "none"
       => db.lock = "ok"
    /\ (db.status = "delivered" \/ \E r \in Ids : db.tx[r] = "ok") => db.mints = 1

LEMMA BridgeInit == Bridge!Init => BridgeSound
  BY DEF Bridge!Init, BridgeSound, BridgeRow, Bridge!Statuses, Bridge!Outcomes

(* What a relayer's step writes: its own place and transaction, the row's    *)
(* status, the mint and the stray transactions.                              *)
RelayerWrites(r, at, tx, status, mints, strays) ==
    /\ db' \in BridgeRow
    /\ db'.status = status /\ db'.request = db.request /\ db'.lock = db.lock
    /\ db'.mints = mints /\ db'.strays = strays
    /\ db'.relayer[r] = at /\ db'.tx[r] = tx
    /\ \A q \in Ids : q # r => db'.tx[q] = db.tx[q]

LEMMA RelayerStep ==
  ASSUME BridgeSound, db.lock = "ok", NEW r \in Ids, NEW at \in {"idle", "send", "await"},
         NEW tx \in Bridge!Outcomes, NEW status \in Bridge!Statuses, status # "absent",
         NEW mints \in {0, 1}, NEW strays \in Nat,
         RelayerWrites(r, at, tx, status, mints, strays),
         db.mints <= mints, status = "delivered" \/ tx = "ok" => mints = 1
  PROVE  BridgeSound'
<1>1. (db.status = "delivered" \/ \E q \in Ids : db.tx[q] = "ok") => mints = 1
  BY DEF BridgeSound
<1>2. db.request \in {"start", "send"} => FALSE
  BY DEF BridgeSound
<1> QED
  BY <1>1, <1>2 DEF BridgeSound, RelayerWrites

LEMMA BridgeStep == ASSUME BridgeSound, Bridge!Next PROVE BridgeSound'
<1> USE DEF BridgeSound, BridgeRow, Bridge!Statuses, Bridge!Outcomes, Bridge!Persisted
<1>1. CASE Bridge!PersistIntent
  BY <1>1 DEF Bridge!PersistIntent
<1>2. CASE Bridge!SendLock
  <2>1. CASE db' = [db EXCEPT !.lock = "sent", !.request = "await"]
    BY <1>2, <2>1 DEF Bridge!SendLock
  <2>2. ASSUME NEW status \in {"failed", db.status}, NEW lock \in {"none", "sent"},
               db' = [db EXCEPT !.lock = lock, !.status = status, !.request = "done"]
        PROVE  BridgeSound'
    <3>1. /\ db.request = "send" /\ db.lock = "none" /\ status \in Bridge!Statuses
          /\ status \notin {"absent", "confirmed", "delivered"}
      BY <1>2, <2>2 DEF Bridge!SendLock
    <3> QED
      BY <2>2, <3>1
  <2> QED
    BY <1>2, <2>1, <2>2 DEF Bridge!SendLock
<1>3. CASE Bridge!AwaitLock
  <2>1. db.request = "await" /\ db.status \in Bridge!Statuses \ {"absent"}
    BY <1>3 DEF Bridge!AwaitLock
  <2>2. PICK status : /\ db' = [db EXCEPT !.status = status, !.request = "done"]
                      /\ \/ status = "confirmed" /\ db.lock = "ok"
                         \/ status = "failed"
                         \/ status = db.status
    <3>1. CASE db.lock = "ok"
      BY <1>3, <3>1 DEF Bridge!AwaitLock
    <3>2. CASE db.lock = "reverted"
      BY <1>3, <3>2 DEF Bridge!AwaitLock
    <3>3. CASE db.lock \notin {"ok", "reverted"}
      BY <1>3, <3>3 DEF Bridge!AwaitLock
    <3> QED
      BY <3>1, <3>2, <3>3
  <2>3. status \in Bridge!Statuses \ {"absent"}
    BY <2>1, <2>2
  <2> QED
    BY <2>1, <2>2, <2>3
<1>4. CASE Bridge!CrashRequest
  BY <1>4 DEF Bridge!CrashRequest
<1>5. CASE Bridge!MintStray
  <2>1. PICK n \in Nat : n = db.strays - 1
    BY <1>5 DEF Bridge!MintStray
  <2>2. db.lock = "ok" /\ (db.status = "delivered" => db.mints = 1)
    BY <1>5 DEF Bridge!MintStray
  <2>3. CASE db' = [db EXCEPT !.mints = 1, !.strays = n]
    BY <2>2, <2>3
  <2>4. CASE db' = [db EXCEPT !.strays = n]
    BY <2>2, <2>4
  <2> QED
    BY <1>5, <2>1, <2>3, <2>4 DEF Bridge!MintStray
<1>6. ASSUME NEW outcome \in {"ok", "reverted"}, Bridge!MineLock(outcome) PROVE BridgeSound'
  BY <1>6 DEF Bridge!MineLock
<1>7. ASSUME NEW r \in Ids, Bridge!ProcessPending(r) PROVE BridgeSound'
  BY <1>7 DEF Bridge!ProcessPending, Bridge!Releasable
<1>8. ASSUME NEW r \in Ids, Bridge!SendMint(r) PROVE BridgeSound'
  <2>1. db.lock = "ok" /\ db.status # "absent" /\ db.mints \in {0, 1} /\ db.strays \in Nat
        /\ db.tx[r] \in Bridge!Outcomes
    BY <1>8 DEF Bridge!SendMint
  <2>2. \/ RelayerWrites(r, "await", "sent", db.status, db.mints, db.strays)
        \/ RelayerWrites(r, "idle", db.tx[r], db.status, db.mints, db.strays)
        \/ RelayerWrites(r, "idle", db.tx[r], db.status, db.mints, db.strays + 1)
    <3>1. ASSUME db' = [db EXCEPT !.relayer[r] = "await", !.tx[r] = "sent"]
          PROVE  RelayerWrites(r, "await", "sent", db.status, db.mints, db.strays)
      BY <3>1 DEF RelayerWrites
    <3>2. ASSUME db' = [db EXCEPT !.relayer[r] = "idle"]
          PROVE  RelayerWrites(r, "idle", db.tx[r], db.status, db.mints, db.strays)
      BY <3>2 DEF RelayerWrites
    <3>3. ASSUME db' = [db EXCEPT !.relayer[r] = "idle", !.strays = @ + 1]
          PROVE  RelayerWrites(r, "idle", db.tx[r], db.status, db.mints, db.strays + 1)
      <4>1. PICK n \in Nat : n = db.strays + 1
        BY <2>1
      <4>2. db' = [db EXCEPT !.relayer[r] = "idle", !.strays = n]
        BY <3>3, <4>1
      <4>3. RelayerWrites(r, "idle", db.tx[r], db.status, db.mints, n)
        BY <4>2 DEF RelayerWrites
      <4> QED
        BY <4>1, <4>3
    <3> QED
      BY <1>8, <3>1, <3>2, <3>3 DEF Bridge!SendMint
  <2> HIDE DEF BridgeSound, BridgeRow
  <2>3. PICK tx \in Bridge!Outcomes, status \in Bridge!Statuses, mints \in {0, 1}, n, k \in Nat :
          /\ tx = db.tx[r] /\ status = db.status /\ mints = db.mints /\ n = db.strays /\ k = n + 1
          /\ status # "absent" /\ (status = "delivered" \/ tx = "ok" => mints = 1)
    BY <2>1 DEF BridgeSound, BridgeRow
  <2> QED
    BY <2>1, <2>2, <2>3, RelayerStep
<1>9. ASSUME NEW r \in Ids, Bridge!Mint(r) PROVE BridgeSound'
  <2>1. db.lock = "ok" /\ db.status \in Bridge!Statuses \ {"absent"} /\ db.strays \in Nat
        /\ db.relayer[r] \in {"idle", "send", "await"} /\ db.mints \in {0, 1}
        /\ (db.status = "delivered" => db.mints = 1)
    BY <1>9 DEF Bridge!Mint
  <2>2. \/ RelayerWrites(r, db.relayer[r], "ok", db.status, 1, db.strays)
        \/ RelayerWrites(r, db.relayer[r], "reverted", db.status, db.mints, db.strays)
    <3>1. ASSUME db' = [db EXCEPT !.mints = 1, !.tx[r] = "ok"]
          PROVE  RelayerWrites(r, db.relayer[r], "ok", db.status, 1, db.strays)
      BY <3>1 DEF RelayerWrites
    <3>2. ASSUME db' = [db EXCEPT !.tx[r] = "reverted"]
          PROVE  RelayerWrites(r, db.relayer[r], "reverted", db.status, db.mints, db.strays)
      BY <3>2 DEF RelayerWrites
    <3> QED
      BY <1>9, <3>1, <3>2 DEF Bridge!Mint
  <2> HIDE DEF BridgeSound, BridgeRow
  <2>3. PICK at \in {"idle", "send", "await"} : at = db.relayer[r]
    BY <2>1
  <2>4. CASE RelayerWrites(r, at, "ok", db.status, 1, db.strays)
    BY <2>1, <2>4, RelayerStep
  <2>5. CASE RelayerWrites(r, at, "reverted", db.status, db.mints, db.strays)
    BY <2>1, <2>5, RelayerStep
  <2> QED
    BY <2>2, <2>3, <2>4, <2>5
<1>10. ASSUME NEW r \in Ids, Bridge!AwaitMint(r) PROVE BridgeSound'
  <2>1. db.lock = "ok" /\ db.status \in Bridge!Statuses \ {"absent"} /\ db.strays \in Nat
        /\ db.mints \in {0, 1} /\ (db.status = "delivered" \/ db.tx[r] = "ok" => db.mints = 1)
    BY <1>10 DEF Bridge!AwaitMint
  <2>2. CASE /\ db.tx[r] \in {"ok", "reverted"}
             /\ \E status \in Bridge!Persisted(IF db.tx[r] = "ok" THEN "delivered" ELSE "failed") :
                   db' = [db EXCEPT !.status = status, !.relayer[r] = "idle", !.tx[r] = "none"]
    <3>1. PICK status \in {"delivered", "failed", db.status} :
            /\ db' = [db EXCEPT !.status = status, !.relayer[r] = "idle", !.tx[r] = "none"]
            /\ status = "delivered" => db.mints = 1
      BY <2>1, <2>2
    <3>2. RelayerWrites(r, "idle", "none", status, db.mints, db.strays)
      BY <2>1, <3>1 DEF RelayerWrites
    <3> QED
      BY <2>1, <3>1, <3>2, RelayerStep
  <2>3. CASE db' = [db EXCEPT !.relayer[r] = "idle", !.tx[r] = "none",
                              !.strays = IF db.tx[r] = "sent" THEN @ + 1 ELSE @]
    <3>1. PICK strays \in Nat :
            db' = [db EXCEPT !.relayer[r] = "idle", !.tx[r] = "none", !.strays = strays]
      <4>1. PICK n \in Nat : n = (IF db.tx[r] = "sent" THEN db.strays + 1 ELSE db.strays)
        BY <2>1
      <4>2. db' = [db EXCEPT !.relayer[r] = "idle", !.tx[r] = "none", !.strays = n]
        BY <2>3, <4>1
      <4> QED
        BY <4>2
    <3>2. RelayerWrites(r, "idle", "none", db.status, db.mints, strays)
      BY <2>1, <3>1 DEF RelayerWrites
    <3> QED
      BY <2>1, <3>1, <3>2, RelayerStep
  <2> QED
    BY <1>10, <2>2, <2>3 DEF Bridge!AwaitMint
<1> QED
  BY <1>1, <1>2, <1>3, <1>4, <1>5, <1>6, <1>7, <1>8, <1>9, <1>10 DEF Bridge!Next

----
(* Hub.  A channel is closed where its connection leaves the clients, and a  *)
(* connection asks to be a client once.                                      *)
HubRow == [up : BOOLEAN, asked : SUBSET Ids, left : SUBSET Ids, clients : SUBSET Ids,
           backlog : Nat, queue : [Ids -> Int], reader : [Ids -> {"none", "runs", "done"}],
           writer : [Ids -> {"none", "runs", "done"}], closes : [Ids -> Nat], lost : BOOLEAN]

HubSound ==
    /\ db \in HubRow
    /\ ~db.lost
    /\ \A c \in Ids : /\ db.closes[c] <= 1
                      /\ (c \in db.asked \cup db.clients => db.closes[c] = 0 /\ db.reader[c] # "none")
                      /\ (db.reader[c] = "none" => db.closes[c] = 0)
                      /\ c \notin db.asked \cap db.clients

LEMMA HubInit == Hub!Init => HubSound
  BY DEF Hub!Init, HubSound, HubRow

(* Channels of clients are closed as the clients leave. *)
LEMMA HubCloses ==
  ASSUME HubSound, NEW S \in SUBSET db.clients
  PROVE  /\ Hub!Closed(S) \in [Ids -> Nat]
         /\ \A c \in Ids : Hub!Closed(S)[c] = IF c \in S THEN 1 ELSE db.closes[c]
  BY DEF HubSound, HubRow, Hub!Closed

HubDrops(S, closes) ==
    /\ closes \in [Ids -> Nat] /\ \A d \in Ids : closes[d] = IF d \in S THEN 1 ELSE db.closes[d]
    /\ db' \in HubRow /\ db'.lost = FALSE /\ db'.asked = db.asked /\ db'.reader = db.reader
    /\ db'.clients = db.clients \ S /\ db'.closes = closes

LEMMA HubLeaves ==
  ASSUME HubSound, NEW S \in SUBSET db.clients, NEW closes, HubDrops(S, closes)
  PROVE  HubSound'
<1> SUFFICES ASSUME NEW c \in Ids
             PROVE  /\ closes[c] <= 1
                    /\ (c \in db.asked \cup (db.clients \ S) => closes[c] = 0 /\ db.reader[c] # "none")
                    /\ (db.reader[c] = "none" => closes[c] = 0)
                    /\ c \notin db.asked \cap (db.clients \ S)
  BY DEF HubSound, HubDrops
<1>1. /\ db.closes[c] <= 1
      /\ (c \in db.asked \cup db.clients => db.closes[c] = 0 /\ db.reader[c] # "none")
      /\ (db.reader[c] = "none" => db.closes[c] = 0)
      /\ c \notin db.asked \cap db.clients
  BY DEF HubSound
<1>2. closes[c] = IF c \in S THEN 1 ELSE db.closes[c]
  BY DEF HubDrops
<1>3. CASE c \in S
  BY <1>1, <1>2, <1>3
<1>4. CASE c \notin S
  BY <1>1, <1>2, <1>4
<1> QED
  BY <1>3, <1>4

LEMMA HubStep == ASSUME HubSound, Hub!Next PROVE HubSound'
<1>1. db \in HubRow
  BY DEF HubSound
<1>2. ASSUME NEW c \in Ids, Hub!HandleWebSocket(c) PROVE HubSound'
  BY <1>2 DEF Hub!HandleWebSocket, HubSound, HubRow
<1>3. ASSUME NEW c \in Ids, Hub!Broadcast(c) PROVE HubSound'
  BY <1>3 DEF Hub!Broadcast, HubSound, HubRow
<1>4. ASSUME NEW c \in Ids, Hub!StopReading(c) PROVE HubSound'
  BY <1>4 DEF Hub!StopReading, HubSound, HubRow
<1>5. ASSUME NEW c \in Ids, Hub!Write(c) PROVE HubSound'
  <2>1. PICK n \in Int : n = db.queue[c] - 1
    BY <1>1 DEF HubRow
  <2>2. PICK next \in {"runs", "done"} :
           \/ db' = [db EXCEPT !.queue[c] = n, !.writer[c] = next]
           \/ db' = [db EXCEPT !.writer[c] = next]
    BY <1>5, <2>1 DEF Hub!Write
  <2>3. CASE db' = [db EXCEPT !.queue[c] = n, !.writer[c] = next]
    BY <1>1, <2>3 DEF HubSound, HubRow
  <2>4. CASE db' = [db EXCEPT !.writer[c] = next]
    BY <1>1, <2>4 DEF HubSound, HubRow
  <2> QED
    BY <2>2, <2>3, <2>4
<1>6. ASSUME NEW c \in Ids, Hub!Register(c) PROVE HubSound'
  <2>1. c \in db.asked /\ db' = [db EXCEPT !.asked = @ \ {c}, !.clients = @ \cup {c}]
    BY <1>6 DEF Hub!Register
  <2>2. /\ db' \in HubRow /\ db'.lost = FALSE
        /\ db'.asked = db.asked \ {c} /\ db'.clients = db.clients \cup {c}
        /\ db'.reader = db.reader /\ db'.closes = db.closes
    BY <1>1, <2>1 DEF HubSound, HubRow
  <2> SUFFICES ASSUME NEW d \in Ids
               PROVE  /\ db.closes[d] <= 1
                      /\ (d \in (db.asked \ {c}) \cup (db.clients \cup {c})
                           => db.closes[d] = 0 /\ db.reader[d] # "none")
                      /\ (db.reader[d] = "none" => db.closes[d] = 0)
                      /\ d \notin (db.asked \ {c}) \cap (db.clients \cup {c})
    BY <2>2 DEF HubSound
  <2> QED
    BY <2>1 DEF HubSound
<1>7. ASSUME NEW c \in Ids, Hub!Unregister(c) PROVE HubSound'
  <2> DEFINE closes == Hub!Closed(Hub!Leaving(c))
  <2>1. db' = [db EXCEPT !.left = @ \ {c}, !.clients = @ \ {c}, !.closes = closes]
    BY <1>7 DEF Hub!Unregister
  <2>2. Hub!Leaving(c) \in SUBSET db.clients
    BY DEF Hub!Leaving
  <2>3. /\ closes \in [Ids -> Nat]
        /\ \A d \in Ids : closes[d] = IF d \in Hub!Leaving(c) THEN 1 ELSE db.closes[d]
    BY <2>2, HubCloses
  <2> HIDE DEF closes
  <2>4. db' \in HubRow /\ db'.lost = FALSE /\ db'.asked = db.asked /\ db'.reader = db.reader
        /\ db'.clients = db.clients \ Hub!Leaving(c) /\ db'.closes = closes
    BY <2>1, <2>3 DEF HubSound, HubRow, Hub!Leaving
  <2>5. HubDrops(Hub!Leaving(c), closes)
    BY <2>3, <2>4 DEF HubDrops
  <2> QED
    BY <2>2, <2>5, HubLeaves
<1>8. CASE Hub!FanOut
  <2>1. PICK slow \in SUBSET db.clients :
          /\ db.backlog > 0
          /\ db' = [db EXCEPT !.backlog = @ - 1, !.clients = @ \ slow, !.closes = Hub!Closed(slow),
                              !.queue = [c \in Ids |-> IF c \in db.clients \ slow THEN @[c] + 1 ELSE @[c]],
                              !.lost = @ \/ \E c \in db.clients : db.closes[c] > 0]
    BY <1>8 DEF Hub!FanOut
  <2> DEFINE closes == Hub!Closed(slow)
             queue == [c \in Ids |-> IF c \in db.clients \ slow THEN db.queue[c] + 1 ELSE db.queue[c]]
  <2>2. /\ closes \in [Ids -> Nat]
        /\ \A d \in Ids : closes[d] = IF d \in slow THEN 1 ELSE db.closes[d]
    BY HubCloses
  <2>3. queue \in [Ids -> Int]
    BY <1>1 DEF HubRow
  <2>4. (db.lost \/ \E c \in db.clients : db.closes[c] > 0) = FALSE
    BY DEF HubSound, HubRow
  <2>5. db' = [db EXCEPT !.backlog = @ - 1, !.clients = @ \ slow, !.closes = closes,
                         !.queue = queue, !.lost = FALSE]
    BY <2>1, <2>4
  <2>6. db.backlog - 1 \in Nat
    BY <1>1, <2>1 DEF HubRow
  <2> HIDE DEF closes, queue
  <2>7. db' \in HubRow /\ db'.lost = FALSE /\ db'.asked = db.asked /\ db'.reader = db.reader
        /\ db'.clients = db.clients \ slow /\ db'.closes = closes
    BY <1>1, <2>2, <2>3, <2>5, <2>6 DEF HubRow
  <2>8. HubDrops(slow, closes)
    BY <2>2, <2>7 DEF HubDrops
  <2> QED
    BY <2>8, HubLeaves
<1>9. CASE Hub!Stop
  <2> DEFINE closes == Hub!Closed(db.clients)
  <2>1. db' = [db EXCEPT !.up = FALSE, !.clients = {}, !.closes = closes]
    BY <1>9 DEF Hub!Stop
  <2>2. /\ closes \in [Ids -> Nat]
        /\ \A d \in Ids : closes[d] = IF d \in db.clients THEN 1 ELSE db.closes[d]
    BY HubCloses
  <2> HIDE DEF closes
  <2>3. db' \in HubRow /\ db'.lost = FALSE /\ db'.asked = db.asked /\ db'.reader = db.reader
        /\ db'.clients = db.clients \ db.clients /\ db'.closes = closes
    BY <1>1, <2>1, <2>2 DEF HubSound, HubRow
  <2>4. HubDrops(db.clients, closes)
    BY <2>2, <2>3 DEF HubDrops
  <2> QED
    BY <2>4, HubLeaves
<1> QED
  BY <1>2, <1>3, <1>4, <1>5, <1>6, <1>7, <1>8, <1>9 DEF Hub!Next

----
BridgeIInv == service \in Services /\ (service = "bridge" => BridgeSound)

(* Nothing is minted that is not locked, nothing locked without a row, and a *)
(* row says delivered only of what was minted: with any number of relayers   *)
(* sweeping the table, whatever fails or is never heard of.                  *)
THEOREM PlatformBridgeBacked == Spec => []BridgeBacked
<1>1. Init => BridgeIInv
  BY BridgeInit DEF Init, BridgeIInv, Services
<1>2. BridgeIInv /\ [Next]_<<service, db>> => BridgeIInv'
  <2> SUFFICES ASSUME BridgeIInv, [Next]_<<service, db>> PROVE BridgeIInv'
    OBVIOUS
  <2>1. CASE UNCHANGED <<service, db>>
    BY <2>1 DEF BridgeIInv, BridgeSound
  <2>2. CASE Next
    <3>1. service' = service /\ (service = "bridge" => Bridge!Next)
      BY <2>2 DEF Next, Step
    <3> QED
      BY <3>1, BridgeStep DEF BridgeIInv
  <2> QED
    BY <2>1, <2>2
<1>3. BridgeIInv => BridgeBacked
  <2> SUFFICES ASSUME BridgeIInv, service = "bridge" PROVE Bridge!BridgeBacked
    BY DEF BridgeBacked
  <2> QED
    BY DEF BridgeIInv, BridgeSound, BridgeRow, Bridge!BridgeBacked, Bridge!Statuses, Bridge!Outcomes
<1> QED
  BY <1>1, <1>2, <1>3, PTL DEF Spec

HubIInv == service \in Services /\ (service = "hub" => HubSound)

(* No goroutine of the WebSocket hub closes a send channel twice or sends on *)
(* a closed one, for any number of connections, full channels and the end of *)
(* the hub included.                                                         *)
THEOREM PlatformChannelsSafe == Spec => []ChannelsSafe
<1>1. Init => HubIInv
  BY HubInit DEF Init, HubIInv, Services
<1>2. HubIInv /\ [Next]_<<service, db>> => HubIInv'
  <2> SUFFICES ASSUME HubIInv, [Next]_<<service, db>> PROVE HubIInv'
    OBVIOUS
  <2>1. CASE UNCHANGED <<service, db>>
    BY <2>1 DEF HubIInv, HubSound
  <2>2. CASE Next
    <3>1. service' = service /\ (service = "hub" => Hub!Next)
      BY <2>2 DEF Next, Step
    <3> QED
      BY <3>1, HubStep DEF HubIInv
  <2> QED
    BY <2>1, <2>2
<1>3. HubIInv => ChannelsSafe
  <2> SUFFICES ASSUME HubIInv, service = "hub" PROVE Hub!ChannelsSafe
    BY DEF ChannelsSafe
  <2> QED
    BY DEF HubIInv, HubSound, HubRow, Hub!ChannelsSafe
<1> QED
  BY <1>1, <1>2, <1>3, PTL DEF Spec

----
(* Listings.  An update checks both rates, and what it saw of one that it    *)
(* does not write is the row's; a refresh that is not over has read what the *)
(* tables say, unless another one is due.                                    *)
RatePair == [lo : {1, 2}, hi : {1, 2}]
MainRow == [status : {"active", "paused", "delisting"}, lo : {1, 2}, hi : {1, 2}]
Refresh == [at : {"idle", "due", "perps", "lock"}, value : {"none", "futures", "perps"}]
ListingsRow ==
    [kind : {"futures", "margin"}, main : MainRow \cup {[status |-> "none"]},
     perps : [status : {"active", "paused", "delisting", "none"}],
     seen : RatePair \cup {<<>>}, registry : {"none", "futures", "perps"},
     hook : [Ids -> Refresh], skewed : BOOLEAN, unsure : BOOLEAN]

Traded == IF db.kind = "futures" /\ db.main.status = "active" THEN "futures" ELSE "none"
Tradable == IF Traded = "none" /\ db.perps.status = "active" THEN "perps" ELSE Traded

At(r) == db.hook[r].at
Reading(r) == At(r) \in {"perps", "lock"}

ReadsAreRight ==
    /\ \A r, q \in Ids : Reading(r) /\ Reading(q) => r = q
    /\ (\A r \in Ids : At(r) # "due") =>
          /\ \A r \in Ids : /\ (At(r) = "perps" => db.hook[r].value = Traded)
                            /\ (At(r) = "lock" => db.hook[r].value = Tradable)
          /\ ((\A r \in Ids : At(r) = "idle") => db.registry = Tradable)

ListingsSound ==
    /\ db \in ListingsRow
    /\ (db.main.status # "none" /\ ~db.skewed => db.main.lo <= db.main.hi)
    /\ (~db.unsure => ReadsAreRight)

LEMMA ListingsInit == Listings!Init => ListingsSound
<1> SUFFICES ASSUME NEW kind \in {"futures", "margin"},
                    db = [kind |-> kind, main |-> [status |-> "none"], perps |-> [status |-> "none"],
                          seen |-> <<>>, registry |-> "none",
                          hook |-> [r \in Ids |-> [at |-> "idle", value |-> "none"]],
                          skewed |-> FALSE, unsure |-> FALSE]
             PROVE  ListingsSound
  BY DEF Listings!Init, Listings!Kinds, Listings!NoRow, Listings!None, Listings!NoRefresh
<1> QED
  BY DEF ListingsSound, ListingsRow, ReadsAreRight, Traded, Tradable, At, Reading, Refresh

(* What an update writes are rates that fit each other, unless it is skewed. *)
LEMMA MergedRates ==
  ASSUME NEW s \in RatePair, NEW row \in MainRow, NEW changes \in Listings!Changes
  PROVE  /\ Listings!Merged(row, changes) \in MainRow
         /\ Listings!RatesFit(s, changes) /\ row.lo <= row.hi
            /\ (s = [lo |-> row.lo, hi |-> row.hi] \/ ~Listings!OneRate(changes))
            => Listings!Merged(row, changes).lo <= Listings!Merged(row, changes).hi
<1> DEFINE new == Listings!Merged(row, changes)
           kept == Listings!Merged(s, changes)
<1>1. CASE changes \in [status : {"active", "paused"}]
  <2>1. new = [status |-> changes.status, lo |-> row.lo, hi |-> row.hi]
    BY <1>1 DEF MainRow, Listings!Merged
  <2> QED
    BY <2>1, <1>1 DEF MainRow
<1>2. CASE changes \in [lo : {1, 2}]
  <2>1. new = [status |-> row.status, lo |-> changes.lo, hi |-> row.hi]
    BY <1>2 DEF MainRow, Listings!Merged
  <2>2. kept = [lo |-> changes.lo, hi |-> s.hi] /\ Listings!OneRate(changes)
    BY <1>2 DEF RatePair, Listings!Merged, Listings!OneRate
  <2> QED
    BY <2>1, <2>2, <1>2 DEF MainRow, Listings!RatesFit
<1>3. CASE changes \in [hi : {1, 2}]
  <2>1. new = [status |-> row.status, lo |-> row.lo, hi |-> changes.hi]
    BY <1>3 DEF MainRow, Listings!Merged
  <2>2. kept = [lo |-> s.lo, hi |-> changes.hi] /\ Listings!OneRate(changes)
    BY <1>3 DEF RatePair, Listings!Merged, Listings!OneRate
  <2> QED
    BY <2>1, <2>2, <1>3 DEF MainRow, Listings!RatesFit
<1>4. CASE changes \in [lo : {1, 2}, hi : {1, 2}]
  <2>1. new = [status |-> row.status, lo |-> changes.lo, hi |-> changes.hi]
    BY <1>4 DEF MainRow, Listings!Merged
  <2>2. kept = [lo |-> changes.lo, hi |-> changes.hi]
    BY <1>4 DEF RatePair, Listings!Merged
  <2> QED
    BY <2>1, <2>2, <1>4 DEF MainRow, Listings!RatesFit
<1> QED
  BY <1>1, <1>2, <1>3, <1>4 DEF Listings!Changes

(* What a request on the tables writes. *)
TableWrites(r, m, p, hook, skewed) ==
    /\ At(r) = "idle"
    /\ db' = [db EXCEPT !.main = m, !.perps = p, !.hook = hook, !.skewed = skewed]
    /\ \/ hook = [db.hook EXCEPT ![r].at = "due"]
       \/ hook = db.hook /\ db.kind = "margin" /\ p = db.perps

LEMMA TablesStep ==
  ASSUME ListingsSound, NEW r \in Ids, NEW m \in MainRow \cup {[status |-> "none"]}, NEW p, NEW hook,
         p \in [status : {"active", "paused", "delisting", "none"}],
         NEW skewed \in BOOLEAN, TableWrites(r, m, p, hook, skewed),
         m.status # "none" /\ ~skewed => m.lo <= m.hi
  PROVE  ListingsSound'
<1>1. db \in ListingsRow /\ hook \in [Ids -> Refresh]
  BY DEF ListingsSound, ListingsRow, TableWrites, Refresh
<1>2. /\ db' \in ListingsRow /\ db'.main = m /\ db'.perps = p /\ db'.hook = hook
      /\ db'.skewed = skewed /\ db'.kind = db.kind /\ db'.registry = db.registry
      /\ db'.unsure = db.unsure
  BY <1>1 DEF ListingsRow, TableWrites
<1>3. ASSUME ~db.unsure PROVE ReadsAreRight'
  <2>1. ReadsAreRight
    BY <1>3 DEF ListingsSound
  <2>2. CASE hook = [db.hook EXCEPT ![r].at = "due"]
    <3>1. At(r)' = "due" /\ \A q \in Ids : Reading(q)' <=> Reading(q)
      BY <1>1, <1>2, <2>2 DEF ListingsRow, Refresh, At, Reading, TableWrites
    <3> QED
      BY <3>1, <2>1 DEF ReadsAreRight
  <2>3. CASE hook = db.hook /\ db.kind = "margin" /\ p = db.perps
    <3>1. Traded' = Traded /\ Tradable' = Tradable
      BY <1>2, <2>3 DEF Traded, Tradable
    <3>2. \A q \in Ids : At(q)' = At(q) /\ (Reading(q)' <=> Reading(q))
      BY <1>2, <2>3 DEF At, Reading
    <3> QED
      BY <2>1, <3>1, <3>2, <1>2, <2>3 DEF ReadsAreRight
  <2> QED
    BY <2>2, <2>3 DEF TableWrites
<1> QED
  BY <1>2, <1>3 DEF ListingsSound

(* A request between its reads: at, with value, and the registry it sets.    *)
HookWrites(r, at, value, registry, unsure) ==
    db' = [db EXCEPT !.hook = [@ EXCEPT ![r] = [at |-> at, value |-> value]],
                     !.registry = registry, !.unsure = unsure]

LEMMA HookMoves ==
  ASSUME ListingsSound, NEW r \in Ids, NEW at, NEW value, NEW registry, NEW unsure \in BOOLEAN,
         at \in {"idle", "due", "perps", "lock"}, {value, registry} \subseteq {"none", "futures", "perps"},
         HookWrites(r, at, value, registry, unsure)
  PROVE  /\ db' \in ListingsRow
         /\ At(r)' = at /\ db'.hook[r].value = value
         /\ \A q \in Ids \ {r} : db'.hook[q] = db.hook[q]
         /\ db'.registry = registry /\ db'.unsure = unsure
         /\ Traded' = Traded /\ Tradable' = Tradable
         /\ db'.main = db.main /\ db'.skewed = db.skewed
<1>1. db \in ListingsRow
  BY DEF ListingsSound
<1>2. PICK hook \in [Ids -> Refresh] : hook = [db.hook EXCEPT ![r] = [at |-> at, value |-> value]]
  BY <1>1 DEF ListingsRow, Refresh
<1>3. db' = [db EXCEPT !.hook = hook, !.registry = registry, !.unsure = unsure]
  BY <1>2 DEF HookWrites
<1>4. /\ db' \in ListingsRow /\ db'.hook = hook /\ db'.registry = registry /\ db'.unsure = unsure
      /\ db'.main = db.main /\ db'.perps = db.perps /\ db'.kind = db.kind /\ db'.skewed = db.skewed
  BY <1>1, <1>2, <1>3 DEF ListingsRow
<1>5. hook[r] = [at |-> at, value |-> value] /\ \A q \in Ids \ {r} : hook[q] = db.hook[q]
  BY <1>1, <1>2 DEF ListingsRow, Refresh
<1> QED
  BY <1>4, <1>5 DEF At, Traded, Tradable

LEMMA ReadsStep ==
  ASSUME ListingsSound, NEW r \in Ids,
         \/ Listings!ReadFutures(r) \/ Listings!ReadPerps(r)
         \/ Listings!SetRegistry(r) \/ Listings!RefreshFails(r)
  PROVE  ListingsSound'
<1>1. /\ db \in ListingsRow /\ db.hook[r] \in Refresh /\ db.unsure \in BOOLEAN
      /\ db.registry \in {"none", "futures", "perps"}
      /\ Traded \in {"none", "futures"} /\ Tradable \in {"none", "futures", "perps"}
  BY DEF ListingsSound, ListingsRow, Traded, Tradable
<1>2. CASE Listings!ReadFutures(r)
  <2>1. PICK unsure \in BOOLEAN : unsure = \E q \in Ids \ {r} : At(q) \notin {"idle", "due"}
    OBVIOUS
  <2>2. At(r) = "due" /\ HookWrites(r, "perps", Traded, db.registry, unsure)
    BY <1>1, <1>2, <2>1 DEF Listings!ReadFutures, Listings!Busy, HookWrites, ListingsRow, At,
       Traded, Listings!Active, Listings!None
  <2>3. /\ db' \in ListingsRow /\ At(r)' = "perps" /\ db'.hook[r].value = Traded
        /\ \A q \in Ids \ {r} : db'.hook[q] = db.hook[q]
        /\ db'.registry = db.registry /\ db'.unsure = unsure
        /\ Traded' = Traded /\ Tradable' = Tradable /\ db'.main = db.main /\ db'.skewed = db.skewed
    BY <1>1, <2>2, HookMoves
  <2>4. ASSUME ~unsure PROVE ReadsAreRight'
    <3>1. \A q \in Ids \ {r} : At(q)' \in {"idle", "due"}
      BY <2>1, <2>3, <2>4 DEF At
    <3> QED
      BY <2>3, <3>1 DEF ReadsAreRight, Reading, At
  <2> QED
    BY <2>3, <2>4 DEF ListingsSound
<1>3. CASE Listings!ReadPerps(r)
  <2>1. PICK value \in {"none", "futures", "perps"} :
           value = IF db.hook[r].value = "none" /\ db.perps.status = "active" THEN "perps"
                   ELSE db.hook[r].value
    BY <1>1 DEF Refresh
  <2>2. At(r) = "perps" /\ HookWrites(r, "lock", value, db.registry, db.unsure)
    BY <1>1, <1>3, <2>1 DEF Listings!ReadPerps, HookWrites, ListingsRow, At,
       Listings!Active, Listings!None
  <2>3. /\ db' \in ListingsRow /\ At(r)' = "lock" /\ db'.hook[r].value = value
        /\ \A q \in Ids \ {r} : db'.hook[q] = db.hook[q]
        /\ db'.registry = db.registry /\ db'.unsure = db.unsure
        /\ Traded' = Traded /\ Tradable' = Tradable /\ db'.main = db.main /\ db'.skewed = db.skewed
    BY <1>1, <2>2, HookMoves
  <2>4. ASSUME ~db.unsure PROVE ReadsAreRight'
    <3>1. ReadsAreRight
      BY <2>4 DEF ListingsSound
    <3>2. \A q \in Ids \ {r} : At(q)' = At(q) /\ ~Reading(q) /\ ~Reading(q)'
      BY <2>2, <2>3, <3>1 DEF ReadsAreRight, Reading, At
    <3>3. db.hook[r].value = Traded => value = Tradable
      BY <2>1 DEF Tradable, Traded
    <3> QED
      BY <2>2, <2>3, <3>1, <3>2, <3>3 DEF ReadsAreRight, Reading
  <2> QED
    BY <2>3, <2>4 DEF ListingsSound
<1>4. CASE Listings!SetRegistry(r)
  <2>1. db.hook[r].value \in {"none", "futures", "perps"}
    BY <1>1 DEF Refresh
  <2>2. At(r) = "lock" /\ HookWrites(r, "idle", "none", db.hook[r].value, db.unsure)
    BY <1>1, <1>4 DEF Listings!SetRegistry, Listings!NoRefresh, HookWrites, ListingsRow, At,
       Listings!None
  <2>3. /\ db' \in ListingsRow /\ At(r)' = "idle"
        /\ \A q \in Ids \ {r} : db'.hook[q] = db.hook[q]
        /\ db'.registry = db.hook[r].value /\ db'.unsure = db.unsure
        /\ Traded' = Traded /\ Tradable' = Tradable /\ db'.main = db.main /\ db'.skewed = db.skewed
    BY <1>1, <2>1, <2>2, HookMoves
  <2>4. ASSUME ~db.unsure PROVE ReadsAreRight'
    <3>1. ReadsAreRight
      BY <2>4 DEF ListingsSound
    <3>2. \A q \in Ids \ {r} : At(q)' = At(q) /\ ~Reading(q) /\ ~Reading(q)'
      BY <2>2, <2>3, <3>1 DEF ReadsAreRight, Reading, At
    <3> QED
      BY <2>2, <2>3, <3>1, <3>2 DEF ReadsAreRight, Reading
  <2> QED
    BY <2>3, <2>4 DEF ListingsSound
<1>5. CASE Listings!RefreshFails(r)
  <2>1. HookWrites(r, "idle", "none", db.registry, TRUE)
    BY <1>1, <1>5 DEF Listings!RefreshFails, Listings!NoRefresh, HookWrites, ListingsRow, Listings!None
  <2>2. db' \in ListingsRow /\ db'.unsure /\ db'.main = db.main /\ db'.skewed = db.skewed
    BY <1>1, <2>1, HookMoves
  <2> QED
    BY <2>2 DEF ListingsSound
<1> QED
  BY <1>2, <1>3, <1>4, <1>5

LEMMA ListingsStep == ASSUME ListingsSound, Listings!Next PROVE ListingsSound'
<1>1. /\ db \in ListingsRow /\ db.skewed \in BOOLEAN /\ db.main \in MainRow \cup {[status |-> "none"]}
      /\ db.perps \in [status : {"active", "paused", "delisting", "none"}]
      /\ db.seen \in RatePair \cup {<<>>} /\ db.kind \in {"futures", "margin"}
      /\ (db.main.status # "none" /\ ~db.skewed => db.main.lo <= db.main.hi)
  BY DEF ListingsSound, ListingsRow
<1>2. CASE Listings!LoadRow
  <2>1. db.main \in MainRow
    BY <1>1, <1>2 DEF Listings!LoadRow, Listings!NoRow, Listings!None
  <2>2. PICK seen \in RatePair : seen = [lo |-> db.main.lo, hi |-> db.main.hi]
    BY <2>1 DEF MainRow, RatePair
  <2>3. db' = [db EXCEPT !.seen = seen]
    BY <1>2, <2>2 DEF Listings!LoadRow, Listings!Terms
  <2>4. /\ db' \in ListingsRow /\ db'.main = db.main /\ db'.perps = db.perps /\ db'.kind = db.kind
        /\ db'.hook = db.hook /\ db'.skewed = db.skewed /\ db'.unsure = db.unsure
        /\ db'.registry = db.registry
    BY <1>1, <2>3 DEF ListingsRow
  <2> QED
    BY <2>4 DEF ListingsSound, ReadsAreRight, Reading, At, Traded, Tradable
<1>3. ASSUME NEW r \in Ids, NEW lo \in {1, 2}, NEW hi \in {1, 2},
             Listings!CreateFuturesMarket(r, lo, hi) \/ Listings!CreateMarginMarket(r, lo, hi)
      PROVE  ListingsSound'
  <2>1. PICK m \in MainRow : m = [status |-> "paused", lo |-> lo, hi |-> hi]
    BY DEF MainRow
  <2>2. PICK hook : hook = Listings!MainHook(r)
    OBVIOUS
  <2>3. At(r) = "idle" /\ m.lo <= m.hi /\ db' = [db EXCEPT !.main = m, !.hook = hook]
    BY <1>3, <2>1, <2>2 DEF Listings!CreateFuturesMarket, Listings!CreateMarginMarket,
       Listings!CreateMain, Listings!Idle, At
  <2>4. \/ hook = [db.hook EXCEPT ![r].at = "due"]
        \/ hook = db.hook /\ db.kind = "margin"
    BY <1>1, <2>2 DEF Listings!MainHook, Listings!Hook
  <2>5. TableWrites(r, m, db.perps, hook, db.skewed)
    BY <1>1, <2>3, <2>4 DEF TableWrites, ListingsRow
  <2> QED
    BY <1>1, <2>3, <2>5, TablesStep
<1>4. ASSUME NEW r \in Ids, NEW s \in Listings!Loaded, NEW changes \in Listings!Changes,
             Listings!UpdateFuturesMarket(r, s, changes) \/ Listings!UpdateMarginMarket(r, s, changes)
      PROVE  ListingsSound'
  <2>1. Listings!UpdateMain(r, s, changes)
    BY <1>4 DEF Listings!UpdateFuturesMarket, Listings!UpdateMarginMarket
  <2>2. db.main \in MainRow
    BY <1>1, <2>1 DEF Listings!UpdateMain, Listings!NoRow, Listings!None
  <2>3. s \in RatePair
    BY <1>1, <2>2 DEF Listings!Loaded, Listings!Terms, MainRow, RatePair
  <2>4. PICK row \in MainRow : row = db.main
    BY <2>2
  <2>5. PICK m \in MainRow : m = Listings!Merged(row, changes)
    BY <2>3, MergedRates
  <2>6. PICK skewed \in BOOLEAN :
           skewed = (db.skewed \/ (s # [lo |-> row.lo, hi |-> row.hi] /\ Listings!OneRate(changes)))
    OBVIOUS
  <2>7. PICK hook : hook = Listings!MainHook(r)
    OBVIOUS
  <2>8. ~skewed => m.lo <= m.hi
    BY <1>1, <2>1, <2>3, <2>4, <2>5, <2>6, MergedRates DEF Listings!UpdateMain, MainRow
  <2>9. TableWrites(r, m, db.perps, hook, skewed)
    BY <1>1, <2>1, <2>4, <2>5, <2>6, <2>7 DEF Listings!UpdateMain, Listings!Terms,
       Listings!MainHook, Listings!Hook, Listings!Idle, TableWrites, ListingsRow, At
  <2> QED
    BY <1>1, <2>8, <2>9, TablesStep
<1>5. ASSUME NEW r \in Ids, Listings!DeleteFuturesMarket(r) \/ Listings!DeleteMarginMarket(r)
      PROVE  ListingsSound'
  <2>1. Listings!DeleteMain(r)
    BY <1>5 DEF Listings!DeleteFuturesMarket, Listings!DeleteMarginMarket
  <2>2. db.main \in MainRow
    BY <1>1, <2>1 DEF Listings!DeleteMain, Listings!NoRow, Listings!None
  <2>3. PICK m \in MainRow : m = [db.main EXCEPT !.status = "delisting"]
    BY <2>2 DEF MainRow
  <2>4. m.lo = db.main.lo /\ m.hi = db.main.hi /\ db.main.status # "none"
    BY <2>2, <2>3 DEF MainRow
  <2>5. PICK hook : hook = Listings!MainHook(r)
    OBVIOUS
  <2>6. TableWrites(r, m, db.perps, hook, db.skewed)
    BY <1>1, <2>1, <2>3, <2>5 DEF Listings!DeleteMain, Listings!MainHook, Listings!Hook,
       Listings!Idle, TableWrites, ListingsRow, At
  <2> QED
    BY <1>1, <2>4, <2>6, TablesStep
<1>6. ASSUME NEW r \in Ids, NEW status \in {"active", "paused"},
             \/ Listings!CreatePerpsMarket(r) \/ Listings!DeletePerpsMarket(r)
             \/ Listings!UpdatePerpsMarket(r, status)
      PROVE  ListingsSound'
  <2>1. PICK p \in [status : {"active", "paused", "delisting", "none"}] :
           /\ At(r) = "idle"
           /\ db' = [db EXCEPT !.perps = p, !.hook = [@ EXCEPT ![r].at = "due"]]
    BY <1>1, <1>6 DEF Listings!CreatePerpsMarket, Listings!DeletePerpsMarket,
       Listings!UpdatePerpsMarket, Listings!Hook, Listings!Idle, At
  <2>2. PICK m \in MainRow \cup {[status |-> "none"]} : m = db.main
    BY <1>1
  <2>3. PICK hook : hook = [db.hook EXCEPT ![r].at = "due"]
    OBVIOUS
  <2>4. TableWrites(r, m, p, hook, db.skewed)
    BY <1>1, <2>1, <2>2, <2>3 DEF TableWrites, ListingsRow
  <2> QED
    BY <1>1, <2>2, <2>4, TablesStep
<1> QED
  BY <1>2, <1>3, <1>4, <1>5, <1>6, ReadsStep DEF Listings!Next

(* Integrations.  A row uses what is there or was dropped.                   *)
Fields == {"chains", "tokens", "bridges", "farms", "total", "active", "dropped"}
Uses(f, keys) == \A k \in DOMAIN f : "uses" \in DOMAIN f[k] /\ f[k].uses \subseteq keys

IntegrationsSound(d) ==
    /\ Fields \subseteq DOMAIN d
    /\ Uses(d.tokens, DOMAIN d.chains \cup d.dropped)
    /\ Uses(d.bridges, DOMAIN d.chains \cup d.dropped)
    /\ Uses(d.farms, DOMAIN d.tokens \cup d.dropped)

Counted(d) ==
    \A m \in Integrations!Maps : /\ d.total[m] = Integrations!Count(d[m])
                                /\ d.active[m] = Integrations!ActiveIn(d[m])

(* updateStats counts the maps and leaves them.                              *)
LEMMA StatsCounted ==
  ASSUME NEW d, Fields \subseteq DOMAIN d
  PROVE  LET e == Integrations!updateStats(d) IN
         /\ Fields \subseteq DOMAIN e
         /\ e.chains = d.chains /\ e.tokens = d.tokens /\ e.bridges = d.bridges
         /\ e.farms = d.farms /\ e.dropped = d.dropped
         /\ Counted(e)
<1> DEFINE total == [m \in Integrations!Maps |-> Integrations!Count(d[m])]
           active == [m \in Integrations!Maps |-> Integrations!ActiveIn(d[m])]
           e == [d EXCEPT !.total = total, !.active = active]
<1>1. Integrations!updateStats(d) = e
  BY DEF Integrations!updateStats
<1>2. \A m \in Integrations!Maps : /\ total[m] = Integrations!Count(d[m])
                                  /\ active[m] = Integrations!ActiveIn(d[m])
  OBVIOUS
<1> HIDE DEF total, active
<1>3. /\ e.chains = d.chains /\ e.tokens = d.tokens /\ e.bridges = d.bridges
      /\ e.farms = d.farms /\ e.dropped = d.dropped /\ e.total = total /\ e.active = active
      /\ Fields \subseteq DOMAIN e
  BY DEF Fields
<1>4. \A m \in Integrations!Maps : e[m] = d[m]
  BY DEF Integrations!Maps, Fields
<1> HIDE DEF e
<1>5. Counted(e)
  BY <1>2, <1>3, <1>4 DEF Counted
<1> QED
  BY <1>1, <1>3, <1>5

LEMMA IntegrationsInit == Integrations!Init => IntegrationsSound(db) /\ Counted(db)
<1> SUFFICES ASSUME Integrations!Init PROVE IntegrationsSound(db) /\ Counted(db)
  OBVIOUS
<1> DEFINE d == [chains |-> [c \in {FirstChain} |-> [active |-> TRUE]],
                 tokens |-> [t \in {FirstChain} |-> [active |-> TRUE, uses |-> {FirstChain}]],
                 bridges |-> <<>>, farms |-> <<>>, total |-> <<>>, active |-> <<>>, dropped |-> {}]
<1>1. db = Integrations!updateStats(d)
  BY DEF Integrations!Init
<1>2. Fields \subseteq DOMAIN d
  BY DEF Fields
<1>3. /\ Uses(d.tokens, DOMAIN d.chains \cup d.dropped) /\ d.bridges = <<>> /\ d.farms = <<>>
  BY DEF Uses
<1> HIDE DEF d
<1>4. /\ Fields \subseteq DOMAIN db /\ db.chains = d.chains /\ db.tokens = d.tokens
      /\ db.bridges = d.bridges /\ db.farms = d.farms /\ db.dropped = d.dropped /\ Counted(db)
  BY <1>1, <1>2, StatsCounted
<1> QED
  BY <1>3, <1>4 DEF IntegrationsSound, Uses

(* An operation that changes the maps of db into those of d.                 *)
LEMMA IntegrationsMove ==
  ASSUME NEW d, IntegrationsSound(d), db' = Integrations!updateStats(d)
  PROVE  IntegrationsSound(db)' /\ Counted(db)'
<1>1. Fields \subseteq DOMAIN d
  BY DEF IntegrationsSound
<1>2. /\ Fields \subseteq DOMAIN db' /\ db'.chains = d.chains /\ db'.tokens = d.tokens
      /\ db'.bridges = d.bridges /\ db'.farms = d.farms /\ db'.dropped = d.dropped /\ Counted(db')
  BY <1>1, StatsCounted
<1> QED
  BY <1>2 DEF IntegrationsSound, Counted

LEMMA IntegrationsStep ==
  ASSUME IntegrationsSound(db), Integrations!Next
  PROVE  IntegrationsSound(db)' /\ Counted(db)'
<1>1. ASSUME NEW c \in Chains, Integrations!AddChain(c) PROVE IntegrationsSound(db)' /\ Counted(db)'
  <2>1. PICK d : d = [db EXCEPT !.chains = Integrations!With(@, c, [active |-> TRUE])]
    OBVIOUS
  <2>2. IntegrationsSound(d)
    BY <2>1 DEF IntegrationsSound, Fields, Uses, Integrations!With
  <2> QED
    BY <1>1, <2>1, <2>2, IntegrationsMove DEF Integrations!AddChain
<1>2. ASSUME NEW c \in Chains, NEW t \in Chains, Integrations!AddToken(t, c)
      PROVE  IntegrationsSound(db)' /\ Counted(db)'
  <2>1. PICK d : d = [db EXCEPT !.tokens = Integrations!With(@, t, [active |-> TRUE, uses |-> {c}])]
    OBVIOUS
  <2>2. IntegrationsSound(d)
    BY <1>2, <2>1 DEF IntegrationsSound, Fields, Uses, Integrations!With, Integrations!AddToken
  <2> QED
    BY <1>2, <2>1, <2>2, IntegrationsMove DEF Integrations!AddToken
<1>3. ASSUME NEW k \in {"bridge"}, NEW src \in Chains, NEW dst \in Chains,
             Integrations!AddBridge(k, src, dst)
      PROVE  IntegrationsSound(db)' /\ Counted(db)'
  <2>1. PICK d : d = [db EXCEPT !.bridges =
                         Integrations!With(@, k, [active |-> TRUE, uses |-> {src, dst}])]
    OBVIOUS
  <2>2. IntegrationsSound(d)
    BY <1>3, <2>1 DEF IntegrationsSound, Fields, Uses, Integrations!With, Integrations!AddBridge,
       Integrations!BothKnown
  <2> QED
    BY <1>3, <2>1, <2>2, IntegrationsMove DEF Integrations!AddBridge
<1>4. ASSUME NEW k \in {"farm"}, NEW a \in Chains, NEW b \in Chains, Integrations!CreatePool(k, a, b)
      PROVE  IntegrationsSound(db)' /\ Counted(db)'
  <2>1. PICK d : d = [db EXCEPT !.farms =
                         Integrations!With(@, k, [active |-> TRUE, uses |-> {a, b}])]
    OBVIOUS
  <2>2. IntegrationsSound(d)
    BY <1>4, <2>1 DEF IntegrationsSound, Fields, Uses, Integrations!With, Integrations!CreatePool,
       Integrations!BothKnown
  <2> QED
    BY <1>4, <2>1, <2>2, IntegrationsMove DEF Integrations!CreatePool
<1>5. ASSUME NEW k \in {"farm"}, Integrations!CreateFarm(k)
      PROVE  IntegrationsSound(db)' /\ Counted(db)'
  <2>1. PICK d : d = [db EXCEPT !.farms = Integrations!With(@, k, [active |-> TRUE, uses |-> {}])]
    OBVIOUS
  <2>2. IntegrationsSound(d)
    BY <2>1 DEF IntegrationsSound, Fields, Uses, Integrations!With
  <2> QED
    BY <1>5, <2>1, <2>2, IntegrationsMove DEF Integrations!CreateFarm
<1>6. ASSUME NEW c \in Chains, NEW on \in BOOLEAN, Integrations!ActivateChain(c, on)
      PROVE  IntegrationsSound(db)' /\ Counted(db)'
  <2>1. PICK d : d = [db EXCEPT !.chains[c].active = on]
    OBVIOUS
  <2>2. DOMAIN d.chains = DOMAIN db.chains /\ d.tokens = db.tokens /\ d.bridges = db.bridges
        /\ d.farms = db.farms /\ d.dropped = db.dropped /\ Fields \subseteq DOMAIN d
    BY <2>1 DEF IntegrationsSound, Fields
  <2>3. IntegrationsSound(d)
    BY <2>2 DEF IntegrationsSound
  <2> QED
    BY <1>6, <2>1, <2>3, IntegrationsMove DEF Integrations!ActivateChain
<1>7. ASSUME NEW t \in Chains, NEW on \in BOOLEAN, Integrations!ActivateToken(t, on)
      PROVE  IntegrationsSound(db)' /\ Counted(db)'
  <2>1. PICK d : d = [db EXCEPT !.tokens[t].active = on]
    OBVIOUS
  <2>2. DOMAIN d.tokens = DOMAIN db.tokens /\ d.chains = db.chains /\ d.bridges = db.bridges
        /\ d.farms = db.farms /\ d.dropped = db.dropped /\ Fields \subseteq DOMAIN d
    BY <2>1 DEF IntegrationsSound, Fields
  <2>3. \A k \in DOMAIN d.tokens : /\ DOMAIN d.tokens[k] = DOMAIN db.tokens[k]
                                  /\ ("uses" \in DOMAIN db.tokens[k] =>
                                        d.tokens[k].uses = db.tokens[k].uses)
    BY <2>1 DEF IntegrationsSound, Fields
  <2>4. IntegrationsSound(d)
    BY <2>2, <2>3 DEF IntegrationsSound, Uses
  <2> QED
    BY <1>7, <2>1, <2>4, IntegrationsMove DEF Integrations!ActivateToken
<1>8. ASSUME NEW c \in Chains, Integrations!DeleteChain(c)
      PROVE  IntegrationsSound(db)' /\ Counted(db)'
  <2>1. PICK d : d = [db EXCEPT !.chains = Integrations!Without(@, c), !.dropped = @ \cup {c}]
    OBVIOUS
  <2>2. IntegrationsSound(d)
    BY <2>1 DEF IntegrationsSound, Fields, Uses, Integrations!Without
  <2> QED
    BY <1>8, <2>1, <2>2, IntegrationsMove DEF Integrations!DeleteChain
<1>9. ASSUME NEW t \in Chains, Integrations!DeleteToken(t)
      PROVE  IntegrationsSound(db)' /\ Counted(db)'
  <2>1. PICK d : d = [db EXCEPT !.tokens = Integrations!Without(@, t), !.dropped = @ \cup {t}]
    OBVIOUS
  <2>2. IntegrationsSound(d)
    BY <2>1 DEF IntegrationsSound, Fields, Uses, Integrations!Without
  <2> QED
    BY <1>9, <2>1, <2>2, IntegrationsMove DEF Integrations!DeleteToken
<1> QED
  BY <1>1, <1>2, <1>3, <1>4, <1>5, <1>6, <1>7, <1>8, <1>9 DEF Integrations!Next

ListingsIInv ==
    /\ service \in Services
    /\ (service = "listings" => ListingsSound)
    /\ (service = "integrations" => IntegrationsSound(db) /\ Counted(db))

(* What operators list keeps its order and refers to what exists or was      *)
(* dropped, and the engine trades what the tables list, for any number of    *)
(* requests between their reads.                                             *)
THEOREM PlatformListingsRight == Spec => []ListingsRight
<1>1. Init => ListingsIInv
  BY ListingsInit, IntegrationsInit DEF Init, ListingsIInv, Services
<1>2. ListingsIInv /\ [Next]_<<service, db>> => ListingsIInv'
  <2> SUFFICES ASSUME ListingsIInv, [Next]_<<service, db>> PROVE ListingsIInv'
    OBVIOUS
  <2>1. CASE UNCHANGED <<service, db>>
    <3>1. ListingsSound => ListingsSound'
      BY <2>1 DEF ListingsSound, ReadsAreRight, Reading, At, Traded, Tradable
    <3>2. IntegrationsSound(db)' = IntegrationsSound(db) /\ Counted(db)' = Counted(db)
      BY <2>1 DEF IntegrationsSound, Counted
    <3> QED
      BY <2>1, <3>1, <3>2 DEF ListingsIInv
  <2>2. CASE Next
    <3>1. /\ service' = service
          /\ (service = "listings" => Listings!Next)
          /\ (service = "integrations" => Integrations!Next)
      BY <2>2 DEF Next, Step
    <3> QED
      BY <3>1, ListingsStep, IntegrationsStep DEF ListingsIInv
  <2> QED
    BY <2>1, <2>2
<1>3. ListingsIInv => ListingsRight
  <2> SUFFICES ASSUME ListingsIInv PROVE ListingsRight
    OBVIOUS
  <2>1. ASSUME service = "listings" PROVE Listings!RatesOrdered /\ Listings!RegistryCurrent
    <3>1. ListingsSound
      BY <2>1 DEF ListingsIInv
    <3>2. Listings!RatesOrdered
      BY <3>1 DEF ListingsSound, ListingsRow, MainRow, Listings!RatesOrdered, Listings!NoRow, Listings!None
    <3>3. Listings!RegistryCurrent
      BY <3>1 DEF ListingsSound, ReadsAreRight, At, Traded, Tradable, Listings!RegistryCurrent,
         Listings!Idle, Listings!Active, Listings!None
    <3> QED
      BY <3>2, <3>3
  <2>2. ASSUME service = "integrations" PROVE Integrations!ReferencesKnown
    BY <2>2 DEF ListingsIInv, IntegrationsSound, Uses, Counted, Integrations!ReferencesKnown
  <2> QED
    BY <2>1, <2>2 DEF ListingsRight
<1> QED
  BY <1>1, <1>2, <1>3, PTL DEF Spec

----
(* Keeper.  The two sides divide the same product: one rounds down before    *)
(* the sign, the other towards zero.                                         *)
KeeperPosition == [size : {0, 1, 3}, coll : {0, 1, 2}, entry : {0, 1, 2, 3}, long : BOOLEAN]
KeeperSound == {"pos", "order", "known", "read", "sent", "price"} \subseteq DOMAIN db
               /\ db.pos \in KeeperPosition

LEMMA KeeperInit == Keeper!Init => KeeperSound
  BY DEF Keeper!Init, Keeper!Position, KeeperSound, KeeperPosition

LEMMA KeeperStep == ASSUME KeeperSound, Keeper!Next PROVE KeeperSound'
<1> DEFINE fields == {"pos", "order", "known", "read", "sent", "price"}
<1>0. fields \subseteq DOMAIN db /\ db.pos \in KeeperPosition
  BY DEF KeeperSound
<1>1. ASSUME \/ Keeper!Wait \/ Keeper!Expire
             \/ Keeper!SyncPositions \/ Keeper!SyncOrders \/ Keeper!OraclePrice
             \/ \E kind \in Keeper!Kinds : Keeper!Dropped(kind)
             \/ \E status \in {"cancelled", "expired"} : Keeper!CloseOrder(status)
             \/ \E price \in {1, 2, 3} : Keeper!SetPrice(price)
      PROVE  KeeperSound'
  <2>1. \/ \E o : db' = [db EXCEPT !.order = o]
        \/ \E known : db' = [db EXCEPT !.known = known]
        \/ \E sent : db' = [db EXCEPT !.sent = sent]
        \/ \E price : db' = [db EXCEPT !.price = price]
        \/ \E price : db' = [db EXCEPT !.read = price]
    BY <1>1 DEF Keeper!Wait, Keeper!Expire, Keeper!SyncPositions, Keeper!SyncOrders,
       Keeper!OraclePrice, Keeper!Dropped, Keeper!CloseOrder, Keeper!SetPrice
  <2> QED
    BY <2>1 DEF KeeperSound
<1>2. CASE Keeper!MineExecute \/ Keeper!MineTrigger
  <2>1. PICK o, sent : db' = [db EXCEPT !.sent = sent, !.order = o]
    BY <1>2 DEF Keeper!MineExecute, Keeper!MineTrigger
  <2> QED
    BY <2>1 DEF KeeperSound
<1>3. CASE Keeper!CheckLiquidations
  BY <1>3 DEF KeeperSound, Keeper!CheckLiquidations, Keeper!Send
<1>4. CASE Keeper!CheckOrders
  BY <1>4 DEF KeeperSound, Keeper!CheckOrders, Keeper!TriggerOrder, Keeper!ExecuteOrder, Keeper!Send
<1>5. CASE Keeper!MineLiquidate \/ Keeper!ClosePosition
  <2>1. PICK p \in KeeperPosition :
          (\E sent : db' = [db EXCEPT !.sent = sent, !.pos = p]) \/ db' = [db EXCEPT !.pos = p]
    BY <1>5, <1>0 DEF Keeper!MineLiquidate, Keeper!ClosePosition, Keeper!Position, KeeperPosition
  <2> QED
    BY <2>1 DEF KeeperSound
<1> QED
  BY <1>1, <1>2, <1>3, <1>4, <1>5 DEF Keeper!Next

(* The keeper of any market.                                                 *)
Market(precision, maintenance, prices) == INSTANCE Keeper WITH
    Prices <- prices, Sizes <- Nat, Collaterals <- Nat, Precision <- precision,
    Maintenance <- maintenance, OrderTypes <- {}, Amounts <- {}, LimitPrice <- 0, Parts <- 1

(* Quotients of a number and of its negation, rounded down.                  *)
LEMMA Rounded ==
  ASSUME NEW n \in Int, NEW s \in Nat \ {0}
  PROVE  /\ n \div s \in Int /\ (-n) \div s \in Int
         /\ (n \div s) + ((-n) \div s) \in {-1, 0}
<1> DEFINE a == n \div s
           b == (-n) \div s
<1>1. a \in Int /\ b \in Int /\ s * a <= n /\ n < s * a + s /\ s * b <= -n /\ -n < s * b + s
  OBVIOUS
<1> HIDE DEF a, b
<1>2. s * (a + b) <= 0 /\ 0 < s * (a + b + 2)
  BY <1>1
<1>3. a + b <= 0 /\ 0 < a + b + 2
  BY <1>1, <1>2
<1> QED
  BY <1>1, <1>3 DEF a, b

(* At any price of any market the keeper finds a position to be liquidated   *)
(* where the contract does, unless their roundings of its equity differ.     *)
LEMMA MarketMirrored ==
  ASSUME NEW s \in Nat \ {0}, NEW m \in Nat, NEW S, NEW price \in Nat,
         NEW p \in [size : Nat, coll : Nat, entry : Nat, long : BOOLEAN],
         p.coll > 0, Market(s, m, S)!Notional(p) > 0
  PROVE  \/ Market(s, m, S)!BelowMaintenance(p, price) = Market(s, m, S)!ContractLiquidates(p, price)
         \/ Market(s, m, S)!Abs(p.coll + Market(s, m, S)!KeeperPnl(p, price)
                                 - Market(s, m, S)!ContractEquity(p, price)) = 1
<1> DEFINE K == Market(s, m, S)!KeeperPnl(p, price)
           E == Market(s, m, S)!ContractEquity(p, price)
<1>1. PICK n \in Int : n = (price - p.entry) * p.size
  OBVIOUS
<1>2. (p.entry - price) * p.size = -n
  BY <1>1
<1>3. PICK a \in Int, b \in Int : a = n \div s /\ b = (-n) \div s /\ a + b \in {-1, 0}
  BY Rounded
<1>4. K = IF p.long THEN a ELSE -a
  BY <1>1, <1>3 DEF Market!KeeperPnl
<1>5. E = p.coll + (IF p.long THEN (IF n < 0 THEN -b ELSE a) ELSE (IF -n < 0 THEN -a ELSE b))
  BY <1>1, <1>2, <1>3 DEF Market!ContractEquity, Market!Truncated, Market!Abs
<1>6. p.coll \in Nat /\ p.long \in BOOLEAN
  OBVIOUS
<1> HIDE DEF K, E
<1>7. p.coll + K \in Int /\ E \in Int /\ p.coll + K - E \in {-1, 0, 1}
  BY <1>3, <1>4, <1>5, <1>6
<1>8. CASE p.coll + K = E
  <2>1. p.size > 0
    <3>1. p.size = 0 => Market(s, m, S)!Notional(p) = 0
      <4>1. p.size = 0 => p.size * p.entry = 0
        OBVIOUS
      <4>2. 0 \div s = 0
        OBVIOUS
      <4> QED
        BY <4>1, <4>2 DEF Market!Notional
    <3> QED
      BY <3>1
  <2>2. p.size # 0 /\ p.coll # 0 /\ Market(s, m, S)!Notional(p) # 0
    BY <2>1, <1>6
  <2>3. Market(s, m, S)!BelowMaintenance(p, price) =
          (E <= 0 \/ (E * s) \div Market(s, m, S)!Notional(p) < m)
    BY <1>8, <2>2 DEF Market!BelowMaintenance, K
  <2>4. Market(s, m, S)!ContractLiquidates(p, price) =
          (E <= 0 \/ (E * s) \div Market(s, m, S)!Notional(p) < m)
    BY <2>1 DEF Market!ContractLiquidates, E
  <2> QED
    BY <2>3, <2>4
<1>9. CASE p.coll + K # E
  <2>1. p.coll + K - E \in {-1, 1}
    BY <1>3, <1>4, <1>5, <1>6, <1>9, <1>7
  <2>2. \A x \in {-1, 1} : Market(s, m, S)!Abs(x) = 1
    BY DEF Market!Abs
  <2>3. Market(s, m, S)!Abs(p.coll + K - E) = 1
    BY <2>1, <2>2
  <2> QED
    BY <2>3 DEF K, E
<1> QED
  BY <1>8, <1>9

LEMMA KeeperMirrors == ASSUME KeeperSound PROVE Keeper!LiquidationMirrored
<1> SUFFICES ASSUME NEW price \in {1, 2, 3}, db.pos.coll > 0, Keeper!Notional(db.pos) > 0
             PROVE  \/ Keeper!BelowMaintenance(db.pos, price) = Keeper!ContractLiquidates(db.pos, price)
                    \/ Keeper!Abs(db.pos.coll + Keeper!KeeperPnl(db.pos, price)
                                  - Keeper!ContractEquity(db.pos, price)) = 1
  BY DEF Keeper!LiquidationMirrored
<1>1. PICK p \in [size : Nat, coll : Nat, entry : Nat, long : BOOLEAN] : p = db.pos
  BY DEF KeeperSound, KeeperPosition
<1>2. PICK S : S = {1, 2, 3}
  OBVIOUS
<1>3. Keeper!Notional(p) = Market(2, 1, S)!Notional(p)
  BY DEF Keeper!Notional, Market!Notional
<1>4. Keeper!KeeperPnl(p, price) = Market(2, 1, S)!KeeperPnl(p, price)
  BY DEF Keeper!KeeperPnl, Market!KeeperPnl
<1>5. Keeper!ContractEquity(p, price) = Market(2, 1, S)!ContractEquity(p, price)
  BY DEF Keeper!ContractEquity, Market!ContractEquity, Keeper!Truncated, Market!Truncated,
     Keeper!Abs, Market!Abs
<1>6. Keeper!BelowMaintenance(p, price) = Market(2, 1, S)!BelowMaintenance(p, price)
  BY <1>3, <1>4 DEF Keeper!BelowMaintenance, Market!BelowMaintenance
<1>7. Keeper!ContractLiquidates(p, price) = Market(2, 1, S)!ContractLiquidates(p, price)
  BY <1>3, <1>5 DEF Keeper!ContractLiquidates, Market!ContractLiquidates
<1>8. \/ Market(2, 1, S)!BelowMaintenance(p, price) = Market(2, 1, S)!ContractLiquidates(p, price)
      \/ Market(2, 1, S)!Abs(p.coll + Market(2, 1, S)!KeeperPnl(p, price)
                             - Market(2, 1, S)!ContractEquity(p, price)) = 1
  BY <1>1, <1>3, MarketMirrored
<1> QED
  BY <1>1, <1>4, <1>5, <1>6, <1>7, <1>8 DEF Keeper!Abs, Market!Abs

KeeperIInv == service \in Services /\ (service = "keeper" => KeeperSound)

(* The keeper liquidates what the contract would, up to rounding.            *)
THEOREM PlatformLiquidationMirrored == Spec => []LiquidationMirrored
<1>1. Init => KeeperIInv
  BY KeeperInit DEF Init, KeeperIInv, Services
<1>2. KeeperIInv /\ [Next]_<<service, db>> => KeeperIInv'
  <2> SUFFICES ASSUME KeeperIInv, [Next]_<<service, db>> PROVE KeeperIInv'
    OBVIOUS
  <2>1. CASE UNCHANGED <<service, db>>
    BY <2>1 DEF KeeperIInv, KeeperSound
  <2>2. CASE Next
    <3>1. service' = service /\ (service = "keeper" => Keeper!Next)
      BY <2>2 DEF Next, Step
    <3> QED
      BY <3>1, KeeperStep DEF KeeperIInv
  <2> QED
    BY <2>1, <2>2
<1>3. KeeperIInv => LiquidationMirrored
  BY KeeperMirrors DEF KeeperIInv, LiquidationMirrored
<1> QED
  BY <1>1, <1>2, <1>3, PTL DEF Spec

----
(* Options.  The pool of a put series keeps locked what its holders can ask  *)
(* for at the lowest price, and never has less than what is locked.          *)
OptionsFields == {"series", "seen", "principal", "size", "bal"}
SeriesFields == {"status", "call", "mark", "price", "due", "coll", "locked", "long"}

PutsSound(coll, locked, size, price) ==
    /\ coll \in Nat /\ locked \in Nat /\ size \in [Users -> Nat] /\ price \in {0, 1, 3}
    /\ 2 * Sum(size, Users) <= locked /\ locked <= coll

OptionsSound ==
    /\ OptionsFields \subseteq DOMAIN db /\ SeriesFields \subseteq DOMAIN db.series
    /\ db.seen.call = db.series.call
    /\ (~db.series.call => PutsSound(db.series.coll, db.series.locked, db.size, db.series.price))

LEMMA OptionsTotal == ASSUME NEW f PROVE Options!Total(f) = Sum(f, DOMAIN f)
  BY DEF Options!Total, Sum, Options!MapThenSumSet, MapThenSumSet, Options!MapThenFoldSet, MapThenFoldSet

LEMMA OptionsInit == Options!Init => OptionsSound
<1> SUFFICES ASSUME NEW call \in BOOLEAN, NEW mark, NEW status, NEW series, NEW size,
                    series = Options!CreateSeries(call, mark, status), size = [u \in Users |-> 0],
                    \E bal, principal :
                       db = [series |-> series, seen |-> Options!Load(series), principal |-> principal,
                             size |-> size, bal |-> bal]
             PROVE  OptionsSound
  BY DEF Options!Init
<1>1. /\ SeriesFields \subseteq DOMAIN series /\ series.call = call
      /\ series.coll = 0 /\ series.locked = 0 /\ series.price = 0
  BY DEF Options!CreateSeries, SeriesFields
<1>2. Options!Load(series).call = series.call
  BY DEF Options!Load
<1>3. Sum(size, Users) = 0
  <2>1. {} \in SUBSET Users /\ \A u \in Users : size[u] \in Int /\ size[u] = 0
    OBVIOUS
  <2>2. Sum(size, Users) = Sum(size, {})
    BY <2>1, PlatformAssumption, SumZeroOutside
  <2> QED
    BY <2>2, SumEmpty
<1>4. PutsSound(0, 0, size, 0)
  BY <1>3 DEF PutsSound
<1>5. /\ OptionsFields \subseteq DOMAIN db /\ db.series = series /\ db.size = size
      /\ db.seen.call = series.call
  BY <1>2 DEF OptionsFields
<1> QED
  BY <1>1, <1>4, <1>5 DEF OptionsSound

(* What an operation writes of the pool.                                     *)
PoolWrites(coll, locked, size, price) ==
    /\ OptionsFields \subseteq DOMAIN db' /\ SeriesFields \subseteq DOMAIN db'.series
    /\ db'.series.call = db.series.call /\ db'.seen.call = db.series.call
    /\ db'.series.coll = coll /\ db'.series.locked = locked
    /\ db'.size = size /\ db'.series.price = price

LEMMA OptionsMoves ==
  ASSUME OptionsSound, NEW coll, NEW locked, NEW size, NEW price, PoolWrites(coll, locked, size, price),
         ~db.series.call => PutsSound(coll, locked, size, price)
  PROVE  OptionsSound'
  BY DEF OptionsSound, PoolWrites

LEMMA SizeChanges ==
  ASSUME NEW f \in [Users -> Nat], NEW g \in [Users -> Nat], NEW u \in Users,
         \A v \in Users : v # u => g[v] = f[v]
  PROVE  Sum(g, Users) = Sum(f, Users) - f[u] + g[u]
  BY PlatformAssumption, SumUpdate

LEMMA SizeAtMost ==
  ASSUME NEW f \in [Users -> Nat], NEW u \in Users
  PROVE  Sum(f, Users) \in Nat /\ f[u] <= Sum(f, Users)
<1>1. IsFiniteSet(Users \ {u})
  BY PlatformAssumption, FS_Subset
<1>2. Sum(f, Users) \in Nat /\ Sum(f, Users \ {u}) \in Nat
  BY <1>1, PlatformAssumption, SumNat
<1>3. Sum(f, Users) = f[u] + Sum(f, Users \ {u})
  BY PlatformAssumption, SumRemove
<1> QED
  BY <1>2, <1>3

LEMMA OptionsStep == ASSUME OptionsSound, Options!Next PROVE OptionsSound'
<1>1. /\ OptionsFields \subseteq DOMAIN db /\ SeriesFields \subseteq DOMAIN db.series
      /\ db.seen.call = db.series.call
  BY DEF OptionsSound
<1>2. PICK coll, locked, size, price :
        /\ coll = db.series.coll /\ locked = db.series.locked /\ size = db.size
        /\ price = db.series.price
  OBVIOUS
<1>3. ~db.series.call => PutsSound(coll, locked, size, price)
  BY <1>2 DEF OptionsSound
<1>4. \A s \in Options!Loaded : s.call = db.series.call
  BY <1>1 DEF Options!Loaded, Options!Load
<1>5. CASE Options!LoadSeries
  <2>1. PoolWrites(coll, locked, size, price)
    BY <1>1, <1>2, <1>5 DEF Options!LoadSeries, Options!Load, PoolWrites, OptionsFields
  <2> QED
    BY <1>3, <2>1, OptionsMoves
<1>6. ASSUME \/ Options!Expire
             \/ \E mark : Options!RefreshMarkPrice(mark)
             \/ \E s, mark, due, status : Options!UpdateSeries(s, mark, due, status)
             \/ \E s : Options!DeleteSeries(s)
      PROVE  OptionsSound'
  <2>1. \/ \E due : db' = [db EXCEPT !.series.due = due]
        \/ \E mark : db' = [db EXCEPT !.series.mark = mark]
        \/ \E mark, due, status :
              db' = [db EXCEPT !.series.mark = mark, !.series.due = due, !.series.status = status]
        \/ \E status : db' = [db EXCEPT !.series.status = status]
    BY <1>6 DEF Options!Expire, Options!RefreshMarkPrice, Options!UpdateSeries, Options!DeleteSeries
  <2>2. PICK series :
          /\ db' = [db EXCEPT !.series = series] /\ SeriesFields \subseteq DOMAIN series
          /\ series.call = db.series.call /\ series.coll = coll /\ series.locked = locked
          /\ series.price = price
    <3>1. CASE \E due : db' = [db EXCEPT !.series.due = due]
      BY <1>1, <1>2, <3>1 DEF SeriesFields
    <3>2. CASE \E mark : db' = [db EXCEPT !.series.mark = mark]
      BY <1>1, <1>2, <3>2 DEF SeriesFields
    <3>3. CASE \E mark, due, status :
              db' = [db EXCEPT !.series.mark = mark, !.series.due = due, !.series.status = status]
      <4>1. PICK mark, due, status, series :
              /\ db' = [db EXCEPT !.series.mark = mark, !.series.due = due, !.series.status = status]
              /\ series = [db.series EXCEPT !.mark = mark, !.due = due, !.status = status]
        BY <3>3
      <4>2. db' = [db EXCEPT !.series = series]
        BY <1>1, <4>1 DEF OptionsFields
      <4> QED
        BY <1>1, <1>2, <4>1, <4>2 DEF SeriesFields
    <3>4. CASE \E status : db' = [db EXCEPT !.series.status = status]
      BY <1>1, <1>2, <3>4 DEF SeriesFields
    <3> QED
      BY <2>1, <3>1, <3>2, <3>3, <3>4
  <2>3. PoolWrites(coll, locked, size, price)
    BY <1>1, <1>2, <2>2 DEF PoolWrites, OptionsFields
  <2> QED
    BY <1>3, <2>3, OptionsMoves
<1>7. ASSUME NEW s, NEW p \in {1, 3}, Options!SettleSeries(s, p) PROVE OptionsSound'
  <2>1. PoolWrites(coll, locked, size, p)
    BY <1>1, <1>2, <1>7 DEF Options!SettleSeries, PoolWrites, OptionsFields, SeriesFields
  <2>2. ~db.series.call => PutsSound(coll, locked, size, p)
    BY <1>3 DEF PutsSound
  <2> QED
    BY <2>1, <2>2, OptionsMoves
<1>8. ASSUME NEW u, NEW s, NEW x \in {2}, Options!AddCollateral(u, s, x) PROVE OptionsSound'
  <2>1. PoolWrites(coll + x, locked, size, price)
    BY <1>1, <1>2, <1>8 DEF Options!AddCollateral, PoolWrites, OptionsFields, SeriesFields
  <2>2. ~db.series.call => PutsSound(coll + x, locked, size, price)
    <3>1. \A t \in Int : 2 * t <= locked => 2 * t <= locked
      OBVIOUS
    <3> QED
      BY <1>3 DEF PutsSound
  <2> QED
    BY <2>1, <2>2, OptionsMoves
<1>9. ASSUME NEW u, NEW s, NEW x \in {2},
             Options!RemoveCollateral(u, s, x) \/ Options!WithdrawLiquidity(u, s, x)
      PROVE  OptionsSound'
  <2>1. Options!TakeOut(u, x)
    BY <1>9 DEF Options!RemoveCollateral, Options!WithdrawLiquidity
  <2>2. PoolWrites(coll - x, locked, size, price)
    BY <1>1, <1>2, <2>1 DEF Options!TakeOut, PoolWrites, OptionsFields, SeriesFields
  <2>3. coll \in Nat /\ locked \in Nat => x <= coll - locked
    BY <1>2, <2>1, MaxOfTwo DEF Options!TakeOut, Options!Free, Options!Max, Max
  <2>4. ~db.series.call => PutsSound(coll - x, locked, size, price)
    BY <1>3, <2>3 DEF PutsSound
  <2> QED
    BY <2>2, <2>4, OptionsMoves
<1>10. ASSUME NEW u \in Users, NEW s \in Options!Loaded, NEW n \in {1}, NEW premium \in {1},
              Options!Buy(u, s, n, premium)
       PROVE  OptionsSound'
  <2>1. PICK size1 : size1 = [size EXCEPT ![u] = @ + n]
    OBVIOUS
  <2>2. PICK lock : lock = Options!RequiredCollateral(s, n)
    OBVIOUS
  <2>3. PoolWrites(coll + premium, locked + lock, size1, price) /\ locked + lock <= coll
    BY <1>1, <1>2, <1>10, <2>1, <2>2 DEF Options!Buy, PoolWrites, OptionsFields, SeriesFields
  <2>4. ASSUME ~db.series.call PROVE PutsSound(coll + premium, locked + lock, size1, price)
    <3>1. PutsSound(coll, locked, size, price) /\ lock = 2
      BY <1>3, <1>4, <2>2, <2>4 DEF Options!RequiredCollateral
    <3>2. PICK m \in Nat, f \in [Users -> Nat] : f = size /\ m = f[u] + 1
      BY <3>1 DEF PutsSound
    <3>3. PICK g \in [Users -> Nat] :
            g = size1 /\ g[u] = m /\ \A v \in Users : v # u => g[v] = f[v]
      BY <2>1, <3>2
    <3>4. Sum(g, Users) = Sum(f, Users) - f[u] + g[u] /\ Sum(f, Users) \in Nat
      BY <3>3, SizeChanges, SizeAtMost
    <3>5. size1 \in [Users -> Nat] /\ Sum(size1, Users) = Sum(size, Users) + 1
          /\ Sum(size, Users) \in Nat
      BY <3>2, <3>3, <3>4
    <3> QED
      BY <2>3, <3>1, <3>5 DEF PutsSound
  <2> QED
    BY <2>3, <2>4, OptionsMoves
<1>11. ASSUME NEW u \in Users, NEW s, Options!Exercise(u, s) PROVE OptionsSound'
  <2>1. PICK size1 : size1 = [size EXCEPT ![u] = 0]
    OBVIOUS
  <2>2. PICK payout, released, locked1 :
          /\ payout = Options!PayoutAt(db.series, size[u])
          /\ released = Options!Max({0, locked - Options!RequiredCollateral(db.series, size[u])})
          /\ locked1 = Options!Min({released, coll - payout})
    OBVIOUS
  <2>3. PoolWrites(coll - payout, locked1, size1, price) /\ coll - payout >= 0
    BY <1>1, <1>2, <1>11, <2>1, <2>2 DEF Options!Exercise, PoolWrites, OptionsFields, SeriesFields
  <2>4. ASSUME ~db.series.call PROVE PutsSound(coll - payout, locked1, size1, price)
    <3>1. PutsSound(coll, locked, size, price)
      BY <1>3, <2>4
    <3>2. PICK n \in Nat, f \in [Users -> Nat] : f = size /\ n = f[u]
      BY <3>1 DEF PutsSound
    <3>3. /\ size1 \in [Users -> Nat] /\ Sum(size1, Users) = Sum(size, Users) - n
          /\ Sum(size, Users) \in Nat /\ n <= Sum(size, Users)
      <4>1. PICK g \in [Users -> Nat] :
              g = size1 /\ g[u] = 0 /\ \A v \in Users : v # u => g[v] = f[v]
        BY <2>1, <3>2
      <4>2. /\ Sum(g, Users) = Sum(f, Users) - f[u] + g[u]
            /\ Sum(f, Users) \in Nat /\ f[u] <= Sum(f, Users)
        BY <4>1, SizeChanges, SizeAtMost
      <4> QED
        BY <3>2, <4>1, <4>2
    <3>4. payout \in Nat /\ payout <= 2 * n
      <4>1. payout = Options!Max({0, 2 - price}) * n
        BY <1>2, <2>2, <2>4, <3>2 DEF Options!PayoutAt
      <4>2. Options!Max({0, 2 - price}) = IF price <= 2 THEN 2 - price ELSE 0
        BY <3>1, MaxOfTwo DEF Options!Max, Max, PutsSound
      <4> QED
        BY <3>1, <4>1, <4>2 DEF PutsSound
    <3>5. released \in Nat /\ released >= locked - 2 * n /\ (released = 0 \/ released = locked - 2 * n)
      BY <2>2, <2>4, <3>1, <3>2, MaxOfTwo DEF Options!Max, Max, PutsSound, Options!RequiredCollateral
    <3>6. locked1 = IF released <= coll - payout THEN released ELSE coll - payout
      BY <2>2, <3>1, <3>4, <3>5, MinOfTwo DEF Options!Min, Min, PutsSound
    <3>7. coll \in Nat /\ locked \in Nat /\ price \in {0, 1, 3} /\ 2 * Sum(size, Users) <= locked
          /\ locked <= coll
      BY <3>1 DEF PutsSound
    <3>8. PICK t \in Nat : t = Sum(size, Users)
      BY <3>3
    <3>9. coll - payout \in Nat /\ locked1 \in Nat /\ locked1 <= coll - payout /\ 2 * (t - n) <= locked1
      BY <2>3, <3>3, <3>4, <3>5, <3>6, <3>7, <3>8
    <3> QED
      BY <3>3, <3>7, <3>8, <3>9 DEF PutsSound
  <2> QED
    BY <2>3, <2>4, OptionsMoves
<1> QED
  BY <1>5, <1>6, <1>7, <1>8, <1>9, <1>10, <1>11 DEF Options!Next

LEMMA OptionsCovered == OptionsSound => Options!PutsCovered
<1> SUFFICES ASSUME OptionsSound, ~db.series.call PROVE 2 * Options!Total(db.size) <= db.series.coll
  BY DEF Options!PutsCovered
<1>1. PutsSound(db.series.coll, db.series.locked, db.size, db.series.price)
  BY DEF OptionsSound
<1>2. Options!Total(db.size) = Sum(db.size, Users) /\ Sum(db.size, Users) \in Int
  BY <1>1, PlatformAssumption, SumNat, OptionsTotal DEF PutsSound
<1> QED
  BY <1>1, <1>2 DEF PutsSound

----
(* NFT.  A token is with a user or with the one active listing of it.        *)
TokenRow == [owner : Users \cup {"escrow"}, escrow : Ids \cup {"nothing"}]
ListingFields == {"token", "seller", "price", "rate", "late", "status"}
NFTFields == {"coll", "supply", "token", "listing", "offer", "rate", "bal", "seen"}

TokensSound(token, listing) ==
    /\ \A id \in DOMAIN token :
          token[id] \in TokenRow /\ (token[id].owner = "escrow" <=> token[id].escrow # "nothing")
    /\ \A l \in DOMAIN listing :
          /\ l \in Ids /\ ListingFields \subseteq DOMAIN listing[l]
          /\ listing[l].token \in DOMAIN token /\ listing[l].seller \in Users
          /\ (listing[l].status = "active" <=> token[listing[l].token].escrow = l)
    /\ \A id \in DOMAIN token : token[id].escrow # "nothing" =>
          token[id].escrow \in DOMAIN listing /\ listing[token[id].escrow].token = id

OffersSound(offer) ==
    \A o \in DOMAIN offer : /\ {"token", "buyer", "price", "rate", "late", "status"} \subseteq DOMAIN offer[o]
                            /\ offer[o].buyer \in Users

NFTSound ==
    /\ NFTFields \subseteq DOMAIN db
    /\ TokensSound(db.token, db.listing) /\ OffersSound(db.offer)

LEMMA NFTInit == NFT!Init => NFTSound
<1> SUFFICES ASSUME NEW status, NEW d, d = NFT!CreateCollection(status),
                    db = [x \in DOMAIN d \cup {"seen"} |-> IF x = "seen" THEN NFT!Load(d) ELSE d[x]]
             PROVE  NFTSound
  BY DEF NFT!Init
<1>1. /\ NFTFields \subseteq DOMAIN d \cup {"seen"} /\ {"token", "listing", "offer"} \subseteq DOMAIN d
      /\ d.token = <<>> /\ d.listing = <<>> /\ d.offer = <<>>
  BY DEF NFT!CreateCollection, NFTFields
<1>2. NFTFields \subseteq DOMAIN db /\ db.token = <<>> /\ db.listing = <<>> /\ db.offer = <<>>
  BY <1>1
<1> QED
  BY <1>2 DEF NFTSound, TokensSound, OffersSound

(* What an operation does to the tables of tokens, listings and offers.      *)
NFTWrites(token, listing, offer) ==
    NFTFields \subseteq DOMAIN db' /\ db'.token = token /\ db'.listing = listing /\ db'.offer = offer

LEMMA NFTMoves ==
  ASSUME NEW token, NEW listing, NEW offer, NFTWrites(token, listing, offer),
         TokensSound(token, listing), OffersSound(offer)
  PROVE  NFTSound'
  BY DEF NFTSound, NFTWrites

(* A token leaves the escrow as its listing ends.                            *)
LEMMA ListingEnds ==
  ASSUME NEW token, NEW listing, TokensSound(token, listing), NEW l \in DOMAIN listing,
         listing[l].status = "active", NEW u \in Users, NEW status \in {"sold", "canceled"}
  PROVE  TokensSound([token EXCEPT ![listing[l].token] = [owner |-> u, escrow |-> "nothing"]],
                     [listing EXCEPT ![l].status = status])
<1> DEFINE id == listing[l].token
           row == [owner |-> u, escrow |-> "nothing"]
           token1 == [token EXCEPT ![id] = row]
           listing1 == [listing EXCEPT ![l].status = status]
<1>1. id \in DOMAIN token /\ token[id].escrow = l /\ l \in Ids /\ l # "nothing"
  BY PlatformAssumption DEF TokensSound
<1>2. row \in TokenRow /\ row.owner # "escrow"
  BY PlatformAssumption DEF TokenRow
<1>3. /\ DOMAIN token1 = DOMAIN token /\ token1[id] = row
      /\ \A i \in DOMAIN token \ {id} : token1[i] = token[i]
  BY <1>1
<1>4. /\ DOMAIN listing1 = DOMAIN listing /\ DOMAIN listing1[l] = DOMAIN listing[l]
      /\ listing1[l].status = status /\ listing1[l].token = id /\ listing1[l].seller = listing[l].seller
      /\ \A k \in DOMAIN listing \ {l} : listing1[k] = listing[k]
  BY DEF TokensSound, ListingFields
<1> HIDE DEF row, token1, listing1
<1>5. \A i \in DOMAIN token1 :
          token1[i] \in TokenRow /\ (token1[i].owner = "escrow" <=> token1[i].escrow # "nothing")
  BY <1>2, <1>3 DEF TokensSound, row
<1>6. ASSUME NEW k \in DOMAIN listing1
      PROVE  /\ k \in Ids /\ ListingFields \subseteq DOMAIN listing1[k]
             /\ listing1[k].token \in DOMAIN token1 /\ listing1[k].seller \in Users
             /\ (listing1[k].status = "active" <=> token1[listing1[k].token].escrow = k)
  <2>1. CASE k = l
    BY <1>1, <1>3, <1>4, <2>1 DEF TokensSound, row
  <2>2. CASE k # l
    <3>1. listing1[k] = listing[k] /\ k \in DOMAIN listing
      BY <1>4, <1>6, <2>2
    <3>2. listing[k].token = id => token[id].escrow # k /\ k # "nothing"
      BY <1>1, <2>2, <3>1, PlatformAssumption DEF TokensSound
    <3> QED
      BY <1>1, <1>3, <3>1, <3>2 DEF TokensSound, row
  <2> QED
    BY <2>1, <2>2
<1>7. ASSUME NEW i \in DOMAIN token1, token1[i].escrow # "nothing"
      PROVE  token1[i].escrow \in DOMAIN listing1 /\ listing1[token1[i].escrow].token = i
  BY <1>1, <1>3, <1>4, <1>7 DEF TokensSound, row
<1> QED
  BY <1>5, <1>6, <1>7 DEF TokensSound, row, token1, listing1

LEMMA NFTStep == ASSUME NFTSound, NFT!Next PROVE NFTSound'
<1>1. /\ NFTFields \subseteq DOMAIN db /\ TokensSound(db.token, db.listing) /\ OffersSound(db.offer)
  BY DEF NFTSound
<1>2. PICK token, listing, offer : token = db.token /\ listing = db.listing /\ offer = db.offer
  OBVIOUS
<1>3. TokensSound(token, listing) /\ OffersSound(offer)
  BY <1>1, <1>2
<1>4. ASSUME NFTWrites(token, listing, offer) PROVE NFTSound'
  BY <1>3, <1>4, NFTMoves
<1>5. ASSUME \/ NFT!LoadRows
             \/ \E status : NFT!UpdateCollection(status)
             \/ \E r : NFT!SetFeeBps(r)
             \/ \E s : NFT!DeleteCollection(s)
      PROVE  NFTSound'
  <2>1. \/ \E seen : db' = [db EXCEPT !.seen = seen]
        \/ \E coll : db' = [db EXCEPT !.coll = coll]
        \/ \E rate : db' = [db EXCEPT !.rate = rate]
    BY <1>5 DEF NFT!LoadRows, NFT!UpdateCollection, NFT!SetFeeBps, NFT!DeleteCollection
  <2>2. NFTWrites(token, listing, offer)
    BY <1>1, <1>2, <2>1 DEF NFTWrites, NFTFields
  <2> QED
    BY <1>4, <2>2
<1>6. CASE NFT!Expire
  <2>1. CASE \E l \in DOMAIN db.listing : db' = [db EXCEPT !.listing[l].late = TRUE]
    <3>1. PICK l \in DOMAIN listing : db' = [db EXCEPT !.listing[l].late = TRUE]
      BY <1>2, <2>1
    <3>2. PICK listing1 : listing1 = [listing EXCEPT ![l].late = TRUE]
      OBVIOUS
    <3>3. NFTWrites(token, listing1, offer)
      BY <1>1, <1>2, <3>1, <3>2 DEF NFTWrites, NFTFields
    <3>4. TokensSound(token, listing1)
      BY <1>3, <3>2 DEF TokensSound, ListingFields
    <3> QED
      BY <1>3, <3>3, <3>4, NFTMoves
  <2>2. CASE \E o \in DOMAIN db.offer : db' = [db EXCEPT !.offer[o].late = TRUE]
    <3>1. PICK o \in DOMAIN offer : db' = [db EXCEPT !.offer[o].late = TRUE]
      BY <1>2, <2>2
    <3>2. PICK offer1 : offer1 = [offer EXCEPT ![o].late = TRUE]
      OBVIOUS
    <3>3. NFTWrites(token, listing, offer1)
      BY <1>1, <1>2, <3>1, <3>2 DEF NFTWrites, NFTFields
    <3>4. OffersSound(offer1)
      BY <1>3, <3>2 DEF OffersSound
    <3> QED
      BY <1>3, <3>3, <3>4, NFTMoves
  <2> QED
    BY <1>6, <2>1, <2>2 DEF NFT!Expire
<1>7. ASSUME NEW u \in Users, NEW id \in {1}, NFT!Mint(u, id) PROVE NFTSound'
  <2>1. PICK row \in TokenRow : row = [owner |-> u, escrow |-> "nothing"]
    BY DEF TokenRow
  <2>2. PICK token1 : token1 = NFT!Put(token, id, row)
    OBVIOUS
  <2>3. id \notin DOMAIN token /\ NFTWrites(token1, listing, offer)
    BY <1>1, <1>2, <1>7, <2>1, <2>2 DEF NFT!Mint, NFT!Nothing, NFTWrites, NFTFields
  <2>4. /\ DOMAIN token1 = DOMAIN token \cup {id} /\ token1[id] = row
        /\ \A i \in DOMAIN token : token1[i] = token[i]
    BY <2>2, <2>3 DEF NFT!Put
  <2>5. row.owner # "escrow" /\ row.escrow = "nothing"
    BY <2>1, PlatformAssumption
  <2>6. TokensSound(token1, listing)
    BY <1>3, <2>3, <2>4, <2>5 DEF TokensSound
  <2> QED
    BY <1>3, <2>3, <2>6, NFTMoves
<1>8. ASSUME NEW u \in Users, NEW s, NEW l \in Ids, NEW id, NEW price, NFT!ListNFT(u, s, l, id, price)
      PROVE  NFTSound'
  <2>1. PICK row \in TokenRow : row = [owner |-> "escrow", escrow |-> l]
    BY DEF TokenRow
  <2>2. PICK ad : ad = [token |-> id, seller |-> u, price |-> price, rate |-> db.rate,
                        late |-> FALSE, status |-> "active"]
    OBVIOUS
  <2>3. PICK token1, listing1 : token1 = [token EXCEPT ![id] = row] /\ listing1 = NFT!Put(listing, l, ad)
    OBVIOUS
  <2>4. /\ id \in DOMAIN token /\ l \notin DOMAIN listing /\ token[id].escrow = "nothing"
        /\ NFTWrites(token1, listing1, offer)
    BY <1>1, <1>2, <1>8, <2>1, <2>2, <2>3 DEF NFT!ListNFT, NFT!MayList, NFT!Nothing, NFT!Escrow,
       NFTWrites, NFTFields
  <2>5. /\ DOMAIN token1 = DOMAIN token /\ token1[id] = row /\ l # "nothing"
        /\ \A i \in DOMAIN token \ {id} : token1[i] = token[i]
    BY <2>3, <2>4, PlatformAssumption
  <2>6. /\ DOMAIN listing1 = DOMAIN listing \cup {l} /\ listing1[l] = ad
        /\ \A k \in DOMAIN listing : listing1[k] = listing[k]
    BY <2>3, <2>4 DEF NFT!Put
  <2>7. /\ ListingFields \subseteq DOMAIN ad /\ ad.token = id /\ ad.seller = u /\ ad.status = "active"
        /\ row.owner = "escrow" /\ row.escrow = l
    BY <2>1, <2>2 DEF ListingFields
  <2>8. \A i \in DOMAIN token1 :
           token1[i] \in TokenRow /\ (token1[i].owner = "escrow" <=> token1[i].escrow # "nothing")
    BY <1>3, <2>1, <2>5, <2>7 DEF TokensSound
  <2>9. ASSUME NEW k \in DOMAIN listing1
        PROVE  /\ k \in Ids /\ ListingFields \subseteq DOMAIN listing1[k]
               /\ listing1[k].token \in DOMAIN token1 /\ listing1[k].seller \in Users
               /\ (listing1[k].status = "active" <=> token1[listing1[k].token].escrow = k)
    <3>1. CASE k = l
      BY <2>4, <2>5, <2>6, <2>7, <3>1
    <3>2. CASE k # l
      <4>1. k \in DOMAIN listing /\ listing1[k] = listing[k] /\ k \in Ids /\ k # "nothing"
        BY <1>3, <2>6, <3>2, PlatformAssumption DEF TokensSound
      <4> QED
        BY <1>3, <2>4, <2>5, <2>7, <3>2, <4>1 DEF TokensSound
    <3> QED
      BY <3>1, <3>2
  <2>10. ASSUME NEW i \in DOMAIN token1, token1[i].escrow # "nothing"
         PROVE  token1[i].escrow \in DOMAIN listing1 /\ listing1[token1[i].escrow].token = i
    BY <1>3, <2>5, <2>6, <2>7, <2>10 DEF TokensSound
  <2>11. TokensSound(token1, listing1)
    BY <2>8, <2>9, <2>10 DEF TokensSound
  <2> QED
    BY <1>3, <2>4, <2>11, NFTMoves
<1>9. ASSUME NEW l \in DOMAIN db.listing,
             NFT!CancelListing(l) \/ \E u \in Users : NFT!BuyNFT(u, l)
      PROVE  NFTSound'
  <2>1. l \in DOMAIN listing /\ listing[l].seller \in Users /\ listing[l].status = "active"
    BY <1>2, <1>3, <1>9 DEF NFT!CancelListing, NFT!BuyNFT, TokensSound
  <2>2. ASSUME NEW u \in Users, NEW status \in {"sold", "canceled"}, NEW token1, NEW listing1,
               token1 = [token EXCEPT ![listing[l].token] = [owner |-> u, escrow |-> "nothing"]],
               listing1 = [listing EXCEPT ![l].status = status],
               NFTWrites(token1, listing1, offer)
        PROVE  NFTSound'
    <3>1. TokensSound(token1, listing1)
      BY <1>3, <2>1, <2>2, ListingEnds
    <3> QED
      BY <1>3, <2>2, <3>1, NFTMoves
  <2>3. CASE NFT!CancelListing(l)
    <3>3. PICK u \in Users : u = listing[l].seller
      BY <2>1
    <3>1. PICK token1, listing1 :
            /\ token1 = [token EXCEPT ![listing[l].token] = [owner |-> u, escrow |-> "nothing"]]
            /\ listing1 = [listing EXCEPT ![l].status = "canceled"]
      OBVIOUS
    <3>2. NFTWrites(token1, listing1, offer)
      BY <1>1, <1>2, <2>3, <3>1, <3>3 DEF NFT!CancelListing, NFT!Nothing, NFTWrites, NFTFields
    <3> QED
      BY <2>2, <3>1, <3>2
  <2>4. ASSUME NEW u \in Users, NFT!BuyNFT(u, l) PROVE NFTSound'
    <3>1. PICK token1, listing1 :
            /\ token1 = [token EXCEPT ![listing[l].token] = [owner |-> u, escrow |-> "nothing"]]
            /\ listing1 = [listing EXCEPT ![l].status = "sold"]
      OBVIOUS
    <3>2. NFTWrites(token1, listing1, offer)
      BY <1>1, <1>2, <2>4, <3>1 DEF NFT!BuyNFT, NFT!Nothing, NFTWrites, NFTFields
    <3> QED
      BY <2>2, <3>1, <3>2
  <2> QED
    BY <1>9, <2>3, <2>4
<1>10. ASSUME NEW s, NEW l, NEW price, NFT!UpdateListingPrice(s, l, price) PROVE NFTSound'
  <2>1. PICK listing1 : listing1 = [listing EXCEPT ![l] = [@ EXCEPT !.price = price, !.late = FALSE]]
    OBVIOUS
  <2>2. NFTWrites(token, listing1, offer)
    BY <1>1, <1>2, <1>10, <2>1 DEF NFT!UpdateListingPrice, NFTWrites, NFTFields
  <2>3. TokensSound(token, listing1)
    BY <1>3, <2>1 DEF TokensSound, ListingFields
  <2> QED
    BY <1>3, <2>2, <2>3, NFTMoves
<1>11. ASSUME NEW u \in Users, NEW s, NEW o, NEW id, NEW price, NFT!MakeOffer(u, s, o, id, price)
       PROVE  NFTSound'
  <2>1. PICK bid : bid = [token |-> id, buyer |-> u, price |-> price, rate |-> db.rate,
                          late |-> FALSE, status |-> "active"]
    OBVIOUS
  <2>2. PICK offer1 : offer1 = NFT!Put(offer, o, bid)
    OBVIOUS
  <2>3. NFTWrites(token, listing, offer1)
    BY <1>1, <1>2, <1>11, <2>1, <2>2 DEF NFT!MakeOffer, NFTWrites, NFTFields
  <2>4. OffersSound(offer1)
    BY <1>3, <2>1, <2>2 DEF OffersSound, NFT!Put
  <2> QED
    BY <1>3, <2>3, <2>4, NFTMoves
<1>12. ASSUME NEW u \in Users, NEW o \in DOMAIN db.offer, NFT!AcceptOffer(u, o) PROVE NFTSound'
  <2>1. PICK id, buyer : id = offer[o].token /\ buyer = offer[o].buyer
    OBVIOUS
  <2>2. o \in DOMAIN offer /\ token[id] = [owner |-> u, escrow |-> "nothing"] /\ buyer \in Users
    BY <1>2, <1>3, <1>12, <2>1 DEF NFT!AcceptOffer, NFT!Nothing, OffersSound
  <2>3. PICK token1, offer1 : /\ token1 = [token EXCEPT ![id].owner = buyer]
                              /\ offer1 = [offer EXCEPT ![o].status = "sold"]
    OBVIOUS
  <2>4. NFTWrites(token1, listing, offer1)
    BY <1>1, <1>2, <1>12, <2>1, <2>3 DEF NFT!AcceptOffer, NFTWrites, NFTFields
  <2>5. OffersSound(offer1)
    BY <1>3, <2>3 DEF OffersSound
  <2>6. /\ DOMAIN token1 = DOMAIN token /\ \A i \in DOMAIN token \ {id} : token1[i] = token[i]
        /\ (id \in DOMAIN token => token1[id] = [owner |-> buyer, escrow |-> "nothing"])
    BY <2>2, <2>3
  <2>7. [owner |-> buyer, escrow |-> "nothing"] \in TokenRow /\ buyer # "escrow"
    BY <2>2, PlatformAssumption DEF TokenRow
  <2>8. TokensSound(token1, listing)
    BY <1>3, <2>2, <2>6, <2>7 DEF TokensSound
  <2> QED
    BY <2>4, <2>5, <2>8, NFTMoves
<1>13. ASSUME NEW o \in DOMAIN db.offer, NFT!CancelOffer(o) PROVE NFTSound'
  <2>1. PICK offer1 : offer1 = [offer EXCEPT ![o].status = "canceled"]
    OBVIOUS
  <2>2. NFTWrites(token, listing, offer1)
    BY <1>1, <1>2, <1>13, <2>1 DEF NFT!CancelOffer, NFTWrites, NFTFields
  <2>3. OffersSound(offer1)
    BY <1>2, <1>3, <2>1 DEF OffersSound
  <2> QED
    BY <1>3, <2>2, <2>3, NFTMoves
<1> QED
  BY <1>5, <1>6, <1>7, <1>8, <1>9, <1>10, <1>11, <1>12, <1>13 DEF NFT!Next

LEMMA NFTCustody == NFTSound => NFT!OneCustodian
  BY DEF NFTSound, TokensSound, NFT!OneCustodian, NFT!Escrow, NFT!Nothing

----
(* Airdrop.  As long as no allocations were replaced after a claim, the      *)
(* claims paid to a user are those his allocation shows.                     *)
AirdropFields == {"there", "status", "window", "alloc", "funded", "claimed", "bal", "times",
                  "raced", "seen"}

AirdropSound ==
    /\ AirdropFields \subseteq DOMAIN db
    /\ db.times \in [Users -> Nat]
    /\ \A u \in DOMAIN db.alloc : {"amount", "claimed"} \subseteq DOMAIN db.alloc[u]
    /\ (~db.raced => \A u \in Users :
          /\ db.times[u] <= 1
          /\ (db.there /\ ~(u \in DOMAIN db.alloc /\ db.alloc[u].claimed) => db.times[u] = 0))

LEMMA AirdropInit == Airdrop!Init => AirdropSound
<1> SUFFICES ASSUME NEW window \in BOOLEAN, NEW d,
                    d = Airdrop!CreateCampaign(window),
                    db = [x \in DOMAIN d \cup {"seen"} |-> IF x = "seen" THEN Airdrop!Load(d) ELSE d[x]]
             PROVE  AirdropSound
  BY DEF Airdrop!Init
<1>1. /\ AirdropFields \subseteq DOMAIN d \cup {"seen"}
      /\ {"times", "alloc"} \subseteq DOMAIN d
      /\ d.times = [u \in Users |-> 0] /\ d.alloc = <<>>
  BY DEF Airdrop!CreateCampaign, AirdropFields
<1>2. AirdropFields \subseteq DOMAIN db /\ db.times = [u \in Users |-> 0] /\ db.alloc = <<>>
  BY <1>1
<1> QED
  BY <1>2 DEF AirdropSound

LEMMA AirdropStep == ASSUME AirdropSound, Airdrop!Next PROVE AirdropSound'
<1>1. AirdropFields \subseteq DOMAIN db /\ db.times \in [Users -> Nat]
  BY DEF AirdropSound
<1>2. CASE Airdrop!LoadRows
  BY <1>2 DEF Airdrop!LoadRows, AirdropSound, AirdropFields
<1>3. ASSUME NEW status, NEW w, Airdrop!UpdateCampaign(status, w) PROVE AirdropSound'
  BY <1>3 DEF Airdrop!UpdateCampaign, AirdropSound, AirdropFields
<1>4. ASSUME NEW u \in Users, NEW x, Airdrop!FundCampaign(u, x) PROVE AirdropSound'
  BY <1>4 DEF Airdrop!FundCampaign, AirdropSound, AirdropFields
<1>5. ASSUME NEW s, NEW new, Airdrop!SetAllocations(s, new) PROVE AirdropSound'
  <2>1. PICK alloc : alloc = [u \in DOMAIN new |-> [amount |-> new[u], claimed |-> FALSE]]
    OBVIOUS
  <2>2. PICK taken : taken = \E u \in DOMAIN db.alloc : db.alloc[u].claimed
    OBVIOUS
  <2>3. Airdrop!Load(db).taken = taken
    BY <2>2 DEF Airdrop!Load
  <2>4. db.there /\ db' = [db EXCEPT !.alloc = alloc, !.raced = @ \/ taken]
    BY <1>5, <2>1, <2>3 DEF Airdrop!SetAllocations
  <2>5. /\ AirdropFields \subseteq DOMAIN db' /\ db'.times = db.times /\ db'.there = db.there
        /\ db'.alloc = alloc /\ db'.raced = (db.raced \/ taken)
    BY <1>1, <2>4 DEF AirdropFields
  <2>6. \A u \in DOMAIN alloc : {"amount", "claimed"} \subseteq DOMAIN alloc[u] /\ ~alloc[u].claimed
    BY <2>1
  <2>7. ASSUME ~db'.raced, NEW u \in Users PROVE db.times[u] = 0
    BY <2>2, <2>4, <2>5, <2>7 DEF AirdropSound
  <2> QED
    BY <1>1, <2>5, <2>6, <2>7 DEF AirdropSound
<1>6. ASSUME NEW s, Airdrop!DeleteCampaign(s) PROVE AirdropSound'
  <2>1. CASE db' = [db EXCEPT !.status = "closed"]
    BY <2>1 DEF AirdropSound, AirdropFields
  <2>2. CASE db' = [db EXCEPT !.alloc = <<>>, !.there = FALSE]
    BY <2>2 DEF AirdropSound, AirdropFields
  <2> QED
    BY <1>6, <2>1, <2>2 DEF Airdrop!DeleteCampaign
<1>7. ASSUME NEW u \in Users, NEW s, Airdrop!ClaimAirdrop(u, s) PROVE AirdropSound'
  <2>1. /\ db.there /\ u \in DOMAIN db.alloc /\ ~db.alloc[u].claimed
        /\ \E claimed, bal : db' = [db EXCEPT !.alloc[u].claimed = TRUE, !.claimed = claimed,
                                              !.bal = bal, !.times[u] = @ + 1]
    BY <1>7 DEF Airdrop!ClaimAirdrop, Airdrop!Payable
  <2>2. PICK alloc : alloc = [db.alloc EXCEPT ![u].claimed = TRUE]
    OBVIOUS
  <2>3. PICK times \in [Users -> Nat] : times = [db.times EXCEPT ![u] = @ + 1]
    <3>1. PICK n \in Nat : n = db.times[u] + 1
      BY <1>1
    <3>2. [db.times EXCEPT ![u] = n] \in [Users -> Nat]
      BY <1>1
    <3> QED
      BY <3>1, <3>2
  <2>4. /\ AirdropFields \subseteq DOMAIN db' /\ db'.times = times /\ db'.there = db.there
        /\ db'.alloc = alloc /\ db'.raced = db.raced
    BY <1>1, <2>1, <2>2, <2>3 DEF AirdropFields
  <2>5. /\ DOMAIN alloc = DOMAIN db.alloc
        /\ \A v \in DOMAIN alloc : /\ {"amount", "claimed"} \subseteq DOMAIN alloc[v]
                                   /\ (v # u => alloc[v] = db.alloc[v])
        /\ alloc[u].claimed
    BY <2>1, <2>2 DEF AirdropSound
  <2>6. ~db.raced => db.times[u] = 0
    BY <2>1 DEF AirdropSound
  <2>7. times[u] = db.times[u] + 1 /\ \A v \in Users \ {u} : times[v] = db.times[v]
    BY <1>1, <2>3
  <2>8. ASSUME ~db.raced, NEW v \in Users
        PROVE  /\ times[v] <= 1
               /\ (db.there /\ ~(v \in DOMAIN alloc /\ alloc[v].claimed) => times[v] = 0)
    BY <2>1, <2>5, <2>6, <2>7, <2>8 DEF AirdropSound
  <2> QED
    BY <2>3, <2>4, <2>5, <2>8 DEF AirdropSound
<1> QED
  BY <1>2, <1>3, <1>4, <1>5, <1>6, <1>7 DEF Airdrop!Next

ClaimsIInv ==
    /\ service \in Services
    /\ (service = "options" => OptionsSound)
    /\ (service = "nft" => NFTSound)
    /\ (service = "airdrop" => AirdropSound)

(* Nobody has more claims than were granted: holders of puts are covered,    *)
(* a token is with a user or with one listing, and an allocation is claimed  *)
(* once, for any number of users and any order of their requests.            *)
THEOREM PlatformClaimsBounded == Spec => []ClaimsBounded
<1>1. Init => ClaimsIInv
  BY OptionsInit, NFTInit, AirdropInit DEF Init, ClaimsIInv, Services
<1>2. ClaimsIInv /\ [Next]_<<service, db>> => ClaimsIInv'
  <2> SUFFICES ASSUME ClaimsIInv, [Next]_<<service, db>> PROVE ClaimsIInv'
    OBVIOUS
  <2>1. CASE UNCHANGED <<service, db>>
    BY <2>1 DEF ClaimsIInv, OptionsSound, NFTSound, AirdropSound
  <2>2. CASE Next
    <3>1. /\ service' = service
          /\ (service = "options" => Options!Next)
          /\ (service = "nft" => NFT!Next)
          /\ (service = "airdrop" => Airdrop!Next)
      BY <2>2 DEF Next, Step
    <3> QED
      BY <3>1, OptionsStep, NFTStep, AirdropStep DEF ClaimsIInv
  <2> QED
    BY <2>1, <2>2
<1>3. ClaimsIInv => ClaimsBounded
  <2>1. AirdropSound => Airdrop!AirdropClaimedOnce
    BY DEF AirdropSound, Airdrop!AirdropClaimedOnce
  <2> QED
    BY <2>1, OptionsCovered, NFTCustody DEF ClaimsIInv, ClaimsBounded
<1> QED
  BY <1>1, <1>2, <1>3, PTL DEF Spec

(* Steps back.  The escrow of a live order is what is left to fill.          *)
Order == [type : {"limit", "stop_loss", "twap"}, buy : BOOLEAN, amount : {5}, price : {2},
          status : {"open", "partial", "filled", "cancelled", "expired"}, filled : Nat,
          parts : Nat, late : BOOLEAN, wait : BOOLEAN, escrow : Int]

OrderSound(o) ==
    /\ o \in Order
    /\ IF o.status \in {"open", "partial"}
       THEN o.escrow = 5 - o.filled /\ (o.type = "twap" => o.filled = 2 * o.parts /\ o.parts < 2)
       ELSE o.escrow < IF o.type = "twap" THEN 2 ELSE 1

OrdersSound == {"pos", "order", "known", "read", "sent", "price"} \subseteq DOMAIN db /\ OrderSound(db.order)

LEMMA OrdersInit == Keeper!Init => OrdersSound
<1> SUFFICES ASSUME NEW type \in {"limit", "stop_loss", "twap"}, NEW buy \in BOOLEAN, NEW o,
                    o = Keeper!CreateOrder(type, buy, 5), NEW pos, NEW price,
                    db = [pos |-> pos, order |-> o, price |-> price, known |-> {}, read |-> 0, sent |-> {}]
             PROVE  OrdersSound
  BY DEF Keeper!Init
<1>1. o \in Order /\ o.status = "open" /\ o.escrow = 5 /\ o.filled = 0 /\ o.parts = 0
  BY DEF Keeper!CreateOrder, Order
<1> QED
  BY <1>1 DEF OrdersSound, OrderSound

(* A step either leaves the order and what the keeper knows of it, or is one *)
(* of those below.                                                           *)
OrderMoves ==
    /\ OrdersSound'
    /\ "order" \in db.known /\ Keeper!Live => "order" \in db'.known

LEMMA FilledOrder ==
  ASSUME NEW o, OrderSound(o), o.status \in {"open", "partial"}, NEW x, NEW status, NEW e,
         \/ x = 5 - o.filled /\ status = "filled"
         \/ /\ o.type = "twap" /\ x = (IF 5 - o.filled <= 2 THEN 5 - o.filled ELSE 2)
            /\ status = IF o.filled + x >= 5 \/ o.parts + 1 >= 2 THEN "filled" ELSE "partial",
         e = [o EXCEPT !.filled = @ + x, !.escrow = @ - x, !.status = status, !.wait = TRUE,
                       !.parts = @ + 1]
  PROVE  OrderSound(e)
<1>1. o \in Order /\ o.escrow = 5 - o.filled /\ (o.type = "twap" => o.filled = 2 * o.parts /\ o.parts < 2)
  BY DEF OrderSound
<1>2. /\ o.filled \in Nat /\ o.parts \in Nat /\ o.type \in {"limit", "stop_loss", "twap"}
      /\ (o.type = "twap" => o.filled \in {0, 2} /\ o.filled = 2 * o.parts)
  BY <1>1 DEF Order
<1>3. PICK filled \in Nat, escrow \in Int, parts \in Nat :
        /\ filled = o.filled + x /\ escrow = o.escrow - x /\ parts = o.parts + 1
        /\ escrow = 5 - filled
        /\ status \in {"filled", "partial"}
        /\ status = "filled" => escrow < IF o.type = "twap" THEN 2 ELSE 1
        /\ status = "partial" => o.type = "twap" /\ filled = 2 * parts /\ parts < 2
  BY <1>1, <1>2
<1>4. e = [o EXCEPT !.filled = filled, !.escrow = escrow, !.status = status, !.wait = TRUE, !.parts = parts]
  BY <1>3
<1>5. /\ e \in Order /\ e.type = o.type /\ e.filled = filled /\ e.escrow = escrow
      /\ e.status = status /\ e.parts = parts
  BY <1>1, <1>3, <1>4 DEF Order
<1> QED
  BY <1>3, <1>5 DEF OrderSound

LEMMA OrdersStep == ASSUME OrdersSound, Keeper!Next PROVE OrderMoves
<1>1. {"pos", "order", "known", "read", "sent", "price"} \subseteq DOMAIN db
  BY DEF OrdersSound
<1>2. PICK o : o = db.order /\ OrderSound(o)
  BY DEF OrdersSound
<1>3. o \in Order
  BY <1>2 DEF OrderSound
<1>4. Keeper!Live <=> o.status \in {"open", "partial"}
  BY <1>2 DEF Keeper!Live
<1>5. CASE Keeper!MineExecute
  <2>1. PICK x, status :
          /\ Keeper!Live
          /\ db' = [db EXCEPT !.sent = @ \ {"execute"}, !.order = Keeper!Fill(x, status)]
          /\ \/ x = 5 - o.filled /\ status = "filled"
             \/ /\ o.type = "twap" /\ x = (IF 5 - o.filled <= 2 THEN 5 - o.filled ELSE 2)
                /\ status = IF o.filled + x >= 5 \/ o.parts + 1 >= 2 THEN "filled" ELSE "partial"
    <3>1. o.filled \in Nat /\ o.parts \in Nat
      BY <1>3 DEF Order
    <3>2. Keeper!Min({5 - o.filled, 5 \div 2}) = IF 5 - o.filled <= 2 THEN 5 - o.filled ELSE 2
      BY <3>1, MinOfTwo DEF Keeper!Min, Min
    <3>3. PICK x : x = IF o.type = "twap" THEN (IF 5 - o.filled <= 2 THEN 5 - o.filled ELSE 2)
                       ELSE 5 - o.filled
      OBVIOUS
    <3>4. PICK status :
            status = IF o.filled + x >= 5 \/ (o.type = "twap" /\ o.parts + 1 >= 2) THEN "filled" ELSE "partial"
      OBVIOUS
    <3>5. Keeper!Live /\ db' = [db EXCEPT !.sent = @ \ {"execute"}, !.order = Keeper!Fill(x, status)]
      BY <1>2, <1>3, <1>5, <3>2, <3>3, <3>4 DEF Keeper!MineExecute, Order
    <3>6. \/ x = 5 - o.filled /\ status = "filled"
          \/ /\ o.type = "twap" /\ x = (IF 5 - o.filled <= 2 THEN 5 - o.filled ELSE 2)
             /\ status = IF o.filled + x >= 5 \/ o.parts + 1 >= 2 THEN "filled" ELSE "partial"
      BY <3>1, <3>3, <3>4
    <3> QED
      BY <3>5, <3>6
  <2>2. PICK e : e = [o EXCEPT !.filled = @ + x, !.escrow = @ - x, !.status = status, !.wait = TRUE,
                               !.parts = @ + 1]
    OBVIOUS
  <2>3. OrderSound(e)
    BY <1>2, <1>4, <2>1, <2>2, FilledOrder
  <2>4. db' = [db EXCEPT !.sent = @ \ {"execute"}, !.order = e]
    BY <1>2, <2>1, <2>2 DEF Keeper!Fill
  <2> QED
    BY <1>1, <2>3, <2>4 DEF OrderMoves, OrdersSound
<1>6. CASE Keeper!MineTrigger
  <2>1. PICK e : e = [o EXCEPT !.filled = @ + (5 - o.filled), !.escrow = @ - (5 - o.filled),
                               !.status = "filled", !.wait = TRUE, !.parts = @ + 1]
    OBVIOUS
  <2>2. o.status = "open" /\ o.amount = 5
    BY <1>2, <1>3, <1>6 DEF Keeper!MineTrigger, Order
  <2>3. OrderSound(e)
    BY <1>2, <2>1, <2>2, FilledOrder
  <2>4. db' = [db EXCEPT !.sent = @ \ {"trigger"}, !.order = e]
    BY <1>2, <1>6, <2>1, <2>2 DEF Keeper!MineTrigger, Keeper!Fill
  <2> QED
    BY <1>1, <2>3, <2>4 DEF OrderMoves, OrdersSound
<1>7. ASSUME NEW status \in {"cancelled", "expired"}, Keeper!CloseOrder(status) PROVE OrderMoves
  <2>1. PICK e : e = [o EXCEPT !.status = status, !.escrow = @ - (5 - o.filled)]
    OBVIOUS
  <2>2. o.escrow = 5 - o.filled /\ o.amount = 5
    BY <1>2, <1>3, <1>4, <1>7 DEF Keeper!CloseOrder, OrderSound, Order
  <2>3. /\ e \in Order /\ e.status = status /\ e.escrow = 0 /\ e.type = o.type
    <3>1. PICK rest \in Int : rest = o.escrow - (5 - o.filled) /\ rest = 0
      BY <1>3, <2>2 DEF Order
    <3>2. e = [o EXCEPT !.status = status, !.escrow = rest]
      BY <2>1, <3>1
    <3> QED
      BY <1>3, <3>1, <3>2 DEF Order
  <2>4. OrderSound(e)
    BY <2>3 DEF OrderSound
  <2>5. db' = [db EXCEPT !.order = e]
    BY <1>1, <1>2, <1>7, <2>1, <2>2 DEF Keeper!CloseOrder
  <2> QED
    BY <1>1, <2>4, <2>5 DEF OrderMoves, OrdersSound
<1>8. CASE Keeper!Wait \/ Keeper!Expire
  <2>1. PICK e : /\ db' = [db EXCEPT !.order = e]
                 /\ e = [o EXCEPT !.wait = FALSE] \/ e = [o EXCEPT !.late = TRUE]
    BY <1>2, <1>8 DEF Keeper!Wait, Keeper!Expire
  <2>2. /\ e \in Order /\ e.status = o.status /\ e.escrow = o.escrow /\ e.type = o.type
        /\ e.filled = o.filled /\ e.parts = o.parts
    BY <1>3, <2>1 DEF Order
  <2>3. OrderSound(e)
    BY <1>2, <2>2 DEF OrderSound
  <2> QED
    BY <1>1, <2>1, <2>3 DEF OrderMoves, OrdersSound
<1>9. ASSUME \/ Keeper!MineLiquidate \/ Keeper!ClosePosition \/ Keeper!OraclePrice
             \/ \E kind : Keeper!Dropped(kind)
             \/ \E price : Keeper!SetPrice(price)
             \/ Keeper!SyncPositions \/ Keeper!SyncOrders
             \/ Keeper!CheckLiquidations \/ Keeper!CheckOrders
      PROVE  OrderMoves
  <2>1. PICK known :
          /\ \/ \E sent, pos : db' = [db EXCEPT !.sent = sent, !.pos = pos]
             \/ \E pos : db' = [db EXCEPT !.pos = pos]
             \/ \E price : db' = [db EXCEPT !.read = price]
             \/ \E price : db' = [db EXCEPT !.price = price]
             \/ \E sent : db' = [db EXCEPT !.sent = sent]
             \/ db' = [db EXCEPT !.known = known]
             \/ \E sent : db' = [db EXCEPT !.sent = sent, !.known = known]
             \/ \E read : db' = [db EXCEPT !.known = known, !.read = read]
          /\ "order" \in db.known /\ Keeper!Live => "order" \in known
    <3>1. CASE \/ Keeper!MineLiquidate \/ Keeper!ClosePosition \/ Keeper!OraclePrice
               \/ \E kind : Keeper!Dropped(kind)
               \/ \E price : Keeper!SetPrice(price)
      <4>1. \/ \E sent, pos : db' = [db EXCEPT !.sent = sent, !.pos = pos]
            \/ \E pos : db' = [db EXCEPT !.pos = pos]
            \/ \E price : db' = [db EXCEPT !.read = price]
            \/ \E price : db' = [db EXCEPT !.price = price]
            \/ \E sent : db' = [db EXCEPT !.sent = sent]
        BY <3>1 DEF Keeper!MineLiquidate, Keeper!ClosePosition, Keeper!OraclePrice, Keeper!Dropped,
           Keeper!SetPrice
      <4> QED
        BY <4>1
    <3>2. CASE Keeper!SyncPositions \/ Keeper!SyncOrders
      BY <3>2 DEF Keeper!SyncPositions, Keeper!SyncOrders
    <3>3. CASE Keeper!CheckLiquidations
      BY <3>3 DEF Keeper!CheckLiquidations, Keeper!Send
    <3>4. CASE Keeper!CheckOrders
      BY <3>4 DEF Keeper!CheckOrders, Keeper!Send, Keeper!TriggerOrder, Keeper!ExecuteOrder, Keeper!Gone
    <3> QED
      BY <1>9, <3>1, <3>2, <3>3, <3>4
  <2>2. /\ {"pos", "order", "known", "read", "sent", "price"} \subseteq DOMAIN db'
        /\ db'.order = o /\ (db'.known = db.known \/ db'.known = known)
    BY <1>1, <1>2, <2>1
  <2> QED
    BY <1>2, <2>1, <2>2 DEF OrderMoves, OrdersSound
<1> QED
  BY <1>5, <1>6, <1>7, <1>8, <1>9 DEF Keeper!Next

LEMMA OrdersAreWatched == OrderMoves => Keeper!OrdersWatched
  BY DEF OrderMoves, OrdersSound, OrderSound, Order, Keeper!OrdersWatched, Keeper!Live

(* Copies: a position is in its place.                                       *)
CopySound ==
    /\ {"count", "following", "followers", "pos", "sweep", "renewed"} \subseteq DOMAIN db
    /\ DOMAIN db.pos = {"p"}

LEMMA CopyInit == Copy!Init => CopySound
  BY DEF Copy!Init, CopySound

LEMMA CopyStep == ASSUME CopySound, Copy!Next PROVE CopySound' /\ Copy!ClosedStaysClosed
<1>1. CASE Copy!UpdateCopyPositions
  BY <1>1 DEF CopySound, Copy!ClosedStaysClosed, Copy!UpdateCopyPositions, Copy!Marked, Copy!IsOpen
<1>2. ASSUME NEW p \in {"p"}, NEW row, Copy!IsOpen(p) \/ db.pos[p] = Copy!NoPosition,
             db' = [db EXCEPT !.pos[p] = row]
      PROVE  CopySound' /\ Copy!ClosedStaysClosed
  BY <1>2 DEF CopySound, Copy!ClosedStaysClosed, Copy!IsOpen, Copy!NoPosition, Copy!None
<1>3. ASSUME NEW u, NEW p \in {"p"}, Copy!CloseCopyPosition(u, p)
      PROVE  CopySound' /\ Copy!ClosedStaysClosed
  <2>1. PICK row : row = [db.pos[p] EXCEPT !.status = "closed"]
    OBVIOUS
  <2>2. db' = [db EXCEPT !.pos[p] = row]
    BY <1>3, <2>1 DEF Copy!CloseCopyPosition
  <2> QED
    BY <1>2, <1>3, <2>2 DEF Copy!CloseCopyPosition
<1>4. ASSUME NEW u, NEW t, NEW p \in {"p"}, NEW price, Copy!CopyTrade(u, t, p, price)
      PROVE  CopySound' /\ Copy!ClosedStaysClosed
  BY <1>2, <1>4 DEF Copy!CopyTrade
<1>5. ASSUME db'.pos = db.pos,
             {"count", "following", "followers", "pos", "sweep", "renewed"} \subseteq DOMAIN db'
      PROVE  CopySound' /\ Copy!ClosedStaysClosed
  BY <1>5 DEF CopySound, Copy!ClosedStaysClosed
<1>6. ASSUME \/ \E price : Copy!ReadPrices(price)
             \/ \E t : Copy!RegisterTrader(t)
             \/ \E u : Copy!StopFollowing(u)
             \/ \E u, t, ratio : Copy!StartFollowingHandler(u, t, ratio)
      PROVE  CopySound' /\ Copy!ClosedStaysClosed
  <2>1. CASE \E price : Copy!ReadPrices(price)
    BY <1>5, <2>1 DEF Copy!ReadPrices, CopySound
  <2>2. CASE \E t : Copy!RegisterTrader(t)
    BY <1>5, <2>2 DEF Copy!RegisterTrader, CopySound
  <2>3. CASE \E u : Copy!StopFollowing(u)
    BY <1>5, <2>3 DEF Copy!StopFollowing, CopySound
  <2>4. CASE \E u, t, ratio : Copy!StartFollowingHandler(u, t, ratio)
    BY <1>5, <2>4 DEF Copy!StartFollowingHandler, Copy!StartFollowing, CopySound
  <2> QED
    BY <1>6, <2>1, <2>2, <2>3, <2>4
<1> QED
  BY <1>1, <1>3, <1>4, <1>6 DEF Copy!Next

(* Rows: an item is in its place.                                            *)
AdminSound == {"kind", "item", "settings", "request", "asked", "stale"} \subseteq DOMAIN db
              /\ DOMAIN db.item = {"token"}

LEMMA AdminInit == Admin!Init => AdminSound
  BY DEF Admin!Init, AdminSound

LEMMA AdminStep == ASSUME AdminSound, Admin!Next PROVE AdminSound' /\ Admin!RowsRetained
<1>1. ASSUME NEW i \in {"token"}, NEW status \in {"active", "inactive"},
             db' = [db EXCEPT !.item[i] = status]
      PROVE  AdminSound' /\ Admin!RowsRetained
  BY <1>1 DEF AdminSound, Admin!RowsRetained
<1>2. ASSUME NEW i \in {"token"}, Admin!CreateItem(i) \/ Admin!DeleteItem(i)
      PROVE  AdminSound' /\ Admin!RowsRetained
  BY <1>1, <1>2 DEF Admin!CreateItem, Admin!DeleteItem, Admin!Deleted
<1>3. ASSUME NEW i \in {"token"}, NEW status \in {"active", "inactive"}, Admin!UpdateItem(i, status)
      PROVE  AdminSound' /\ Admin!RowsRetained
  BY <1>1, <1>3 DEF Admin!UpdateItem
<1>4. ASSUME NEW r, NEW changes, Admin!LoadSettings(r, changes)
      PROVE  AdminSound' /\ Admin!RowsRetained
  BY <1>4 DEF Admin!LoadSettings, AdminSound, Admin!RowsRetained
<1>5. ASSUME NEW r, Admin!SaveSettings(r) PROVE AdminSound' /\ Admin!RowsRetained
  BY <1>5 DEF Admin!SaveSettings, AdminSound, Admin!RowsRetained
<1> QED
  BY <1>2, <1>3, <1>4, <1>5 DEF Admin!Next, Admin!CreateChain, Admin!CreateToken, Admin!CreatePool,
     Admin!DeleteUser, Admin!DeleteChain, Admin!DeleteToken, Admin!DeletePool, Admin!UpdateUser,
     Admin!UpdateChain, Admin!UpdateToken, Admin!UpdatePool, Admin!EnableMaintenance,
     Admin!DisableMaintenance, Admin!UpdateConfig

(* Margin: what is owed is a number, also while a liquidation is under way.  *)
MarginFields == {"coll", "principal", "interest", "due", "price", "status", "listed", "job",
                 "holds", "owes"}

MarginSound ==
    /\ MarginFields \subseteq DOMAIN db
    /\ db.principal \in Int /\ db.interest \in Int
    /\ (db.job # <<>> => 3 \in DOMAIN db.job /\ db.job[3] \in Int)

LEMMA MarginInit == Margin!Init => MarginSound
  BY DEF Margin!Init, Margin!OpenAccount, MarginSound, MarginFields

(* A step of the account either takes up no debt or checks what it takes up. *)
MarginMoves ==
    /\ MarginSound'
    /\ db'.principal <= db.principal \/ Margin!BufferKept

LEMMA LargerOfTwo ==
  ASSUME NEW y \in Int
  PROVE  Margin!Max({0, y}) = IF 0 <= y THEN y ELSE 0
  BY DEF Margin!Max

LEMMA SmallerOfTwo ==
  ASSUME NEW x \in Int, NEW y \in Int
  PROVE  Margin!Min({x, y}) = IF x <= y THEN x ELSE y
  BY DEF Margin!Min

LEMMA Repaid ==
  ASSUME MarginSound, NEW x \in Int, NEW d, d = Margin!Paid(x)
  PROVE  /\ MarginFields \subseteq DOMAIN d /\ d.job = db.job
         /\ d.principal \in Int /\ d.interest \in Int /\ d.principal <= db.principal
<1>1. MarginFields \subseteq DOMAIN db /\ db.principal \in Int /\ db.interest \in Int
  BY DEF MarginSound
<1>2. PICK i \in Int, rest \in Int, over \in Int :
        rest = db.interest - x /\ over = x - db.interest
        /\ i = Margin!Max({0, db.interest - x})
  <2>1. PICK rest \in Int, over \in Int : rest = db.interest - x /\ over = x - db.interest
    BY <1>1
  <2>2. Margin!Max({0, rest}) \in Int
    BY LargerOfTwo
  <2>3. Margin!Max({0, db.interest - x}) \in Int
    BY <2>1, <2>2
  <2> QED
    BY <2>1, <2>3
<1>4. PICK p \in Int : p = db.principal - Margin!Max({0, x - db.interest}) /\ p <= db.principal
  <2>1. PICK paid \in Int : paid = Margin!Max({0, over}) /\ 0 <= paid
    BY LargerOfTwo
  <2>2. paid = Margin!Max({0, x - db.interest})
    BY <1>2, <2>1
  <2> QED
    BY <1>1, <2>1, <2>2
<1>3. \E owes : d = [db EXCEPT !.interest = i, !.principal = p, !.owes = owes]
  BY <1>2, <1>4 DEF Margin!Paid
<1> QED
  BY <1>1, <1>2, <1>3, <1>4 DEF MarginFields

LEMMA MarginStep == ASSUME MarginSound, Margin!Next PROVE MarginMoves
<1>1. /\ MarginFields \subseteq DOMAIN db /\ db.principal \in Int /\ db.interest \in Int
      /\ (db.job # <<>> => 3 \in DOMAIN db.job /\ db.job[3] \in Int)
  BY DEF MarginSound
<1>2. ASSUME db'.principal = db.principal, db'.interest = db.interest, db'.job = db.job,
             MarginFields \subseteq DOMAIN db'
      PROVE  MarginMoves
  BY <1>1, <1>2 DEF MarginMoves, MarginSound
<1>3. \A base \in Int : Margin!Growth(base) \in Int
  BY DEF Margin!Growth, Margin!Percent
<1>4. CASE \/ Margin!Tick \/ Margin!SetListed \/ \E p : Margin!SetPrice(p)
           \/ \E x : Margin!DepositCollateral(x)
  <2>1. CASE Margin!Tick \/ Margin!SetListed
    BY <1>1, <1>2, <2>1 DEF Margin!Tick, Margin!SetListed, MarginFields
  <2>2. CASE \E p : Margin!SetPrice(p)
    BY <1>1, <1>2, <2>2 DEF Margin!SetPrice, MarginFields
  <2>3. CASE \E x : Margin!DepositCollateral(x)
    BY <1>1, <1>2, <2>3 DEF Margin!DepositCollateral, MarginFields
  <2> QED
    BY <1>4, <2>1, <2>2, <2>3
<1>5. ASSUME NEW x \in {1, 2}, Margin!Borrow(x) PROVE MarginMoves
  <2>9. PICK g \in Int : g = Margin!Growth(db.principal)
    BY <1>1, <1>3
  <2>1. PICK p \in Int, i \in Int : p = db.principal + x /\ i = db.interest + Margin!Growth(db.principal)
    BY <1>1, <2>9
  <2>2. \E owes : db' = [db EXCEPT !.principal = p, !.interest = i, !.due = FALSE, !.owes = owes]
    BY <1>5, <2>1 DEF Margin!Borrow
  <2>3. /\ MarginFields \subseteq DOMAIN db' /\ db'.principal = p /\ db'.interest = i
        /\ db'.job = db.job /\ db'.coll = db.coll /\ db'.price = db.price
    BY <1>1, <2>2 DEF MarginFields
  <2>4. MarginSound'
    BY <1>1, <2>1, <2>3 DEF MarginSound
  <2>5. ~db.due => i = db.interest
    BY <1>1, <2>1 DEF Margin!Growth
  <2>6. db.principal + db.interest + x <= Margin!Percent(db.coll * db.price, 50)
    BY <1>5 DEF Margin!Borrow, Margin!WithinLtv, Margin!Owed
  <2>7. ~db.due => p + i <= Margin!Percent(db.coll * db.price, 50)
    <3>1. ~db.due => p + i = db.principal + db.interest + x
      BY <1>1, <2>1, <2>5
    <3> QED
      BY <2>6, <3>1
  <2>8. Margin!BufferKept
    BY <2>3, <2>7 DEF Margin!BufferKept, Margin!Owed
  <2> QED
    BY <2>4, <2>8 DEF MarginMoves
<1>6. ASSUME NEW x \in {1, 2}, Margin!Repay(x) PROVE MarginMoves
  <2>1. db' = Margin!Paid(x)
    BY <1>6 DEF Margin!Repay
  <2>2. /\ MarginFields \subseteq DOMAIN db' /\ db'.job = db.job
        /\ db'.principal \in Int /\ db'.interest \in Int /\ db'.principal <= db.principal
    BY <2>1, Repaid
  <2> QED
    BY <1>1, <2>2 DEF MarginMoves, MarginSound
<1>7. PICK i \in Int : i = db.interest + Margin!Growth(Margin!Owed(db))
  <2>1. PICK owed \in Int : owed = Margin!Owed(db)
    BY <1>1 DEF Margin!Owed
  <2>2. PICK g \in Int : g = Margin!Growth(owed)
    BY <1>3
  <2> QED
    BY <1>1, <2>1, <2>2
<1>8. PICK d : /\ d = Margin!Accrued /\ MarginFields \subseteq DOMAIN d /\ d.principal = db.principal
               /\ d.interest = i /\ d.job = db.job
  <2>1. PICK owes : owes = db.owes + Margin!Growth(Margin!Owed(db))
    OBVIOUS
  <2>2. Margin!Accrued = [db EXCEPT !.interest = i, !.due = FALSE, !.owes = owes]
    BY <1>7, <2>1 DEF Margin!Accrued
  <2>3. PICK e : e = [db EXCEPT !.interest = i, !.due = FALSE, !.owes = owes]
    OBVIOUS
  <2>4. MarginFields \subseteq DOMAIN e /\ e.principal = db.principal /\ e.interest = i /\ e.job = db.job
    BY <1>1, <2>3 DEF MarginFields
  <2> QED
    BY <2>2, <2>3, <2>4
<1>9. CASE Margin!Accrue
  <2>1. db' = d
    BY <1>8, <1>9 DEF Margin!Accrue
  <2> QED
    BY <1>1, <1>7, <1>8, <2>1 DEF MarginMoves, MarginSound
<1>10. CASE Margin!Liquidate
  <2>1. PICK repay \in Int : repay = Margin!Percent(Margin!Owed(d), 50)
    BY <1>1, <1>7, <1>8 DEF Margin!Percent, Margin!Owed
  <2>2. PICK worth : db' = [d EXCEPT !.job = <<"seize", worth, repay>>]
    BY <1>8, <1>10, <2>1 DEF Margin!Liquidate
  <2>3. /\ MarginFields \subseteq DOMAIN db' /\ db'.principal = db.principal /\ db'.interest = i
        /\ db'.job = <<"seize", worth, repay>>
    BY <1>8, <2>2 DEF MarginFields
  <2> QED
    BY <1>1, <1>7, <2>1, <2>3 DEF MarginMoves, MarginSound
<1>11. CASE Margin!SeizeCollateral
  <2>1. PICK job : job = [db.job EXCEPT ![1] = "reduce"]
    OBVIOUS
  <2>2. \E coll, holds : db' = [db EXCEPT !.coll = coll, !.holds = holds, !.job[1] = "reduce"]
    BY <1>11 DEF Margin!SeizeCollateral
  <2>3. 3 \in DOMAIN job /\ job[3] \in Int
    BY <1>1, <1>11, <2>1 DEF Margin!SeizeCollateral
  <2>4. /\ MarginFields \subseteq DOMAIN db' /\ db'.principal = db.principal
        /\ db'.interest = db.interest /\ db'.job = job
    BY <1>1, <2>1, <2>2 DEF MarginFields
  <2> QED
    BY <1>1, <2>3, <2>4 DEF MarginMoves, MarginSound
<1>12. CASE Margin!ReduceDebt
  <2>1. PICK x \in Int : x = Margin!Min({db.job[3], Margin!Owed(db)})
    BY <1>1, <1>12, MinOfTwo DEF Margin!ReduceDebt, Margin!Owed, Margin!Min, Min
  <2>2. PICK left : left = Margin!Paid(x)
    OBVIOUS
  <2>3. /\ MarginFields \subseteq DOMAIN left
        /\ left.principal \in Int /\ left.interest \in Int /\ left.principal <= db.principal
    BY <2>2, Repaid
  <2>4. \E status : db' = [left EXCEPT !.job = <<>>, !.status = status]
    BY <1>12, <2>1, <2>2 DEF Margin!ReduceDebt
  <2>5. /\ MarginFields \subseteq DOMAIN db' /\ db'.principal = left.principal
        /\ db'.interest = left.interest /\ db'.job = <<>>
    BY <2>3, <2>4 DEF MarginFields
  <2> QED
    BY <2>3, <2>5 DEF MarginMoves, MarginSound
<1>13. CASE Margin!LiquidationFails
  BY <1>1, <1>13 DEF Margin!LiquidationFails, MarginMoves, MarginSound, MarginFields
<1> QED
  BY <1>4, <1>5, <1>6, <1>9, <1>10, <1>11, <1>12, <1>13 DEF Margin!Next

LEMMA BufferIsKept == MarginSound /\ MarginMoves => Margin!BufferKept
  BY DEF MarginSound, MarginMoves, Margin!BufferKept

StepIInv ==
    /\ service \in Services
    /\ (service = "margin" => MarginSound)
    /\ (service = "copy" => CopySound)
    /\ (service = "admin" => AdminSound)
    /\ (service = "keeper" => OrdersSound)

(* What is over stays over, and what counts on it is not let go: a borrow    *)
(* leaves the buffer, also between the steps of a liquidation, a closed copy *)
(* keeps its price, a deleted row stays, and the keeper forgets no order     *)
(* that can be filled.                                                       *)
THEOREM PlatformNoStepBack == Spec => NoStepBack
<1>1. Init => StepIInv
  BY MarginInit, CopyInit, AdminInit, OrdersInit DEF Init, StepIInv, Services
<1>2. StepIInv /\ [Next]_<<service, db>> => StepIInv'
  <2> SUFFICES ASSUME StepIInv, [Next]_<<service, db>> PROVE StepIInv'
    OBVIOUS
  <2>1. CASE UNCHANGED <<service, db>>
    BY <2>1 DEF StepIInv, MarginSound, CopySound, AdminSound, OrdersSound
  <2>2. CASE Next
    <3>1. /\ service' = service
          /\ (service = "margin" => Margin!Next)
          /\ (service = "copy" => Copy!Next)
          /\ (service = "admin" => Admin!Next)
          /\ (service = "keeper" => Keeper!Next)
      BY <2>2 DEF Next, Step
    <3> QED
      BY <3>1, MarginStep, CopyStep, AdminStep, OrdersStep DEF StepIInv, MarginMoves, OrderMoves
  <2> QED
    BY <2>1, <2>2
<1>3. StepIInv /\ [Next]_<<service, db>> =>
        [/\ (service = "margin" => Margin!BufferKept)
         /\ (service = "copy" => Copy!ClosedStaysClosed)
         /\ (service = "admin" => Admin!RowsRetained)
         /\ (service = "keeper" => Keeper!OrdersWatched)]_<<service, db>>
  <2> SUFFICES ASSUME StepIInv, Next
               PROVE  /\ (service = "margin" => Margin!BufferKept)
                      /\ (service = "copy" => Copy!ClosedStaysClosed)
                      /\ (service = "admin" => Admin!RowsRetained)
                      /\ (service = "keeper" => Keeper!OrdersWatched)
    OBVIOUS
  <2>1. /\ (service = "margin" => Margin!Next)
        /\ (service = "copy" => Copy!Next)
        /\ (service = "admin" => Admin!Next)
        /\ (service = "keeper" => Keeper!Next)
    BY DEF Next, Step
  <2> QED
    BY <2>1, MarginStep, BufferIsKept, CopyStep, AdminStep, OrdersStep, OrdersAreWatched DEF StepIInv
<1> QED
  BY <1>1, <1>2, <1>3, PTL DEF Spec, NoStepBack

----
(* Sequences with an element taken out.                                      *)
LEMMA TakenOut ==
  ASSUME NEW S, NEW s \in Seq(S), NEW j \in 1..Len(s)
  PROVE  /\ Copy!RemoveAt(s, j) \in Seq(S)
         /\ Len(Copy!RemoveAt(s, j)) = Len(s) - 1
         /\ \A k \in 1..(Len(s) - 1) : Copy!RemoveAt(s, j)[k] = IF k < j THEN s[k] ELSE s[k + 1]
<1> DEFINE a == SubSeq(s, 1, j - 1)
           b == SubSeq(s, j + 1, Len(s))
<1>1. a \in Seq(S) /\ Len(a) = j - 1 /\ \A k \in 1..(j - 1) : a[k] = s[k]
  OBVIOUS
<1>2. b \in Seq(S) /\ Len(b) = Len(s) - j /\ \A k \in 1..(Len(s) - j) : b[k] = s[j + k]
  OBVIOUS
<1>3. Copy!RemoveAt(s, j) = a \o b
  BY DEF Copy!RemoveAt
<1> HIDE DEF a, b
<1>4. /\ a \o b \in Seq(S) /\ Len(a \o b) = Len(a) + Len(b)
      /\ \A k \in 1..(Len(a) + Len(b)) : (a \o b)[k] = IF k <= Len(a) THEN a[k] ELSE b[k - Len(a)]
  BY <1>1, <1>2, ConcatProperties
<1>5. PICK m \in Nat : m = Len(s)
  OBVIOUS
<1>6. \A k \in 1..(m - 1) : (a \o b)[k] = IF k < j THEN s[k] ELSE s[k + 1]
  <2> TAKE k \in 1..(m - 1)
  <2>1. CASE k < j
    BY <1>1, <1>2, <1>4, <1>5, <2>1
  <2>2. CASE ~(k < j)
    <3>1. k - (j - 1) \in 1..(m - j) /\ ~(k <= j - 1) /\ j + (k - (j - 1)) = k + 1 /\ k \in 1..(j - 1 + (m - j))
      BY <1>5, <2>2
    <3>2. (a \o b)[k] = b[k - (j - 1)]
      BY <1>1, <1>2, <1>4, <1>5, <3>1
    <3>3. b[k - (j - 1)] = s[j + (k - (j - 1))]
      BY <1>2, <1>5, <3>1
    <3> QED
      BY <2>2, <3>1, <3>2, <3>3
  <2> QED
    BY <2>1, <2>2
<1> QED
  BY <1>1, <1>2, <1>3, <1>4, <1>5, <1>6

(* Taking the first of elements that are all different removes it.           *)
LEMMA FirstTakenOut ==
  ASSUME NEW S, NEW s \in Seq(S), NEW u,
         \A a, b \in 1..Len(s) : s[a] = s[b] => a = b,
         \E i \in 1..Len(s) : s[i] = u
  PROVE  LET r == Copy!RemoveFirst(s, u) IN
         /\ r \in Seq(S) /\ Len(r) = Len(s) - 1
         /\ \A a, b \in 1..Len(r) : r[a] = r[b] => a = b
         /\ \A x : (\E i \in 1..Len(r) : r[i] = x) <=> x # u /\ \E i \in 1..Len(s) : s[i] = x
<1> DEFINE I == {i \in 1..Len(s) : s[i] = u}
<1>1. PICK j \in 1..Len(s) : s[j] = u
  OBVIOUS
<1>2. I = {j}
  BY <1>1
<1>3. Copy!SelectInSeq(s, LAMBDA v : v = u) = j
  <2>1. Copy!Min({j}) = j
    BY DEF Copy!Min
  <2> QED
    BY <1>2, <2>1 DEF Copy!SelectInSeq
<1>4. Copy!RemoveFirst(s, u) = Copy!RemoveAt(s, j)
  BY <1>3 DEF Copy!RemoveFirst
<1> DEFINE r == Copy!RemoveAt(s, j)
<1>5. /\ r \in Seq(S) /\ Len(r) = Len(s) - 1
      /\ \A k \in 1..(Len(s) - 1) : r[k] = IF k < j THEN s[k] ELSE s[k + 1]
  BY TakenOut
<1> HIDE DEF r, I
<1>6. PICK m \in Nat \ {0} : m = Len(s)
  BY <1>1
<1>7. \A a, b \in 1..(m - 1) : r[a] = r[b] => a = b
  BY <1>5, <1>6
<1>8. ASSUME NEW x PROVE (\E i \in 1..(m - 1) : r[i] = x) <=> x # u /\ \E i \in 1..m : s[i] = x
  <2>1. ASSUME NEW i \in 1..(m - 1), r[i] = x PROVE x # u /\ \E k \in 1..m : s[k] = x
    <3>1. PICK k \in 1..m : k # j /\ s[k] = x
      BY <1>5, <1>6, <2>1
    <3> QED
      BY <1>1, <1>6, <3>1
  <2>2. ASSUME NEW k \in 1..m, s[k] = x, x # u PROVE \E i \in 1..(m - 1) : r[i] = x
    <3>1. k # j
      BY <1>1, <2>2
    <3>2. CASE k < j
      BY <1>5, <1>6, <2>2, <3>2
    <3>3. CASE k > j
      <4>1. k - 1 \in 1..(m - 1) /\ ~(k - 1 < j) /\ k - 1 + 1 = k
        BY <1>6, <3>3
      <4>2. r[k - 1] = s[k]
        BY <1>5, <1>6, <4>1
      <4> QED
        BY <2>2, <4>1, <4>2
    <3> QED
      BY <3>1, <3>2, <3>3
  <2> QED
    BY <2>1, <2>2
<1> QED
  BY <1>4, <1>5, <1>6, <1>7, <1>8 DEF r

(* Copies.  Each list holds the users that follow, once; a trader nobody has *)
(* registered has none.                                                      *)
InList(s, u) == \E i \in 1..Len(s) : s[i] = u
NoneTwice(s) == \A a, b \in 1..Len(s) : s[a] = s[b] => a = b

ListRight(s, following, t) ==
    /\ s \in Seq(Users) /\ NoneTwice(s)
    /\ \A u \in Users : InList(s, u) <=> following[u] = t

Follows(count, following, followers, renewed) ==
    /\ following \in [Users -> Ids \cup {"none"}] /\ DOMAIN followers = Ids
    /\ DOMAIN count \subseteq Ids
    /\ \A u \in Users : following[u] \in DOMAIN count \cup {"none"}
    /\ \A t \in Ids : ListRight(followers[t], following, t)
    /\ \A t \in DOMAIN count \ renewed : count[t] = Len(followers[t])

FollowSound ==
    /\ {"count", "following", "followers", "pos", "sweep", "renewed"} \subseteq DOMAIN db
    /\ Follows(db.count, db.following, db.followers, db.renewed)

LEMMA FollowInit == Copy!Init => FollowSound
<1> SUFFICES ASSUME Copy!Init PROVE FollowSound
  OBVIOUS
<1>1. /\ {"count", "following", "followers", "pos", "sweep", "renewed"} \subseteq DOMAIN db
      /\ db.count = <<>> /\ db.following = [u \in Users |-> "none"]
      /\ db.followers = [t \in Ids |-> <<>>] /\ db.renewed = {}
  BY DEF Copy!Init, Copy!None
<1>2. DOMAIN db.count = {}
  BY <1>1
<1>3. ASSUME NEW t \in Ids PROVE ListRight(<<>>, db.following, t)
  BY <1>1, PlatformAssumption DEF ListRight, NoneTwice, InList
<1> QED
  BY <1>1, <1>2, <1>3 DEF FollowSound, Follows

LEMMA FollowersRight == FollowSound => Copy!FollowersAgree
<1> SUFFICES ASSUME FollowSound, NEW t \in Ids
             PROVE  /\ Copy!ToSet(db.followers[t]) = {u \in Users : db.following[u] = t}
                    /\ Copy!IsInjective(db.followers[t])
                    /\ t \in DOMAIN db.count \ db.renewed => db.count[t] = Len(db.followers[t])
  BY DEF Copy!FollowersAgree, Copy!Registered
<1>1. PICK s \in Seq(Users) : s = db.followers[t]
  BY DEF FollowSound, Follows, ListRight
<1>2. NoneTwice(s) /\ \A u \in Users : InList(s, u) <=> db.following[u] = t
  BY <1>1 DEF FollowSound, Follows, ListRight
<1>3. DOMAIN s = 1..Len(s) /\ \A i \in 1..Len(s) : s[i] \in Users
  OBVIOUS
<1>4. Copy!ToSet(s) = {u \in Users : db.following[u] = t}
  BY <1>2, <1>3 DEF Copy!ToSet, InList
<1>5. Copy!IsInjective(s)
  BY <1>2, <1>3 DEF Copy!IsInjective, NoneTwice
<1> QED
  BY <1>1, <1>4, <1>5 DEF FollowSound, Follows

(* The lists follow what one user does.                                      *)
LEMMA ListJoined ==
  ASSUME NEW following \in [Users -> Ids \cup {"none"}], NEW u \in Users, following[u] = "none",
         NEW t \in Ids, NEW s, ListRight(s, following, t)
  PROVE  /\ ListRight(Append(s, u), [following EXCEPT ![u] = t], t)
         /\ Len(Append(s, u)) = Len(s) + 1
<1> DEFINE r == Append(s, u)
<1>1. PICK n \in Nat : n = Len(s) /\ s \in Seq(Users)
  BY DEF ListRight
<1>2. /\ r \in Seq(Users) /\ Len(r) = n + 1 /\ r[n + 1] = u
      /\ \A i \in 1..n : r[i] = s[i]
  BY <1>1
<1> HIDE DEF r
<1>3. "none" # t
  BY PlatformAssumption
<1>4. \A i \in 1..n : s[i] # u
  BY <1>1, <1>3 DEF ListRight, InList
<1>5. NoneTwice(r)
  <2>1. \A a, b \in 1..n : s[a] = s[b] => a = b
    BY <1>1 DEF ListRight, NoneTwice
  <2>2. \A a \in 1..(n + 1) : a \in 1..n \/ a = n + 1
    BY <1>1
  <2> QED
    BY <1>1, <1>2, <1>4, <2>1, <2>2 DEF NoneTwice
<1>6. ASSUME NEW v \in Users PROVE InList(r, v) <=> InList(s, v) \/ v = u
  <2>1. \A a \in 1..(n + 1) : a \in 1..n \/ a = n + 1
    BY <1>1
  <2>2. n + 1 \in 1..(n + 1) /\ \A a \in 1..n : a \in 1..(n + 1)
    BY <1>1
  <2> QED
    BY <1>1, <1>2, <2>1, <2>2 DEF InList
<1>7. \A v \in Users : InList(r, v) <=> [following EXCEPT ![u] = t][v] = t
  BY <1>6 DEF ListRight
<1> QED
  BY <1>1, <1>2, <1>5, <1>7 DEF ListRight, r

LEMMA ListLeft ==
  ASSUME NEW following \in [Users -> Ids \cup {"none"}], NEW u \in Users,
         NEW t \in Ids, following[u] = t, NEW s, ListRight(s, following, t)
  PROVE  /\ ListRight(Copy!RemoveFirst(s, u), [following EXCEPT ![u] = "none"], t)
         /\ Len(Copy!RemoveFirst(s, u)) = Len(s) - 1
<1>1. s \in Seq(Users) /\ NoneTwice(s) /\ InList(s, u)
  BY DEF ListRight
<1> DEFINE r == Copy!RemoveFirst(s, u)
<1>2. /\ r \in Seq(Users) /\ Len(r) = Len(s) - 1 /\ NoneTwice(r)
      /\ \A x : InList(r, x) <=> x # u /\ InList(s, x)
  <2>1. (\A a, b \in 1..Len(s) : s[a] = s[b] => a = b) /\ \E i \in 1..Len(s) : s[i] = u
    BY <1>1 DEF NoneTwice, InList
  <2>2. /\ r \in Seq(Users) /\ Len(r) = Len(s) - 1
        /\ \A a, b \in 1..Len(r) : r[a] = r[b] => a = b
        /\ \A x : (\E i \in 1..Len(r) : r[i] = x) <=> x # u /\ \E i \in 1..Len(s) : s[i] = x
    BY <1>1, <2>1, FirstTakenOut
  <2> HIDE DEF r
  <2>3. NoneTwice(r)
    BY <2>2 DEF NoneTwice
  <2>4. \A x : InList(r, x) <=> x # u /\ InList(s, x)
    BY <2>2 DEF InList
  <2> QED
    BY <2>2, <2>3, <2>4
<1> HIDE DEF r
<1>3. "none" # t
  BY PlatformAssumption
<1>4. \A v \in Users : InList(r, v) <=> [following EXCEPT ![u] = "none"][v] = t
  BY <1>2, <1>3 DEF ListRight
<1> QED
  BY <1>2, <1>4 DEF ListRight, r

LEMMA OtherLists ==
  ASSUME NEW following \in [Users -> Ids \cup {"none"}], NEW u \in Users,
         NEW t, NEW q, following[u] # t, q # t, NEW s, ListRight(s, following, t)
  PROVE  ListRight(s, [following EXCEPT ![u] = q], t)
<1>1. \A v \in Users : [following EXCEPT ![u] = q][v] = t <=> following[v] = t
  OBVIOUS
<1> QED
  BY <1>1 DEF ListRight

(* What an operation writes of who follows whom.                             *)
FollowWrites(count, following, followers, renewed) ==
    /\ {"count", "following", "followers", "pos", "sweep", "renewed"} \subseteq DOMAIN db'
    /\ db'.count = count /\ db'.following = following
    /\ db'.followers = followers /\ db'.renewed = renewed

LEMMA FollowMoves ==
  ASSUME NEW count, NEW following, NEW followers, NEW renewed,
         FollowWrites(count, following, followers, renewed),
         Follows(count, following, followers, renewed)
  PROVE  FollowSound'
  BY DEF FollowWrites, FollowSound

LEMMA FollowStep == ASSUME FollowSound, Copy!Next PROVE FollowSound'
<1>1. PICK count, following, followers, renewed :
        /\ count = db.count /\ following = db.following
        /\ followers = db.followers /\ renewed = db.renewed
  OBVIOUS
<1>2. /\ {"count", "following", "followers", "pos", "sweep", "renewed"} \subseteq DOMAIN db
      /\ Follows(count, following, followers, renewed)
  BY <1>1 DEF FollowSound
<1>3. /\ following \in [Users -> Ids \cup {"none"}] /\ DOMAIN followers = Ids /\ DOMAIN count \subseteq Ids
      /\ \A t \in Ids : ListRight(followers[t], following, t)
  BY <1>2 DEF Follows
<1>4. ASSUME FollowWrites(count, following, followers, renewed) PROVE FollowSound'
  BY <1>2, <1>4, FollowMoves
<1>5. CASE Copy!UpdateCopyPositions \/ \E price : Copy!ReadPrices(price)
  BY <1>1, <1>2, <1>4, <1>5 DEF Copy!UpdateCopyPositions, Copy!ReadPrices, FollowWrites
<1>6. ASSUME \E u, p : Copy!CloseCopyPosition(u, p) \/ \E t, price : Copy!CopyTrade(u, t, p, price)
      PROVE  FollowSound'
  BY <1>1, <1>2, <1>4, <1>6 DEF Copy!CloseCopyPosition, Copy!CopyTrade, FollowWrites
<1>7. ASSUME NEW t \in Ids, Copy!RegisterTrader(t) PROVE FollowSound'
  <2>1. PICK count1, renewed1 :
          /\ count1 = [r \in DOMAIN count \cup {t} |-> IF r = t THEN 0 ELSE count[r]]
          /\ renewed1 = IF t \in DOMAIN count THEN renewed \cup {t} ELSE renewed
    OBVIOUS
  <2>2. FollowWrites(count1, following, followers, renewed1)
    BY <1>1, <1>2, <1>7, <2>1 DEF Copy!RegisterTrader, Copy!Registered, FollowWrites
  <2>3. DOMAIN count1 = DOMAIN count \cup {t} /\ DOMAIN count1 \subseteq Ids
    BY <1>3, <2>1
  <2>4. t \in DOMAIN count1 \ renewed1 => count1[t] = Len(followers[t])
    <3> SUFFICES ASSUME t \in DOMAIN count1 \ renewed1 PROVE count1[t] = Len(followers[t])
      OBVIOUS
    <3>1. t \notin DOMAIN count /\ count1[t] = 0
      BY <2>1
    <3>2. PICK s \in Seq(Users) : s = followers[t]
      BY <1>3 DEF ListRight
    <3>3. ASSUME NEW i \in 1..Len(s) PROVE FALSE
      <4>1. PICK u \in Users : u = s[i]
        OBVIOUS
      <4>2. InList(s, u)
        BY <4>1 DEF InList
      <4>3. following[u] = t
        BY <1>3, <3>2, <4>2 DEF ListRight
      <4> QED
        BY <1>2, <3>1, <4>3, PlatformAssumption DEF Follows
    <3>4. Len(s) = 0
      <4>1. Len(s) \in Nat
        OBVIOUS
      <4> QED
        BY <3>3, <4>1
    <3> QED
      BY <3>1, <3>2, <3>4
  <2>5. \A r \in DOMAIN count1 \ renewed1 : r # t => r \in DOMAIN count \ renewed /\ count1[r] = count[r]
    BY <2>1
  <2>6. Follows(count1, following, followers, renewed1)
    BY <1>2, <2>3, <2>4, <2>5 DEF Follows
  <2> QED
    BY <2>2, <2>6, FollowMoves
<1>8. ASSUME NEW u \in Users, Copy!StopFollowing(u) PROVE FollowSound'
  <2>1. PICK t \in Ids : t = following[u] /\ t \in DOMAIN count
    BY <1>1, <1>2, <1>3, <1>8 DEF Copy!StopFollowing, Copy!None, Follows
  <2>2. PICK s : s = followers[t] /\ ListRight(s, following, t)
    BY <1>3
  <2>3. PICK s1 : s1 = Copy!RemoveFirst(s, u) /\ Len(s1) = Len(s) - 1
                  /\ ListRight(s1, [following EXCEPT ![u] = "none"], t)
    BY <1>3, <2>1, <2>2, ListLeft
  <2>4. PICK count1, following1, followers1 :
          /\ count1 = [count EXCEPT ![t] = count[t] - 1]
          /\ following1 = [following EXCEPT ![u] = "none"]
          /\ followers1 = [followers EXCEPT ![t] = s1]
    OBVIOUS
  <2>5. FollowWrites(count1, following1, followers1, renewed)
    BY <1>1, <1>2, <1>8, <2>1, <2>2, <2>3, <2>4 DEF Copy!StopFollowing, Copy!None, FollowWrites
  <2>6. \A q \in Ids : ListRight(followers1[q], following1, q)
    <3>1. ASSUME NEW q \in Ids, q # t PROVE ListRight(followers[q], [following EXCEPT ![u] = "none"], q)
      BY <1>3, <2>1, <3>1, OtherLists, PlatformAssumption
    <3> QED
      BY <1>3, <2>3, <2>4, <3>1
  <2>7. \A q \in DOMAIN count1 \ renewed : count1[q] = Len(followers1[q])
    BY <1>2, <1>3, <2>1, <2>2, <2>3, <2>4 DEF Follows
  <2>8. /\ following1 \in [Users -> Ids \cup {"none"}] /\ DOMAIN followers1 = Ids
        /\ DOMAIN count1 = DOMAIN count
        /\ \A v \in Users : following1[v] \in DOMAIN count \cup {"none"}
    BY <1>2, <1>3, <2>4 DEF Follows
  <2>9. Follows(count1, following1, followers1, renewed)
    BY <1>3, <2>6, <2>7, <2>8 DEF Follows
  <2> QED
    BY <2>5, <2>9, FollowMoves
<1>9. ASSUME NEW u \in Users, NEW t \in Ids, Copy!StartFollowing(u, t) PROVE FollowSound'
  <2>1. t \in DOMAIN count /\ following[u] = "none"
    BY <1>1, <1>9 DEF Copy!StartFollowing, Copy!None, Copy!Registered
  <2>2. PICK s : s = followers[t] /\ ListRight(s, following, t)
    BY <1>3
  <2>3. PICK s1 : s1 = Append(s, u) /\ Len(s1) = Len(s) + 1
                  /\ ListRight(s1, [following EXCEPT ![u] = t], t)
    BY <1>3, <2>1, <2>2, ListJoined
  <2>4. PICK count1, following1, followers1 :
          /\ count1 = [count EXCEPT ![t] = count[t] + 1]
          /\ following1 = [following EXCEPT ![u] = t]
          /\ followers1 = [followers EXCEPT ![t] = s1]
    OBVIOUS
  <2>5. FollowWrites(count1, following1, followers1, renewed)
    BY <1>1, <1>2, <1>9, <2>1, <2>2, <2>3, <2>4 DEF Copy!StartFollowing, Copy!None, FollowWrites
  <2>6. \A q \in Ids : ListRight(followers1[q], following1, q)
    <3>1. ASSUME NEW q \in Ids, q # t PROVE ListRight(followers[q], [following EXCEPT ![u] = t], q)
      BY <1>3, <2>1, <3>1, OtherLists, PlatformAssumption
    <3> QED
      BY <1>3, <2>3, <2>4, <3>1
  <2>7. \A q \in DOMAIN count1 \ renewed : count1[q] = Len(followers1[q])
    BY <1>2, <1>3, <2>1, <2>2, <2>3, <2>4 DEF Follows
  <2>8. /\ following1 \in [Users -> Ids \cup {"none"}] /\ DOMAIN followers1 = Ids
        /\ DOMAIN count1 = DOMAIN count
        /\ \A v \in Users : following1[v] \in DOMAIN count \cup {"none"}
    BY <1>2, <1>3, <2>1, <2>4 DEF Follows
  <2>9. Follows(count1, following1, followers1, renewed)
    BY <1>3, <2>6, <2>7, <2>8 DEF Follows
  <2> QED
    BY <2>5, <2>9, FollowMoves
<1> QED
  BY <1>5, <1>6, <1>7, <1>8, <1>9 DEF Copy!Next, Copy!StartFollowingHandler

(* Tokens.  A logout that was answered is in the table until its token has   *)
(* expired, and in the memory of the processes that have heard of it.        *)
TokenFields == {"user", "token", "revoked", "copy", "logout", "answered", "refuses"}

Revocations(token, revoked, copy, logout, answered, refuses) ==
    /\ DOMAIN token = Ids /\ revoked \subseteq Ids /\ answered \subseteq Ids
    /\ copy \in [Users -> SUBSET Ids] /\ logout \in [Users -> SUBSET Ids]
    /\ refuses \in [Users -> SUBSET Ids]
    /\ \A t \in answered : token[t] = "expired" \/ t \in revoked
    /\ \A p \in Users : /\ refuses[p] \subseteq answered
                        /\ \A t \in refuses[p] : token[t] = "expired" \/ t \in copy[p]
                        /\ \A t \in logout[p] : token[t] = "expired" \/ t \in revoked

LogoutsSound ==
    /\ TokenFields \subseteq DOMAIN db
    /\ Revocations(db.token, db.revoked, db.copy, db.logout, db.answered, db.refuses)

LEMMA LogoutsInit == Sessions!Init => LogoutsSound
  BY DEF Sessions!Init, LogoutsSound, TokenFields, Revocations

TokenWrites(token, revoked, copy, logout, answered, refuses) ==
    /\ TokenFields \subseteq DOMAIN db'
    /\ db'.token = token /\ db'.revoked = revoked /\ db'.copy = copy
    /\ db'.logout = logout /\ db'.answered = answered /\ db'.refuses = refuses

LEMMA LogoutsMove ==
  ASSUME NEW token, NEW revoked, NEW copy, NEW logout, NEW answered, NEW refuses,
         TokenWrites(token, revoked, copy, logout, answered, refuses),
         Revocations(token, revoked, copy, logout, answered, refuses)
  PROVE  LogoutsSound'
  BY DEF TokenWrites, LogoutsSound

LEMMA LogoutsStep == ASSUME LogoutsSound, Sessions!Next PROVE LogoutsSound'
<1>1. PICK token, revoked, copy, logout, answered, refuses :
        /\ token = db.token /\ revoked = db.revoked /\ copy = db.copy
        /\ logout = db.logout /\ answered = db.answered /\ refuses = db.refuses
  OBVIOUS
<1>2. TokenFields \subseteq DOMAIN db /\ Revocations(token, revoked, copy, logout, answered, refuses)
  BY <1>1 DEF LogoutsSound
<1>3. ASSUME NEW t \in Ids, NEW phase, token[t] # "expired" \/ phase = "expired",
             TokenWrites([token EXCEPT ![t] = phase], revoked, copy, logout, answered, refuses)
      PROVE  LogoutsSound'
  <2>1. PICK token1 : token1 = [token EXCEPT ![t] = phase]
    OBVIOUS
  <2>2. DOMAIN token1 = DOMAIN token /\ \A q \in Ids : token[q] = "expired" => token1[q] = "expired"
    BY <1>2, <1>3, <2>1 DEF Revocations
  <2>3. Revocations(token1, revoked, copy, logout, answered, refuses)
    BY <1>2, <2>2 DEF Revocations
  <2> QED
    BY <1>3, <2>1, <2>3, LogoutsMove
<1>4. ASSUME NEW t \in Ids, Sessions!Register(t) \/ Sessions!Login(t) \/ Sessions!Expire(t)
             \/ \E p, old : Sessions!RefreshToken(p, old, t)
      PROVE  LogoutsSound'
  <2>1. PICK phase \in {"live", "expired"} :
          /\ token[t] # "expired" \/ phase = "expired"
          /\ TokenWrites([token EXCEPT ![t] = phase], revoked, copy, logout, answered, refuses)
    <3>1. CASE Sessions!Register(t)
      BY <1>1, <1>2, <3>1 DEF Sessions!Register, TokenWrites, TokenFields
    <3>2. CASE Sessions!Login(t)
      BY <1>1, <1>2, <3>2 DEF Sessions!Login, TokenWrites, TokenFields
    <3>3. CASE Sessions!Expire(t)
      BY <1>1, <1>2, <3>3 DEF Sessions!Expire, TokenWrites, TokenFields
    <3>4. CASE \E p, old : Sessions!RefreshToken(p, old, t)
      BY <1>1, <1>2, <3>4 DEF Sessions!RefreshToken, TokenWrites, TokenFields
    <3> QED
      BY <1>4, <3>1, <3>2, <3>3, <3>4
  <2> QED
    BY <1>3, <2>1
<1>5. ASSUME NEW status, Sessions!SetActive(status) PROVE LogoutsSound'
  <2>1. TokenWrites(token, revoked, copy, logout, answered, refuses)
    BY <1>1, <1>2, <1>5 DEF Sessions!SetActive, TokenWrites, TokenFields
  <2> QED
    BY <1>2, <2>1, LogoutsMove
<1>6. ASSUME NEW p \in Users, NEW t \in Ids, Sessions!Revoke(p, t) PROVE LogoutsSound'
  <2>1. PICK revoked1, logout1 : /\ revoked1 = revoked \cup {t}
                                 /\ logout1 = [logout EXCEPT ![p] = logout[p] \cup {t}]
    OBVIOUS
  <2>2. TokenWrites(token, revoked1, copy, logout1, answered, refuses)
    BY <1>1, <1>2, <1>6, <2>1 DEF Sessions!Revoke, Sessions!Row, TokenWrites, TokenFields
  <2>3. Revocations(token, revoked1, copy, logout1, answered, refuses)
    BY <1>2, <2>1 DEF Revocations
  <2> QED
    BY <2>2, <2>3, LogoutsMove
<1>7. ASSUME NEW p \in Users, NEW t \in Ids, Sessions!Answer(p, t) PROVE LogoutsSound'
  <2>1. PICK copy1, logout1, answered1, refuses1 :
          /\ copy1 = [copy EXCEPT ![p] = copy[p] \cup {t}]
          /\ logout1 = [logout EXCEPT ![p] = logout[p] \ {t}]
          /\ answered1 = answered \cup {t}
          /\ refuses1 = [refuses EXCEPT ![p] = refuses[p] \cup {t}]
    OBVIOUS
  <2>2. TokenWrites(token, revoked, copy1, logout1, answered1, refuses1)
    BY <1>1, <1>2, <1>7, <2>1 DEF Sessions!Answer, TokenWrites, TokenFields
  <2>3. t \in logout[p]
    BY <1>1, <1>7 DEF Sessions!Answer
  <2>4. Revocations(token, revoked, copy1, logout1, answered1, refuses1)
    <3>1. /\ copy1 \in [Users -> SUBSET Ids] /\ logout1 \in [Users -> SUBSET Ids]
          /\ refuses1 \in [Users -> SUBSET Ids] /\ answered1 \subseteq Ids
      BY <1>2, <2>1 DEF Revocations
    <3>2. \A q \in answered1 : token[q] = "expired" \/ q \in revoked
      BY <1>2, <2>1, <2>3 DEF Revocations
    <3>3. \A q \in Users : /\ refuses1[q] \subseteq answered1
                           /\ \A r \in refuses1[q] : token[r] = "expired" \/ r \in copy1[q]
                           /\ \A r \in logout1[q] : token[r] = "expired" \/ r \in revoked
      BY <1>2, <2>1 DEF Revocations
    <3> QED
      BY <1>2, <3>1, <3>2, <3>3 DEF Revocations
  <2> QED
    BY <2>2, <2>4, LogoutsMove
<1>8. ASSUME NEW p \in Users, NEW t \in Ids, Sessions!DropExpired(p, t) PROVE LogoutsSound'
  <2>1. PICK copy1 : copy1 = [copy EXCEPT ![p] = copy[p] \ {t}]
    OBVIOUS
  <2>2. TokenWrites(token, revoked, copy1, logout, answered, refuses)
    BY <1>1, <1>2, <1>8, <2>1 DEF Sessions!DropExpired, TokenWrites, TokenFields
  <2>3. token[t] = "expired"
    BY <1>1, <1>8 DEF Sessions!DropExpired
  <2>4. Revocations(token, revoked, copy1, logout, answered, refuses)
    BY <1>2, <2>1, <2>3 DEF Revocations
  <2> QED
    BY <2>2, <2>4, LogoutsMove
<1>9. ASSUME NEW p \in Users, NEW loaded \in BOOLEAN, Sessions!Restart(p, loaded) PROVE LogoutsSound'
  <2>1. PICK rows : rows = {t \in revoked : token[t] # "expired"}
    OBVIOUS
  <2>2. PICK copy1, logout1, refuses1 :
          /\ copy1 = [copy EXCEPT ![p] = IF loaded THEN rows ELSE {}]
          /\ logout1 = [logout EXCEPT ![p] = {}]
          /\ refuses1 = [refuses EXCEPT ![p] = IF loaded THEN answered ELSE {}]
    OBVIOUS
  <2>3. TokenWrites(token, rows, copy1, logout1, answered, refuses1)
    BY <1>1, <1>2, <1>9, <2>1, <2>2 DEF Sessions!Restart, TokenWrites, TokenFields
  <2>4. Revocations(token, rows, copy1, logout1, answered, refuses1)
    <3>1. /\ copy1 \in [Users -> SUBSET Ids] /\ logout1 \in [Users -> SUBSET Ids]
          /\ refuses1 \in [Users -> SUBSET Ids] /\ rows \subseteq Ids
      BY <1>2, <2>1, <2>2 DEF Revocations
    <3>2. \A q \in answered : token[q] = "expired" \/ q \in rows
      BY <1>2, <2>1 DEF Revocations
    <3>3. \A q \in Users : /\ refuses1[q] \subseteq answered
                           /\ \A r \in refuses1[q] : token[r] = "expired" \/ r \in copy1[q]
      BY <1>2, <2>2, <3>2 DEF Revocations
    <3>4. \A q \in Users : \A r \in logout1[q] : token[r] = "expired" \/ r \in rows
      BY <1>2, <2>1, <2>2 DEF Revocations
    <3> QED
      BY <1>2, <3>1, <3>2, <3>3, <3>4 DEF Revocations
  <2> QED
    BY <2>3, <2>4, LogoutsMove
<1> QED
  BY <1>4, <1>5, <1>6, <1>7, <1>8, <1>9 DEF Sessions!Next

LEMMA LogoutsHold == LogoutsSound => Sessions!LogoutHolds
  BY DEF LogoutsSound, Revocations, Sessions!LogoutHolds, Sessions!Valid

(* Switches.  A request keeps a copy of all of them, and what it changes.    *)
SwitchRow == [{"trading", "maintenance"} -> BOOLEAN]

Switched(settings, asked, stale) ==
    /\ asked \in SwitchRow
    /\ IF settings = <<>> THEN asked = Admin!Defaults
       ELSE /\ settings \in SwitchRow
            /\ \A s \in {"trading", "maintenance"} \ stale : settings[s] = asked[s]

Pending(settings, q) ==
    q # <<>> => /\ settings # <<>> /\ q.copy \in SwitchRow
                /\ DOMAIN q.changes \subseteq {"trading", "maintenance"}
                /\ q.changes \in [DOMAIN q.changes -> BOOLEAN]

SwitchesSound ==
    /\ {"kind", "item", "settings", "request", "asked", "stale"} \subseteq DOMAIN db
    /\ DOMAIN db.request = Ids
    /\ Switched(db.settings, db.asked, db.stale)
    /\ \A r \in Ids : Pending(db.settings, db.request[r])

LEMMA SwitchesInit == Admin!Init => SwitchesSound
<1>1. Admin!Defaults \in SwitchRow
  BY DEF Admin!Defaults, Admin!All, SwitchRow
<1> QED
  BY <1>1 DEF Admin!Init, SwitchesSound, Switched, Pending

LEMMA LoadMoves ==
  ASSUME SwitchesSound, NEW r \in Ids, NEW changes, Admin!LoadSettings(r, changes),
         DOMAIN changes \subseteq {"trading", "maintenance"}, changes \in [DOMAIN changes -> BOOLEAN]
  PROVE  SwitchesSound'
<1>1. PICK row, q : /\ row = IF db.settings = <<>> THEN Admin!Defaults ELSE db.settings
                    /\ q = [copy |-> row, changes |-> changes]
  OBVIOUS
<1>2. db' = [db EXCEPT !.settings = row, !.request[r] = q]
  BY <1>1 DEF Admin!LoadSettings
<1>3. row \in SwitchRow
  BY <1>1 DEF SwitchesSound, Switched
<1>4. row # <<>>
  BY <1>3 DEF SwitchRow
<1>5. Switched(row, db.asked, db.stale)
  BY <1>1, <1>3, <1>4 DEF SwitchesSound, Switched
<1>6. Pending(row, q)
  BY <1>1, <1>3, <1>4 DEF Pending
<1>7. \A t \in Ids : Pending(row, db.request[t])
  BY <1>4 DEF SwitchesSound, Pending
<1>8. /\ db'.settings = row /\ db'.asked = db.asked /\ db'.stale = db.stale
      /\ db'.request = [db.request EXCEPT ![r] = q]
      /\ {"kind", "item", "settings", "request", "asked", "stale"} \subseteq DOMAIN db'
  BY <1>2 DEF SwitchesSound
<1>9. DOMAIN db.request = Ids
  BY DEF SwitchesSound
<1> QED
  BY <1>5, <1>6, <1>7, <1>8, <1>9 DEF SwitchesSound

LEMMA SaveMoves ==
  ASSUME SwitchesSound, NEW r \in Ids, Admin!SaveSettings(r)
  PROVE  SwitchesSound'
<1>1. PICK q, copy, changes : q = db.request[r] /\ copy = q.copy /\ changes = q.changes
  OBVIOUS
<1>2. /\ q # <<>> /\ db.settings # <<>> /\ copy \in SwitchRow
      /\ DOMAIN changes \subseteq {"trading", "maintenance"}
      /\ changes \in [DOMAIN changes -> BOOLEAN]
  BY <1>1 DEF Admin!SaveSettings, SwitchesSound, Pending
<1>3. db.asked \in SwitchRow /\ db.settings \in SwitchRow
      /\ \A s \in {"trading", "maintenance"} \ db.stale : db.settings[s] = db.asked[s]
  BY <1>2 DEF SwitchesSound, Switched
<1>4. PICK row, asked, stale :
        /\ row = Admin!Overlaid(copy, changes) /\ asked = Admin!Overlaid(db.asked, changes)
        /\ stale = (db.stale \ DOMAIN changes)
                   \cup {s \in {"trading", "maintenance"} \ DOMAIN changes : copy[s] # db.settings[s]}
  OBVIOUS
<1>5. db' = [db EXCEPT !.settings = row, !.request[r] = <<>>, !.asked = asked, !.stale = stale]
  BY <1>1, <1>4 DEF Admin!SaveSettings, Admin!Changed, Admin!All
<1>6. row \in SwitchRow /\ asked \in SwitchRow
  BY <1>2, <1>3, <1>4 DEF Admin!Overlaid, Admin!All, SwitchRow
<1>7. \A s \in {"trading", "maintenance"} \ stale : row[s] = asked[s]
  BY <1>2, <1>3, <1>4 DEF Admin!Overlaid, Admin!All, SwitchRow
<1>8. row # <<>>
  BY <1>6 DEF SwitchRow
<1>9. Switched(row, asked, stale)
  BY <1>6, <1>7, <1>8 DEF Switched
<1>10. /\ db'.settings = row /\ db'.asked = asked /\ db'.stale = stale
       /\ db'.request = [db.request EXCEPT ![r] = <<>>]
       /\ {"kind", "item", "settings", "request", "asked", "stale"} \subseteq DOMAIN db'
  BY <1>5 DEF SwitchesSound
<1>11. DOMAIN db.request = Ids /\ \A t \in Ids : Pending(row, db.request[t])
  BY <1>8 DEF SwitchesSound, Pending
<1>12. Pending(row, <<>>)
  BY DEF Pending
<1> QED
  BY <1>9, <1>10, <1>11, <1>12 DEF SwitchesSound

LEMMA SwitchesStep == ASSUME SwitchesSound, Admin!Next PROVE SwitchesSound'
<1>1. ASSUME NEW i, NEW status, db' = [db EXCEPT !.item[i] = status] PROVE SwitchesSound'
  BY <1>1 DEF SwitchesSound
<1>2. ASSUME NEW i, Admin!CreateItem(i) \/ Admin!DeleteItem(i) \/ \E status : Admin!UpdateItem(i, status)
      PROVE  SwitchesSound'
  BY <1>1, <1>2 DEF Admin!CreateItem, Admin!DeleteItem, Admin!UpdateItem
<1>3. ASSUME NEW r \in Ids, NEW b \in BOOLEAN,
             Admin!LoadSettings(r, [s \in {"maintenance"} |-> b])
      PROVE  SwitchesSound'
  BY <1>3, LoadMoves
<1>4. ASSUME NEW r \in Ids, NEW S \in SUBSET {"trading"}, NEW changes \in [S -> BOOLEAN],
             Admin!LoadSettings(r, changes)
      PROVE  SwitchesSound'
  BY <1>4, LoadMoves
<1> QED
  BY <1>2, <1>3, <1>4, SaveMoves DEF Admin!Next, Admin!CreateChain, Admin!CreateToken, Admin!CreatePool,
     Admin!DeleteUser, Admin!DeleteChain, Admin!DeleteToken, Admin!DeletePool, Admin!UpdateUser,
     Admin!UpdateChain, Admin!UpdateToken, Admin!UpdatePool, Admin!EnableMaintenance,
     Admin!DisableMaintenance, Admin!UpdateConfig

LEMMA SwitchesAreKept == SwitchesSound => Admin!SwitchesKept
  BY DEF SwitchesSound, Switched, Admin!SwitchesKept, Admin!All

MemoryIInv ==
    /\ service \in Services
    /\ (service = "copy" => FollowSound)
    /\ (service = "sessions" => LogoutsSound)
    /\ (service = "admin" => SwitchesSound)

(* What a process keeps in memory is what it was told last: the two lists of *)
(* who follows whom agree, a token that was logged out is refused, and a     *)
(* switch that was set is in force, for any number of users and requests.    *)
THEOREM PlatformMemoryMatches == Spec => []MemoryMatches
<1>1. Init => MemoryIInv
  BY FollowInit, LogoutsInit, SwitchesInit DEF Init, MemoryIInv, Services
<1>2. MemoryIInv /\ [Next]_<<service, db>> => MemoryIInv'
  <2> SUFFICES ASSUME MemoryIInv, [Next]_<<service, db>> PROVE MemoryIInv'
    OBVIOUS
  <2>1. CASE UNCHANGED <<service, db>>
    BY <2>1 DEF MemoryIInv, FollowSound, Follows, ListRight, InList, NoneTwice, LogoutsSound, SwitchesSound
  <2>2. CASE Next
    <3>1. /\ service' = service
          /\ (service = "copy" => Copy!Next)
          /\ (service = "sessions" => Sessions!Next)
          /\ (service = "admin" => Admin!Next)
      BY <2>2 DEF Next, Step
    <3> QED
      BY <3>1, FollowStep, LogoutsStep, SwitchesStep DEF MemoryIInv
  <2> QED
    BY <2>1, <2>2
<1>3. MemoryIInv => MemoryMatches
  BY FollowersRight, LogoutsHold, SwitchesAreKept DEF MemoryIInv, MemoryMatches
<1> QED
  BY <1>1, <1>2, <1>3, PTL DEF Spec

----
(* Block trades.  An order that is open has no taker; a schedule is filled   *)
(* only as far as its time has come.                                         *)
OtcSound(o, raced) ==
    /\ {"maker", "qty", "min", "status", "late", "taker", "asked"} = DOMAIN o
    /\ o.maker \in Users /\ o.qty \in Int /\ o.min \in Int /\ o.asked \in Int
    /\ o.status \in {"open", "matched", "cancelled", "expired"}
    /\ o.status = "open" => o.taker = "none"
    /\ IF o.taker = "none" THEN o.qty = o.asked /\ o.status # "matched" /\ o.min <= o.qty
       ELSE /\ o.taker \in Users /\ o.taker # o.maker /\ o.min <= o.qty /\ o.qty <= o.asked
            /\ o.status = "matched" \/ raced

TwammSound(o) ==
    /\ {"total", "filled", "at", "status"} = DOMAIN o
    /\ o.total \in {1, 2, 3} /\ o.filled \in Nat /\ o.at \in -1..3
    /\ o.filled * 2 <= o.total * (IF o.at <= 0 THEN 0 ELSE IF o.at <= 2 THEN o.at ELSE 2)

BlockSound ==
    /\ {"otc", "twamm", "seen", "raced"} \subseteq DOMAIN db
    /\ db.raced \in BOOLEAN
    /\ OtcSound(db.otc, db.raced) /\ TwammSound(db.twamm)

LEMMA BlockInit == Block!Init => BlockSound
<1> SUFFICES ASSUME Block!Init PROVE BlockSound
  OBVIOUS
<1>1. PICK m \in Users, q, min, total \in {1, 2, 3}, delay \in 0..1 :
        /\ min <= q
        /\ db = [otc |-> Block!CreateOtc(m, q, min), twamm |-> Block!CreateTwamm(total, delay),
                 seen |-> [otc |-> FALSE, twamm |-> FALSE], raced |-> FALSE]
  BY DEF Block!Init
<1>2. OtcSound(Block!CreateOtc(m, q, min), FALSE)
  BY <1>1 DEF OtcSound, Block!CreateOtc, Block!None
<1>3. TwammSound(Block!CreateTwamm(total, delay))
  BY DEF TwammSound, Block!CreateTwamm
<1> QED
  BY <1>1, <1>2, <1>3 DEF BlockSound

LEMMA BlockMoves ==
  ASSUME BlockSound, NEW otc, NEW twamm, NEW raced \in BOOLEAN,
         {"otc", "twamm", "seen", "raced"} \subseteq DOMAIN db',
         db'.otc = otc, db'.twamm = twamm, db'.raced = raced,
         OtcSound(otc, raced), TwammSound(twamm)
  PROVE  BlockSound'
  BY DEF BlockSound

LEMMA Slice ==
  ASSUME NEW o, TwammSound(o)
  PROVE  Block!ExecutableSlice(o) =
            IF o.at <= 0 THEN 0
            ELSE (o.total * (IF o.at <= 2 THEN o.at ELSE 2)) \div 2 - o.filled
<1>1. CASE o.at <= 0
  BY <1>1 DEF Block!ExecutableSlice
<1>2. CASE ~(o.at <= 0)
  <2>1. PICK at \in {1, 2, 3}, total \in {1, 2, 3}, filled \in Nat :
          at = o.at /\ total = o.total /\ filled = o.filled
          /\ filled * 2 <= total * (IF at <= 2 THEN at ELSE 2)
    BY <1>2 DEF TwammSound
  <2>2. PICK d \in {1, 2} : d = IF at <= 2 THEN at ELSE 2
    OBVIOUS
  <2>3. Block!Min({at, 2}) = d
    BY <2>2 DEF Block!Min
  <2>4. PICK n \in Int : n = (total * d) \div 2
    BY <2>1, <2>2
  <2>5. n - filled >= 0
    BY <2>1, <2>2, <2>4
  <2>6. PICK k \in Nat : k = n - filled
    BY <2>5
  <2>7. Block!Max({0, k}) = k
    BY DEF Block!Max
  <2> QED
    BY <1>2, <2>1, <2>2, <2>3, <2>4, <2>6, <2>7 DEF Block!ExecutableSlice
<1> QED
  BY <1>1, <1>2

LEMMA BlockStep == ASSUME BlockSound, Block!Next PROVE BlockSound'
<1>1. PICK otc, twamm, raced : otc = db.otc /\ twamm = db.twamm /\ raced = db.raced
  OBVIOUS
<1>2. /\ {"otc", "twamm", "seen", "raced"} \subseteq DOMAIN db
      /\ raced \in BOOLEAN /\ OtcSound(otc, raced) /\ TwammSound(twamm)
  BY <1>1 DEF BlockSound
<1>3. CASE Block!LoadOrders
  BY <1>1, <1>2, <1>3, BlockMoves DEF Block!LoadOrders
<1>4. ASSUME NEW twamm1, TwammSound(twamm1), db' = [db EXCEPT !.twamm = twamm1] PROVE BlockSound'
  <2>1. db'.otc = otc /\ db'.twamm = twamm1 /\ db'.raced = raced
        /\ {"otc", "twamm", "seen", "raced"} \subseteq DOMAIN db'
    BY <1>1, <1>2, <1>4
  <2> QED
    BY <1>2, <1>4, <2>1, BlockMoves
<1>5. ASSUME NEW otc1, NEW raced1 \in BOOLEAN, OtcSound(otc1, raced1),
             db' = [db EXCEPT !.otc = otc1, !.raced = raced1] PROVE BlockSound'
  <2>1. db'.otc = otc1 /\ db'.twamm = twamm /\ db'.raced = raced1
        /\ {"otc", "twamm", "seen", "raced"} \subseteq DOMAIN db'
    BY <1>1, <1>2, <1>5
  <2> QED
    BY <1>2, <1>5, <2>1, BlockMoves
<1>6. ASSUME NEW otc1, OtcSound(otc1, raced), db' = [db EXCEPT !.otc = otc1] PROVE BlockSound'
  <2>1. db'.otc = otc1 /\ db'.twamm = twamm /\ db'.raced = raced
        /\ {"otc", "twamm", "seen", "raced"} \subseteq DOMAIN db'
    BY <1>1, <1>2, <1>6
  <2> QED
    BY <1>2, <1>6, <2>1, BlockMoves
<1>7. CASE Block!Tick
  <2>1. PICK at \in -1..3, next \in 0..4 : at = twamm.at /\ next = at + 1
    BY <1>2 DEF TwammSound
  <2>2. PICK to \in 0..3 : to = (IF next <= 3 THEN next ELSE 3) /\ to = Block!Min({next, 2 + 1})
    BY <2>1 DEF Block!Min
  <2>3. TwammSound([twamm EXCEPT !.at = to])
    BY <1>2, <2>1, <2>2 DEF TwammSound
  <2>4. db' = [db EXCEPT !.twamm = [twamm EXCEPT !.at = to]]
    BY <1>1, <1>2, <1>7, <2>1, <2>2 DEF Block!Tick
  <2> QED
    BY <1>4, <2>3, <2>4
<1>8. CASE Block!Expire
  <2>1. OtcSound([otc EXCEPT !.late = TRUE], raced)
    BY <1>2 DEF OtcSound
  <2>2. db' = [db EXCEPT !.otc = [otc EXCEPT !.late = TRUE]]
    BY <1>1, <1>2, <1>8 DEF Block!Expire
  <2> QED
    BY <1>6, <2>1, <2>2
<1>9. CASE Block!CancelOtc
  <2>1. PICK raced1 \in BOOLEAN : raced1 = (raced \/ otc.status # "open")
    OBVIOUS
  <2>2. OtcSound([otc EXCEPT !.status = "cancelled"], raced1)
    BY <1>2, <2>1 DEF OtcSound
  <2>3. db' = [db EXCEPT !.otc = [otc EXCEPT !.status = "cancelled"], !.raced = raced1]
    BY <1>1, <1>2, <1>9, <2>1 DEF Block!CancelOtc
  <2> QED
    BY <1>5, <2>2, <2>3
<1>10. CASE Block!ExpireStaleOrders
  <2>1. OtcSound([otc EXCEPT !.status = "expired"], raced)
    BY <1>1, <1>2, <1>10, PlatformAssumption DEF OtcSound, Block!ExpireStaleOrders
  <2>2. db' = [db EXCEPT !.otc = [otc EXCEPT !.status = "expired"]]
    BY <1>1, <1>2, <1>10 DEF Block!ExpireStaleOrders
  <2> QED
    BY <1>6, <2>1, <2>2
<1>11. CASE Block!CancelTwamm
  <2>1. TwammSound([twamm EXCEPT !.status = "cancelled"])
    BY <1>2 DEF TwammSound
  <2>2. db' = [db EXCEPT !.twamm = [twamm EXCEPT !.status = "cancelled"]]
    BY <1>1, <1>2, <1>11 DEF Block!CancelTwamm
  <2> QED
    BY <1>4, <2>1, <2>2
<1>12. ASSUME NEW x \in {1, 2, 3}, Block!FillSlice(x) PROVE BlockSound'
  <2>1. PICK to \in Nat : to = twamm.filled + x
    BY <1>2 DEF TwammSound
  <2>2. TwammSound([twamm EXCEPT !.filled = to])
    <3>1. PICK at \in -1..3, total \in {1, 2, 3}, filled \in Nat :
            at = twamm.at /\ total = twamm.total /\ filled = twamm.filled
      BY <1>2 DEF TwammSound
    <3>2. PICK d \in 0..2 : d = (IF at <= 0 THEN 0 ELSE IF at <= 2 THEN at ELSE 2)
      OBVIOUS
    <3>3. x <= (total * d) \div 2 - filled
      BY <1>1, <1>2, <1>12, <3>1, <3>2, Slice DEF Block!FillSlice
    <3>4. to * 2 <= total * d
      BY <2>1, <3>1, <3>2, <3>3
    <3> QED
      BY <1>2, <2>1, <3>1, <3>2, <3>4 DEF TwammSound
  <2>3. db' = [db EXCEPT !.twamm = [twamm EXCEPT !.filled = to]]
    BY <1>1, <1>2, <1>12, <2>1 DEF Block!FillSlice
  <2> QED
    BY <1>4, <2>2, <2>3
<1>13. ASSUME NEW u \in Users, NEW x \in {1, 2, 3}, Block!TakeOrder(u, x) PROVE BlockSound'
  <2>1. otc.status = "open" /\ otc.maker # u /\ otc.min <= x /\ x <= otc.qty
    BY <1>1, <1>13 DEF Block!TakeOrder, Block!Fits
  <2>2. OtcSound([otc EXCEPT !.taker = u, !.status = "matched", !.qty = x], raced)
    BY <1>2, <2>1, PlatformAssumption DEF OtcSound
  <2>3. db' = [db EXCEPT !.otc = [otc EXCEPT !.taker = u, !.status = "matched", !.qty = x]]
    BY <1>1, <1>2, <1>13 DEF Block!TakeOrder
  <2> QED
    BY <1>6, <2>2, <2>3
<1> QED
  BY <1>3, <1>7, <1>8, <1>9, <1>10, <1>11, <1>12, <1>13 DEF Block!Next

LEMMA BlockKept == BlockSound => Block!TermsKept /\ Block!ScheduleKept
<1> SUFFICES ASSUME BlockSound PROVE Block!TermsKept /\ Block!ScheduleKept
  OBVIOUS
<1>1. Block!TermsKept
  BY DEF BlockSound, OtcSound, Block!TermsKept, Block!None
<1>2. PICK o : o = db.twamm /\ TwammSound(o)
  BY DEF BlockSound
<1>3. PICK at \in -1..3, total \in {1, 2, 3}, filled \in Nat :
        at = o.at /\ total = o.total /\ filled = o.filled
        /\ filled * 2 <= total * (IF at <= 0 THEN 0 ELSE IF at <= 2 THEN at ELSE 2)
  BY <1>2 DEF TwammSound
<1>4. Block!Max({0, Block!Min({at, 2})}) = IF at <= 0 THEN 0 ELSE IF at <= 2 THEN at ELSE 2
  <2>1. PICK d \in -1..2 : d = Block!Min({at, 2}) /\ d = IF at <= 2 THEN at ELSE 2
    BY DEF Block!Min
  <2>2. Block!Max({0, d}) = IF d <= 0 THEN 0 ELSE d
    BY DEF Block!Max
  <2> QED
    BY <2>1, <2>2
<1>5. at >= 2 => filled + Block!ExecutableSlice(o) = total
  <2> SUFFICES ASSUME at >= 2 PROVE filled + Block!ExecutableSlice(o) = total
    OBVIOUS
  <2>1. Block!ExecutableSlice(o) = (total * (IF at <= 2 THEN at ELSE 2)) \div 2 - filled
    BY <1>2, <1>3, Slice
  <2>2. (total * (IF at <= 2 THEN at ELSE 2)) \div 2 = total
    OBVIOUS
  <2> QED
    BY <2>1, <2>2
<1> QED
  BY <1>1, <1>2, <1>3, <1>4, <1>5 DEF Block!ScheduleKept

(* Sales.  What is raised is the sum of the allocations; a raise at its cap  *)
(* is active only when somebody reopened it.                                 *)
SaleFields == {"cap", "status", "phase", "raised", "participants", "alloc", "reopened"}
Allocation == [user : Users, amount : {1, 2}, claimed : BOOLEAN]
Bought(s) == [i \in DOMAIN s |-> s[i].amount]

Allocated(s, raised) == s \in Seq(Allocation) /\ raised \in Nat /\ raised = Sum(Bought(s), DOMAIN s)

ClaimsRight(s, phase) ==
    \A i \in 1..Len(s) : s[i].claimed =>
        /\ phase = 3
        /\ \A j \in 1..i-1 : s[j].user # s[i].user

Raising(cap, status, raised, reopened) ==
    /\ cap \in {0, 3} /\ status \in {"upcoming", "active", "completed", "cancelled"}
    /\ reopened \in BOOLEAN
    /\ cap > 0 /\ ~reopened => raised < cap + 2 /\ (raised >= cap => status # "active")

SaleSound ==
    /\ SaleFields \subseteq DOMAIN db /\ db.phase \in 1..3
    /\ db.participants = Len(db.alloc)
    /\ Allocated(db.alloc, db.raised) /\ ClaimsRight(db.alloc, db.phase)
    /\ Raising(db.cap, db.status, db.raised, db.reopened)

LEMMA SaleRaised == ASSUME NEW s PROVE Launchpad!Raised(s) = Sum(Bought(s), DOMAIN s)
  BY DEF Launchpad!Raised, Launchpad!Sum, Launchpad!MapThenSumSet, Launchpad!MapThenFoldSet,
     Sum, MapThenSumSet, MapThenFoldSet, Bought

LEMMA SaleInit == Launchpad!Init => SaleSound
<1> SUFFICES ASSUME NEW cap \in {0, 3}, db = Launchpad!CreateProject(cap) PROVE SaleSound
  BY DEF Launchpad!Init
<1>1. <<>> \in Seq(Allocation) /\ DOMAIN <<>> = {} /\ Len(<<>>) = 0
  OBVIOUS
<1>2. Allocated(<<>>, 0)
  BY <1>1, SumEmpty DEF Allocated
<1> QED
  BY <1>1, <1>2 DEF Launchpad!CreateProject, SaleSound, SaleFields, ClaimsRight, Raising

(* What an operation writes.                                                 *)
SaleWrites(status, phase, raised, alloc, reopened) ==
    /\ SaleFields \subseteq DOMAIN db' /\ db'.cap = db.cap /\ db'.status = status
    /\ db'.phase = phase /\ db'.raised = raised /\ db'.participants = Len(alloc)
    /\ db'.alloc = alloc /\ db'.reopened = reopened

LEMMA SaleMoves ==
  ASSUME NEW status, NEW phase \in 1..3, NEW raised, NEW alloc, NEW reopened,
         SaleWrites(status, phase, raised, alloc, reopened),
         Allocated(alloc, raised), ClaimsRight(alloc, phase), Raising(db.cap, status, raised, reopened)
  PROVE  SaleSound'
  BY DEF SaleSound, SaleWrites

LEMMA BoughtMore ==
  ASSUME NEW s, NEW raised, Allocated(s, raised), NEW a \in Allocation
  PROVE  Allocated(Append(s, a), raised + a.amount)
<1>1. PICK n \in Nat : n = Len(s) /\ DOMAIN s = 1..n /\ s \in Seq(Allocation)
  BY DEF Allocated
<1>2. PICK r : r = Append(s, a)
  OBVIOUS
<1>3. r \in Seq(Allocation) /\ DOMAIN r = 1..(n + 1) /\ r[n + 1] = a /\ \A i \in 1..n : r[i] = s[i]
  BY <1>1, <1>2
<1>4. \A i \in 1..n : s[i] \in Allocation
  BY <1>1
<1>5. PICK f, g : f = Bought(s) /\ g = Bought(r)
  OBVIOUS
<1>6. 1..(n + 1) = 1..n \cup {n + 1} /\ n + 1 \notin 1..n
  BY <1>1
<1>7. IsFiniteSet(1..n)
  BY <1>1, FS_Interval
<1>8. /\ \A i \in 1..n : g[i] = f[i]
      /\ g[n + 1] = a.amount
      /\ \A i \in 1..n \cup {n + 1} : g[i] \in {1, 2}
  BY <1>1, <1>3, <1>4, <1>5, <1>6 DEF Bought, Allocation
<1>9. Sum(g, 1..n \cup {n + 1}) = Sum(g, 1..n) + g[n + 1]
  <2>1. PICK S, m : S = 1..n /\ m = n + 1
    OBVIOUS
  <2>2. IsFiniteSet(S) /\ m \notin S /\ \A i \in S \cup {m} : g[i] \in Int
    BY <1>6, <1>7, <1>8, <2>1
  <2>3. Sum(g, S \cup {m}) = Sum(g, S) + g[m]
    BY <2>2, SumAdd
  <2> QED
    BY <2>1, <2>3
<1>10. Sum(g, 1..n) = Sum(f, 1..n)
  BY <1>7, <1>8, SumAgree
<1>11. Sum(Bought(r), DOMAIN r) = raised + a.amount
  BY <1>1, <1>3, <1>5, <1>6, <1>8, <1>9, <1>10 DEF Allocated
<1>12. raised + a.amount \in Nat
  BY DEF Allocated, Allocation
<1> QED
  BY <1>2, <1>3, <1>11, <1>12 DEF Allocated

(* The first allocation of a user.                                           *)
LEMMA FirstIs ==
  ASSUME NEW u, db.alloc \in Seq(Allocation), Launchpad!FirstOf(u) # 0
  PROVE  /\ Launchpad!FirstOf(u) \in 1..Len(db.alloc)
         /\ db.alloc[Launchpad!FirstOf(u)].user = u
         /\ \A j \in 1..(Launchpad!FirstOf(u) - 1) : db.alloc[j].user # u
<1>1. PICK I : I = {i \in 1..Len(db.alloc) : db.alloc[i].user = u}
  OBVIOUS
<1>2. Launchpad!FirstOf(u) = IF I = {} THEN 0 ELSE Min(I)
  BY <1>1 DEF Launchpad!FirstOf, Launchpad!SelectInSeq, Launchpad!Min, Min
<1>3. I # {} /\ I \in SUBSET Nat
  BY <1>1, <1>2
<1>4. Min(I) \in I /\ \A i \in I : Min(I) <= i
  BY <1>3, MinOfNaturals
<1>5. PICK m \in Nat : m = Launchpad!FirstOf(u) /\ m \in I /\ \A i \in I : m <= i
  BY <1>2, <1>3, <1>4
<1>6. \A j \in 1..(m - 1) : j \in 1..Len(db.alloc) /\ j \notin I
  BY <1>1, <1>5
<1> QED
  BY <1>1, <1>5, <1>6

LEMMA SaleStep == ASSUME SaleSound, Launchpad!Next PROVE SaleSound'
<1>1. PICK cap, status, phase, raised, alloc, reopened :
        /\ cap = db.cap /\ status = db.status /\ phase = db.phase
        /\ raised = db.raised /\ alloc = db.alloc /\ reopened = db.reopened
  OBVIOUS
<1>2. /\ SaleFields \subseteq DOMAIN db /\ phase \in 1..3 /\ db.participants = Len(alloc)
      /\ Allocated(alloc, raised) /\ ClaimsRight(alloc, phase)
      /\ Raising(cap, status, raised, reopened)
  BY <1>1 DEF SaleSound
<1>3. raised \in Nat /\ alloc \in Seq(Allocation)
  BY <1>2 DEF Allocated
<1>4. CASE Launchpad!Tick
  <2>1. PICK next \in 2..3 : next = phase + 1 /\ phase # 3
    BY <1>1, <1>2, <1>4 DEF Launchpad!Tick
  <2>2. SaleWrites(status, next, raised, alloc, reopened)
    BY <1>1, <1>2, <1>4, <2>1 DEF Launchpad!Tick, SaleWrites, SaleFields
  <2>3. ClaimsRight(alloc, next)
    BY <1>2, <2>1 DEF ClaimsRight
  <2> QED
    BY <1>1, <1>2, <2>2, <2>3, SaleMoves
<1>5. ASSUME NEW new \in {"upcoming", "active", "completed", "cancelled"},
             Launchpad!UpdateProjectStatus(new)
      PROVE  SaleSound'
  <2>1. PICK again \in BOOLEAN : again = (reopened \/ (new = "active" /\ raised >= cap))
    BY <1>2 DEF Raising
  <2>2. SaleWrites(new, phase, raised, alloc, again)
    BY <1>1, <1>2, <1>5, <2>1 DEF Launchpad!UpdateProjectStatus, SaleWrites, SaleFields
  <2>3. Raising(cap, new, raised, again)
    BY <1>2, <2>1 DEF Raising
  <2> QED
    BY <1>1, <1>2, <2>2, <2>3, SaleMoves
<1>6. ASSUME NEW u \in Users, NEW x \in {1, 2, 3}, Launchpad!Participate(u, x) PROVE SaleSound'
  <2>1. x \in {1, 2} /\ status = "active"
    BY <1>1, <1>6 DEF Launchpad!Participate
  <2>2. PICK a \in Allocation : a = [user |-> u, amount |-> x, claimed |-> FALSE]
    BY <2>1 DEF Allocation
  <2> PICK sum \in Nat : sum = raised + x
    BY <1>3
  <2>3. PICK s : sum = raised + x /\ s = Append(alloc, a)
    OBVIOUS
  <2>4. PICK new : new = IF cap > 0 /\ sum >= cap THEN "completed" ELSE status
    OBVIOUS
  <2>5. Len(s) = Len(alloc) + 1
    BY <1>3, <2>2, <2>3
  <2>6. SaleWrites(new, phase, sum, s, reopened)
    BY <1>1, <1>2, <1>6, <2>2, <2>3, <2>4, <2>5
       DEF Launchpad!Participate, Launchpad!StatusAfter, SaleWrites, SaleFields
  <2>7. Allocated(s, sum)
    BY <1>2, <2>2, <2>3, BoughtMore
  <2>8. ClaimsRight(s, phase)
    <3>1. PICK n \in Nat : n = Len(alloc)
      BY <1>3
    <3>2. s[n + 1] = a /\ \A i \in 1..n : s[i] = alloc[i]
      BY <1>3, <2>3, <3>1
    <3>3. ASSUME NEW i \in 1..(n + 1), s[i].claimed
          PROVE  phase = 3 /\ \A j \in 1..i-1 : s[j].user # s[i].user
      <4>1. i \in 1..n
        BY <2>2, <3>1, <3>2, <3>3
      <4>2. phase = 3 /\ \A j \in 1..i-1 : alloc[j].user # alloc[i].user
        BY <1>2, <3>1, <3>2, <3>3, <4>1 DEF ClaimsRight
      <4> QED
        BY <3>2, <4>1, <4>2
    <3> QED
      BY <2>5, <3>1, <3>3 DEF ClaimsRight
  <2>9. Raising(cap, new, sum, reopened)
    BY <1>2, <1>3, <2>1, <2>3, <2>4 DEF Raising
  <2> QED
    BY <1>1, <1>2, <2>6, <2>7, <2>8, <2>9, SaleMoves
<1>7. ASSUME NEW u \in Users, Launchpad!ClaimTokens(u) PROVE SaleSound'
  <2>1. PICK i : i = Launchpad!FirstOf(u)
    OBVIOUS
  <2>2. i \in 1..Len(alloc) /\ alloc[i].user = u /\ \A j \in 1..(i - 1) : alloc[j].user # u
    BY <1>1, <1>3, <1>7, <2>1, FirstIs DEF Launchpad!ClaimTokens
  <2> PICK a : a = [alloc[i] EXCEPT !.claimed = TRUE]
    OBVIOUS
  <2>3. a = [alloc[i] EXCEPT !.claimed = TRUE]
        /\ a \in Allocation /\ a.user = alloc[i].user /\ a.amount = alloc[i].amount
    <3>1. alloc[i] \in Allocation
      BY <1>3, <2>2
    <3> QED
      BY <3>1 DEF Allocation
  <2>4. PICK s : s = [alloc EXCEPT ![i] = a] /\ s \in Seq(Allocation)
    <3>1. PICK s : s = [alloc EXCEPT ![i] = a]
      OBVIOUS
    <3>2. s \in Seq(Allocation)
      BY <1>3, <2>2, <2>3, <3>1, ExceptSeq
    <3> QED
      BY <3>1, <3>2
  <2>5. Len(s) = Len(alloc) /\ DOMAIN s = DOMAIN alloc
        /\ \A j \in 1..Len(alloc) : s[j].user = alloc[j].user /\ s[j].amount = alloc[j].amount
    BY <1>3, <2>2, <2>3, <2>4
  <2>6. SaleWrites(status, phase, raised, s, reopened) /\ phase = 3
    <3>1. db' = [db EXCEPT !.alloc = s]
      BY <1>1, <1>2, <1>7, <2>1, <2>3, <2>4 DEF Launchpad!ClaimTokens, SaleFields
    <3>2. phase = 3
      BY <1>1, <1>2, <1>7 DEF Launchpad!ClaimTokens, Launchpad!Phases
    <3> QED
      BY <1>1, <1>2, <2>5, <3>1, <3>2 DEF SaleWrites, SaleFields
  <2>7. Allocated(s, raised)
    <3>1. Bought(s) = Bought(alloc)
      BY <1>3, <2>5 DEF Bought
    <3> QED
      BY <1>2, <2>4, <2>5, <3>1 DEF Allocated
  <2>8. ClaimsRight(s, phase)
    <3> SUFFICES ASSUME NEW k \in 1..Len(alloc), s[k].claimed, NEW j \in 1..(k - 1)
                 PROVE  alloc[j].user # alloc[k].user
      BY <2>5, <2>6 DEF ClaimsRight
    <3>1. CASE k = i
      BY <2>2, <3>1
    <3>2. CASE k # i
      BY <1>2, <1>3, <2>2, <2>4, <3>2 DEF ClaimsRight
    <3> QED
      BY <3>1, <3>2
  <2> QED
    BY <1>1, <1>2, <2>6, <2>7, <2>8, SaleMoves
<1> QED
  BY <1>4, <1>5, <1>6, <1>7 DEF Launchpad!Next, Launchpad!Statuses

LEMMA SaleIsFair == SaleSound => Launchpad!SaleFair
<1> SUFFICES ASSUME SaleSound PROVE Launchpad!SaleFair
  OBVIOUS
<1>1. DOMAIN db.alloc = 1..Len(db.alloc)
  BY DEF SaleSound, Allocated
<1>2. Launchpad!Phases[3] = "ended"
  BY DEF Launchpad!Phases
<1>3. db.raised = Launchpad!Raised(db.alloc) /\ db.participants = Len(db.alloc)
  BY SaleRaised DEF SaleSound, Allocated
<1>4. db.cap > 0 /\ ~db.reopened => db.raised < db.cap + 2
  BY DEF SaleSound, Raising
<1>5. \A i \in DOMAIN db.alloc : db.alloc[i].claimed =>
        /\ Launchpad!Phases[db.phase] = "ended"
        /\ \A j \in 1..i-1 : db.alloc[j].user # db.alloc[i].user
  BY <1>1, <1>2 DEF SaleSound, ClaimsRight
<1> QED
  BY <1>3, <1>4, <1>5 DEF Launchpad!SaleFair

(* Bots.  An order is created for a request that counted; of a deleted bot   *)
(* only requests are left that loaded it before.                             *)
BotFields == {"there", "status", "limit", "pending", "config", "job"}
Jobs == {"idle", "counted", "active", "paused", "stopped"}
CountedJobs == {r \in Ids : db.job[r] = "counted"}
Busy == {r \in Ids : db.job[r] # "idle"}

BotsSound ==
    /\ BotFields \subseteq DOMAIN db /\ db.there \in BOOLEAN
    /\ db.status \in {"active", "paused", "stopped"}
    /\ db.limit \in Nat \ {0} /\ db.pending \in Nat /\ db.job \in [Ids -> Jobs]
    /\ db.pending + Cardinality(IF db.there THEN CountedJobs ELSE Busy)
          <= (IF db.there THEN db.limit ELSE 0) + Cardinality(Ids) - 1
    /\ Bots!ConfigReadable

LEMMA BotsInit == Bots!Init => BotsSound
<1> SUFFICES ASSUME Bots!Init PROVE BotsSound
  OBVIOUS
<1>1. PICK limit, config : /\ 1 <= limit /\ limit \in {1, 2, Cap} /\ Bots!Valid(config)
        /\ db = [there |-> TRUE, status |-> "active", limit |-> limit, pending |-> 0,
                 config |-> Bots!Canonical(config), job |-> [r \in Ids |-> "idle"]]
  BY DEF Bots!Init, Bots!CreateBot
<1>2. limit \in Nat \ {0}
  BY <1>1, PlatformAssumption
<1>3. Bots!ConfigReadable
  <2>1. PICK c : c = db.config /\ c = Bots!Canonical(config)
    BY <1>1
  <2>2. DOMAIN c = DOMAIN config /\ DOMAIN c \subseteq DOMAIN Bots!Schema
    BY <1>1, <2>1 DEF Bots!Canonical, Bots!Valid
  <2>3. \A k \in DOMAIN c : c[k] = (IF Bots!Schema[k] = "int" THEN "number" ELSE config[k])
                            /\ config[k] \in Bots!Accepts(Bots!Schema[k])
    BY <1>1, <2>1, <2>2 DEF Bots!Canonical, Bots!Valid
  <2> QED
    BY <2>1, <2>2, <2>3 DEF Bots!ConfigReadable
<1>4. CountedJobs = {}
  BY <1>1 DEF CountedJobs
<1>5. Cardinality(CountedJobs) = 0 /\ Cardinality(Ids) \in Nat
  BY <1>4, FS_EmptySet, FS_CardinalityType, PlatformAssumption
<1> QED
  BY <1>1, <1>2, <1>3, <1>5 DEF BotsSound, BotFields, Jobs

(* How many of the requests there are.                                       *)
LEMMA Among ==
  ASSUME NEW S \in SUBSET Ids
  PROVE  /\ Cardinality(S) \in Nat /\ Cardinality(Ids) \in Nat
         /\ Cardinality(S) <= Cardinality(Ids)
         /\ \A r \in Ids \ S : Cardinality(S) <= Cardinality(Ids) - 1
         /\ \A T \in SUBSET S : Cardinality(T) \in Nat /\ Cardinality(T) <= Cardinality(S)
         /\ \A r \in S : Cardinality(S \ {r}) = Cardinality(S) - 1
<1>1. IsFiniteSet(Ids) /\ IsFiniteSet(S)
  BY PlatformAssumption, FS_Subset
<1>2. Cardinality(S) \in Nat /\ Cardinality(Ids) \in Nat /\ Cardinality(S) <= Cardinality(Ids)
  BY <1>1, FS_CardinalityType, FS_Subset
<1>3. ASSUME NEW r \in Ids \ S PROVE Cardinality(S) <= Cardinality(Ids) - 1
  <2>1. IsFiniteSet(Ids \ {r}) /\ Cardinality(Ids \ {r}) = Cardinality(Ids) - 1
    BY <1>1, FS_RemoveElement
  <2>2. S \subseteq Ids \ {r}
    OBVIOUS
  <2> QED
    BY <2>1, <2>2, FS_Subset
<1>4. ASSUME NEW T \in SUBSET S PROVE Cardinality(T) \in Nat /\ Cardinality(T) <= Cardinality(S)
  BY <1>1, FS_Subset, FS_CardinalityType
<1>5. \A r \in S : Cardinality(S \ {r}) = Cardinality(S) - 1
  BY <1>1, FS_RemoveElement
<1> QED
  BY <1>2, <1>3, <1>4, <1>5

(* What an operation writes.                                                 *)
BotWrites(there, pending, job) ==
    /\ BotFields \subseteq DOMAIN db' /\ db'.there = there /\ db'.limit = db.limit
    /\ db'.pending = pending /\ db'.job = job /\ db'.config = db.config
    /\ db'.status \in {"active", "paused", "stopped"}

LEMMA BotsMove ==
  ASSUME BotsSound, NEW there \in BOOLEAN, NEW pending \in Nat, NEW job \in [Ids -> Jobs],
         BotWrites(there, pending, job),
         pending + Cardinality(IF there THEN {r \in Ids : job[r] = "counted"} ELSE {r \in Ids : job[r] # "idle"})
            <= (IF there THEN db.limit ELSE 0) + Cardinality(Ids) - 1
  PROVE  BotsSound'
<1>1. Bots!ConfigReadable'
  BY DEF BotsSound, BotWrites, Bots!ConfigReadable, Bots!Schema, Bots!Accepts
<1>2. (IF db.there THEN CountedJobs ELSE Busy)' = IF there THEN {r \in Ids : job[r] = "counted"} ELSE {r \in Ids : job[r] # "idle"}
  BY DEF BotWrites, CountedJobs, Busy
<1> QED
  BY <1>1, <1>2 DEF BotsSound, BotWrites

(* A request that had loaded the bot is done with it.                        *)
LEMMA BotsDone ==
  ASSUME BotsSound, NEW r \in Ids, db.job[r] # "idle", db.job[r] # "counted",
         BotWrites(db.there, db.pending, [db.job EXCEPT ![r] = "idle"])
  PROVE  BotsSound'
<1>1. PICK there \in BOOLEAN, pending \in Nat, limit \in Nat, job \in [Ids -> Jobs] :
        there = db.there /\ pending = db.pending /\ limit = db.limit /\ job = db.job
  BY DEF BotsSound
<1>2. PICK job1 \in [Ids -> Jobs] : job1 = [job EXCEPT ![r] = "idle"]
  BY DEF Jobs
<1>3. PICK S, S1 : S = (IF there THEN CountedJobs ELSE Busy)
                   /\ S1 = IF there THEN {q \in Ids : job1[q] = "counted"} ELSE {q \in Ids : job1[q] # "idle"}
  OBVIOUS
<1>4. S \in SUBSET Ids /\ S1 \in SUBSET S
  BY <1>1, <1>2, <1>3 DEF CountedJobs, Busy
<1>5. Cardinality(S1) <= Cardinality(S) /\ Cardinality(S) \in Nat /\ Cardinality(S1) \in Nat /\ Cardinality(Ids) \in Nat
  BY <1>4, Among
<1>6. pending + Cardinality(S) <= (IF there THEN limit ELSE 0) + Cardinality(Ids) - 1
  BY <1>1, <1>3 DEF BotsSound
<1>7. pending + Cardinality(S1) <= (IF there THEN limit ELSE 0) + Cardinality(Ids) - 1
  BY <1>5, <1>6
<1> QED
  BY <1>1, <1>2, <1>3, <1>7, BotsMove

LEMMA BotsStep == ASSUME BotsSound, Bots!Next PROVE BotsSound'
<1>1. PICK there \in BOOLEAN, pending \in Nat, limit \in Nat, job \in [Ids -> Jobs] :
        there = db.there /\ pending = db.pending /\ limit = db.limit /\ job = db.job
  BY DEF BotsSound
<1>2. PICK S, b : S = (IF there THEN CountedJobs ELSE Busy) /\ b = (IF there THEN limit ELSE 0)
  OBVIOUS
<1>3. S \in SUBSET Ids /\ b \in Nat /\ pending + Cardinality(S) <= b + Cardinality(Ids) - 1
  BY <1>1, <1>2 DEF BotsSound, CountedJobs, Busy
<1>4. Cardinality(Ids) \in Nat /\ Cardinality(S) \in Nat
  BY <1>3, Among
<1>5. BotFields \subseteq DOMAIN db /\ db.status \in {"active", "paused", "stopped"}
  BY DEF BotsSound
<1>6. CASE Bots!FinishOrder
  <2>1. PICK n \in Nat : n = pending - 1
    BY <1>1, <1>6 DEF Bots!FinishOrder
  <2>2. BotWrites(there, n, job)
    BY <1>1, <1>5, <1>6, <2>1 DEF Bots!FinishOrder, BotWrites, BotFields
  <2>3. n + Cardinality(S) <= b + Cardinality(Ids) - 1
    BY <1>3, <1>4, <2>1
  <2>4. S = IF there THEN {r \in Ids : job[r] = "counted"} ELSE {r \in Ids : job[r] # "idle"}
    BY <1>1, <1>2 DEF CountedJobs, Busy
  <2> QED
    BY <1>1, <1>2, <2>2, <2>3, <2>4, BotsMove
<1>7. ASSUME NEW r \in Ids, Bots!LoadBot(r) PROVE BotsSound'
  <2>1. PICK job1 \in [Ids -> Jobs] : job1 = [job EXCEPT ![r] = db.status]
    BY <1>5 DEF Jobs
  <2>2. BotWrites(there, pending, job1) /\ there /\ job[r] = "idle"
    BY <1>1, <1>5, <1>7, <2>1 DEF Bots!LoadBot, BotWrites, BotFields
  <2>3. S = {q \in Ids : job1[q] = "counted"}
    BY <1>1, <1>2, <1>5, <2>1, <2>2 DEF CountedJobs
  <2> QED
    BY <1>1, <1>2, <1>3, <2>2, <2>3, BotsMove
<1>8. ASSUME NEW r \in Ids, NEW status \in {"active", "paused", "stopped"}, Bots!UpdateBotStatus(r, status)
      PROVE  BotsSound'
  <2>1. PICK new \in {"active", "paused", "stopped"} : new = IF there THEN status ELSE db.status
    BY <1>5
  <2>2. db' = [db EXCEPT !.job[r] = "idle", !.status = new] /\ job[r] \notin {"idle", "counted"}
    BY <1>1, <1>8, <2>1 DEF Bots!UpdateBotStatus
  <2>3. BotWrites(there, pending, [job EXCEPT ![r] = "idle"])
    BY <1>1, <1>5, <2>2 DEF BotWrites, BotFields
  <2> QED
    BY <1>1, <2>2, <2>3, BotsDone
<1>9. ASSUME NEW r \in Ids, Bots!DeleteBot(r) PROVE BotsSound'
  <2>1. PICK job1 \in [Ids -> Jobs] : job1 = [job EXCEPT ![r] = "idle"]
    BY DEF Jobs
  <2>2. BotWrites(FALSE, 0, job1)
    BY <1>1, <1>5, <1>9, <2>1 DEF Bots!DeleteBot, BotWrites, BotFields
  <2>3. PICK S1 : S1 = {q \in Ids : job1[q] # "idle"}
    OBVIOUS
  <2>4. r \in Ids \ S1 /\ S1 \in SUBSET Ids
    BY <2>1, <2>3
  <2>5. Cardinality(S1) <= Cardinality(Ids) - 1 /\ Cardinality(S1) \in Nat
    BY <2>4, Among
  <2>6. 0 + Cardinality(S1) <= 0 + Cardinality(Ids) - 1
    BY <1>4, <2>5
  <2> QED
    BY <2>2, <2>3, <2>6, BotsMove
<1>10. ASSUME NEW r \in Ids, Bots!CountOrders(r) PROVE BotsSound'
  <2>1. CASE ~Bots!Room(pending)
    <3>1. BotWrites(there, pending, [job EXCEPT ![r] = "idle"]) /\ job[r] = "active"
      BY <1>1, <1>5, <1>10, <2>1 DEF Bots!CountOrders, BotWrites, BotFields
    <3> QED
      BY <1>1, <3>1, BotsDone
  <2>2. CASE Bots!Room(pending)
    <3>1. PICK job1 \in [Ids -> Jobs] : job1 = [job EXCEPT ![r] = "counted"]
      BY DEF Jobs
    <3>2. BotWrites(there, pending, job1) /\ job[r] = "active"
      BY <1>1, <1>5, <1>10, <2>2, <3>1 DEF Bots!CountOrders, BotWrites, BotFields
    <3>3. pending < limit
      BY <1>1, <2>2 DEF Bots!Room
    <3>4. PICK S1 : S1 = IF there THEN {q \in Ids : job1[q] = "counted"} ELSE {q \in Ids : job1[q] # "idle"}
      OBVIOUS
    <3>5. S1 \in SUBSET Ids /\ (~there => S1 = S)
      BY <1>1, <1>2, <3>1, <3>2, <3>4 DEF Busy
    <3>6. Cardinality(S1) \in Nat /\ Cardinality(S1) <= Cardinality(Ids)
      BY <3>5, Among
    <3>7. pending + Cardinality(S1) <= (IF there THEN limit ELSE 0) + Cardinality(Ids) - 1
      <4>1. CASE there
        BY <1>4, <3>3, <3>6, <4>1
      <4>2. CASE ~there
        BY <1>2, <1>3, <3>5, <4>2
      <4> QED
        BY <4>1, <4>2
    <3> QED
      BY <1>1, <3>2, <3>4, <3>7, BotsMove
  <2> QED
    BY <2>1, <2>2
<1>11. ASSUME NEW r \in Ids, Bots!RecordBotOrder(r) PROVE BotsSound'
  <2>1. PICK n \in Nat : n = pending + 1
    OBVIOUS
  <2> PICK job1 \in [Ids -> Jobs] : job1 = [job EXCEPT ![r] = "idle"]
    BY DEF Jobs
  <2>2. BotWrites(there, n, job1) /\ job[r] = "counted"
    BY <1>1, <1>5, <1>11, <2>1 DEF Bots!RecordBotOrder, BotWrites, BotFields
  <2>3. PICK S1 : S1 = IF there THEN {q \in Ids : job1[q] = "counted"} ELSE {q \in Ids : job1[q] # "idle"}
    OBVIOUS
  <2>4. r \in S /\ S1 = S \ {r}
    BY <1>1, <1>2, <2>1, <2>2, <2>3 DEF CountedJobs, Busy
  <2>5. Cardinality(S1) = Cardinality(S) - 1
    BY <1>3, <2>4, Among
  <2>6. n + Cardinality(S1) <= b + Cardinality(Ids) - 1
    BY <1>3, <1>4, <2>1, <2>5
  <2> QED
    BY <1>1, <1>2, <2>2, <2>3, <2>6, BotsMove
<1> QED
  BY <1>6, <1>7, <1>8, <1>9, <1>10, <1>11 DEF Bots!Next, Bots!Statuses

LEMMA BotsKept == BotsSound => Bots!LimitKept /\ Bots!ConfigReadable
<1> SUFFICES ASSUME BotsSound PROVE Bots!LimitKept
  BY DEF BotsSound
<1>1. CountedJobs \in SUBSET Ids /\ Busy \in SUBSET Ids
  BY DEF CountedJobs, Busy
<1>2. PICK c \in Nat, b \in Nat, n \in Nat : c = Cardinality(CountedJobs) /\ b = Cardinality(Busy) /\ n = Cardinality(Ids)
  BY <1>1, Among
<1>3. PICK limit \in Nat, pending \in Nat : limit = db.limit /\ pending = db.pending
  BY DEF BotsSound
<1> Bots!Cardinality(Ids) = n
  BY <1>2 DEF Cardinality, Bots!Cardinality
<1>4. CASE db.there
  <2>1. pending + c <= limit + n - 1
    BY <1>2, <1>3, <1>4 DEF BotsSound
  <2>2. pending <= limit + (n - 1)
    BY <2>1
  <2> QED
    BY <1>2, <1>3, <1>4, <2>2 DEF Bots!LimitKept
<1>5. CASE ~db.there
  <2>1. pending + b <= 0 + n - 1
    BY <1>2, <1>3, <1>5 DEF BotsSound
  <2>2. pending <= n - 1
    BY <2>1
  <2> QED
    BY <1>2, <1>3, <1>5, <2>2 DEF Bots!LimitKept
<1> QED
  BY <1>4, <1>5

TradesIInv ==
    /\ service \in Services
    /\ (service = "block" => BlockSound)
    /\ (service = "launchpad" => SaleSound)
    /\ (service = "bots" => BotsSound)

(* A trade is what its parties agreed: the terms of an OTC order, the        *)
(* schedule of a TWAMM order, the limits of a sale and of a bot, for any     *)
(* number of users and requests.                                             *)
THEOREM PlatformTradesAsAgreed == Spec => []TradesAsAgreed
<1>1. Init => TradesIInv
  BY BlockInit, SaleInit, BotsInit DEF Init, TradesIInv, Services
<1>2. TradesIInv /\ [Next]_<<service, db>> => TradesIInv'
  <2> SUFFICES ASSUME TradesIInv, [Next]_<<service, db>> PROVE TradesIInv'
    OBVIOUS
  <2>1. CASE UNCHANGED <<service, db>>
    BY <2>1 DEF TradesIInv, BlockSound, SaleSound, BotsSound, CountedJobs, Busy, Bots!ConfigReadable
  <2>2. CASE Next
    <3>1. /\ service' = service
          /\ (service = "block" => Block!Next)
          /\ (service = "launchpad" => Launchpad!Next)
          /\ (service = "bots" => Bots!Next)
      BY <2>2 DEF Next, Step
    <3> QED
      BY <3>1, BlockStep, SaleStep, BotsStep DEF TradesIInv
  <2> QED
    BY <2>1, <2>2
<1>3. TradesIInv => TradesAsAgreed
  BY BlockKept, SaleIsFair, BotsKept DEF TradesIInv, TradesAsAgreed
<1> QED
  BY <1>1, <1>2, <1>3, PTL DEF Spec

----
(* Options: the pool and the users' accounts.                                *)
SeriesRow == [status : {"active", "paused", "expired", "settled"}, call : BOOLEAN, mark : Nat,
              price : Nat, due : BOOLEAN, coll : Nat, locked : Nat, long : Nat]

PoolHeld(series, bal, principal, size) ==
    /\ series \in SeriesRow
    /\ bal \in [Users -> Nat] /\ principal \in [Users -> Nat] /\ size \in [Users -> Nat]
    /\ series.coll + Sum(bal, Users) = 2 * Cardinality(Users)

PoolSound ==
    /\ OptionsFields \subseteq DOMAIN db /\ db.seen.mark \in Nat
    /\ PoolHeld(db.series, db.bal, db.principal, db.size)

LEMMA PoolInit == Options!Init => PoolSound
<1> SUFFICES ASSUME Options!Init PROVE PoolSound
  OBVIOUS
<1>1. PICK call \in BOOLEAN, mark \in {1, 3}, status \in Options!Statuses :
        db = [series |-> Options!CreateSeries(call, mark, status),
              seen |-> Options!Load(Options!CreateSeries(call, mark, status)),
              principal |-> [u \in Users |-> 0], size |-> [u \in Users |-> 0],
              bal |-> [u \in Users |-> 2]]
  BY DEF Options!Init
<1> PICK series : series = Options!CreateSeries(call, mark, status)
  OBVIOUS
<1>2. series = Options!CreateSeries(call, mark, status) /\ series \in SeriesRow /\ series.coll = 0
  BY DEF Options!CreateSeries, Options!Statuses, SeriesRow
<1>3. Options!Load(series).mark \in Nat
  BY <1>2 DEF Options!Load, SeriesRow
<1>4. Sum([u \in Users |-> 2], Users) = 2 * Cardinality(Users) /\ Cardinality(Users) \in Nat
  BY PlatformAssumption, SumConstant, FS_CardinalityType
<1> QED
  BY <1>1, <1>2, <1>3, <1>4 DEF PoolSound, PoolHeld, OptionsFields

PoolChanges(series, bal, principal, size) ==
    /\ OptionsFields \subseteq DOMAIN db' /\ db'.seen = db.seen
    /\ db'.series = series /\ db'.bal = bal /\ db'.principal = principal /\ db'.size = size

LEMMA PoolMoves ==
  ASSUME PoolSound, NEW series, NEW bal, NEW principal, NEW size,
         PoolChanges(series, bal, principal, size), PoolHeld(series, bal, principal, size)
  PROVE  PoolSound'
  BY DEF PoolSound, PoolChanges

LEMMA PoolStep == ASSUME PoolSound, Options!Next PROVE PoolSound'
<1>1. PICK series \in SeriesRow, bal \in [Users -> Nat], principal \in [Users -> Nat], size \in [Users -> Nat] :
        series = db.series /\ bal = db.bal /\ principal = db.principal /\ size = db.size
  BY DEF PoolSound, PoolHeld
<1>2. PICK coll \in Nat, locked \in Nat, long \in Nat, total \in Nat, users \in Nat :
        /\ coll = series.coll /\ locked = series.locked /\ long = series.long
        /\ total = Sum(bal, Users) /\ users = Cardinality(Users) /\ coll + total = 2 * users
  <2>1. Sum(bal, Users) \in Nat /\ Cardinality(Users) \in Nat
    BY PlatformAssumption, SumNat, FS_CardinalityType
  <2> QED
    BY <1>1, <2>1 DEF PoolSound, PoolHeld, SeriesRow
<1>3. OptionsFields \subseteq DOMAIN db
  BY DEF PoolSound
<1>4. \A s \in Options!Loaded : s.mark \in Nat
  BY <1>1 DEF PoolSound, Options!Loaded, Options!Load, SeriesRow
<1>5. CASE Options!LoadSeries
  <2>1. /\ db'.series = series /\ db'.bal = bal /\ db'.principal = principal /\ db'.size = size
        /\ OptionsFields \subseteq DOMAIN db' /\ db'.seen.mark = series.mark
    BY <1>1, <1>3, <1>5 DEF Options!LoadSeries, Options!Load, OptionsFields
  <2> QED
    BY <1>1, <1>2, <2>1 DEF PoolSound, PoolHeld, SeriesRow
<1>6. ASSUME NEW series1 \in SeriesRow, series1.coll = coll, db' = [db EXCEPT !.series = series1]
      PROVE  PoolSound'
  <2>1. PoolChanges(series1, bal, principal, size)
    BY <1>1, <1>3, <1>6 DEF PoolChanges, OptionsFields
  <2>2. PoolHeld(series1, bal, principal, size)
    BY <1>1, <1>2, <1>6 DEF PoolHeld
  <2> QED
    BY <2>1, <2>2, PoolMoves
<1>7. CASE Options!Expire
  <2>1. PICK series1 : series1 = [series EXCEPT !.due = TRUE]
    OBVIOUS
  <2>2. series1 \in SeriesRow /\ series1.coll = coll /\ db' = [db EXCEPT !.series = series1]
    BY <1>1, <1>2, <1>3, <1>7, <2>1 DEF Options!Expire, SeriesRow, OptionsFields
  <2> QED
    BY <1>6, <2>2
<1>8. ASSUME NEW mark \in {1, 3}, Options!RefreshMarkPrice(mark) PROVE PoolSound'
  <2>1. PICK series1 : series1 = [series EXCEPT !.mark = mark]
    OBVIOUS
  <2>2. series1 \in SeriesRow /\ series1.coll = coll /\ db' = [db EXCEPT !.series = series1]
    BY <1>1, <1>2, <1>3, <1>8, <2>1 DEF Options!RefreshMarkPrice, SeriesRow, OptionsFields
  <2> QED
    BY <1>6, <2>2
<1>9. ASSUME NEW s, NEW mark \in {1, 3}, NEW due \in BOOLEAN, NEW status \in Options!Statuses,
             Options!UpdateSeries(s, mark, due, status)
      PROVE  PoolSound'
  <2>1. PICK series1 : series1 = [series EXCEPT !.mark = mark, !.due = due, !.status = status]
    OBVIOUS
  <2>2. series1 \in SeriesRow /\ series1.coll = coll
    <3>1. mark \in Nat /\ status \in {"active", "paused", "expired", "settled"}
      BY DEF Options!Statuses
    <3> HIDE DEF Options!Statuses
    <3>2. series1 \in SeriesRow /\ series1.coll = series.coll
      BY <2>1, <3>1 DEF SeriesRow
    <3> QED
      BY <1>2, <3>2
  <2>3. db' = [db EXCEPT !.series = series1]
    BY <1>1, <1>3, <1>9, <2>1 DEF Options!UpdateSeries, OptionsFields
  <2> QED
    BY <1>6, <2>2, <2>3
<1>10. ASSUME NEW s, Options!DeleteSeries(s) PROVE PoolSound'
  <2>1. PICK series1 : series1 = [series EXCEPT !.status = "expired"]
    OBVIOUS
  <2>2. series1 \in SeriesRow /\ series1.coll = coll /\ db' = [db EXCEPT !.series = series1]
    BY <1>1, <1>2, <1>3, <1>10, <2>1 DEF Options!DeleteSeries, SeriesRow, OptionsFields
  <2> QED
    BY <1>6, <2>2
<1>11. ASSUME NEW s, NEW p \in {1, 3}, Options!SettleSeries(s, p) PROVE PoolSound'
  <2>1. PICK series1 : series1 = [series EXCEPT !.price = p, !.status = "settled"]
    OBVIOUS
  <2>2. series1 \in SeriesRow /\ series1.coll = coll
    <3>1. p \in Nat
      OBVIOUS
    <3>2. series1 \in SeriesRow /\ series1.coll = series.coll
      BY <2>1, <3>1 DEF SeriesRow
    <3> QED
      BY <1>2, <3>2
  <2>3. db' = [db EXCEPT !.series = series1]
    BY <1>1, <1>3, <1>11, <2>1 DEF Options!SettleSeries, Options!Closed, OptionsFields
  <2> QED
    BY <1>6, <2>2, <2>3
<1>12. ASSUME NEW series1 \in SeriesRow, NEW principal1 \in [Users -> Nat], NEW size1 \in [Users -> Nat],
              NEW u \in Users, NEW n \in Nat, series1.coll + n = coll + bal[u],
              PoolChanges(series1, [bal EXCEPT ![u] = n], principal1, size1)
       PROVE  PoolSound'
  <2>1. PICK bal1 \in [Users -> Nat] : bal1 = [bal EXCEPT ![u] = n]
    OBVIOUS
  <2> PICK b \in Nat : b = bal[u]
    OBVIOUS
  <2>2. b = bal[u] /\ Sum(bal1, Users) = total - b + n
    <3>1. bal1[u] = n /\ \A v \in Users : v # u => bal1[v] = bal[v]
      BY <2>1
    <3>2. Sum(bal1, Users) = Sum(bal, Users) - bal[u] + bal1[u]
      BY <3>1, SizeChanges
    <3> QED
      BY <1>2, <3>1, <3>2
  <2>3. PICK c \in Nat : c = series1.coll
    BY DEF SeriesRow
  <2>4. c + (total - b + n) = 2 * users
    BY <1>2, <1>12, <2>2, <2>3
  <2>5. PoolHeld(series1, bal1, principal1, size1)
    BY <1>2, <2>1, <2>2, <2>3, <2>4 DEF PoolHeld
  <2> QED
    BY <1>12, <2>1, <2>5, PoolMoves
<1>13. ASSUME NEW u \in Users, NEW s, Options!AddCollateral(u, s, 2) PROVE PoolSound'
  <2>1. PICK n \in Nat, p \in Nat, c \in Nat : n = bal[u] - 2 /\ p = principal[u] + 2 /\ c = coll + 2
    BY <1>1, <1>13 DEF Options!AddCollateral
  <2>2. PICK series1 : series1 = [series EXCEPT !.coll = c]
    OBVIOUS
  <2>3. series1 \in SeriesRow /\ series1.coll + n = coll + bal[u]
    BY <2>1, <2>2 DEF SeriesRow
  <2>4. PICK principal1 \in [Users -> Nat] : principal1 = [principal EXCEPT ![u] = p]
    OBVIOUS
  <2>5. PoolChanges(series1, [bal EXCEPT ![u] = n], principal1, size)
    BY <1>1, <1>2, <1>3, <1>13, <2>1, <2>2, <2>4 DEF Options!AddCollateral, PoolChanges, OptionsFields
  <2> QED
    BY <1>12, <2>3, <2>5
<1>14. ASSUME NEW u \in Users, NEW s, Options!RemoveCollateral(u, s, 2) \/ Options!WithdrawLiquidity(u, s, 2)
       PROVE  PoolSound'
  <2>1. Options!TakeOut(u, 2)
    BY <1>14 DEF Options!RemoveCollateral, Options!WithdrawLiquidity
  <2>2. 2 <= coll - locked /\ 2 <= principal[u]
    <3>1. PICK d \in Int : d = coll - locked
      OBVIOUS
    <3>2. Options!Max({0, d}) = IF 0 <= d THEN d ELSE 0
      BY DEF Options!Max
    <3> QED
      BY <1>1, <1>2, <2>1, <3>1, <3>2 DEF Options!TakeOut, Options!Free
  <2>3. PICK n \in Nat, p \in Nat, c \in Nat : n = bal[u] + 2 /\ p = principal[u] - 2 /\ c = coll - 2
    BY <2>2
  <2>4. PICK series1 : series1 = [series EXCEPT !.coll = c]
    OBVIOUS
  <2>5. series1 \in SeriesRow /\ series1.coll + n = coll + bal[u]
    BY <2>3, <2>4 DEF SeriesRow
  <2>6. PICK principal1 \in [Users -> Nat] : principal1 = [principal EXCEPT ![u] = p]
    OBVIOUS
  <2>7. PoolChanges(series1, [bal EXCEPT ![u] = n], principal1, size)
    BY <1>1, <1>2, <1>3, <2>1, <2>3, <2>4, <2>6 DEF Options!TakeOut, PoolChanges, OptionsFields
  <2> QED
    BY <1>12, <2>5, <2>7
<1>15. ASSUME NEW u \in Users, NEW s \in Options!Loaded, Options!Buy(u, s, 1, 1) PROVE PoolSound'
  <2>1. PICK lock \in Nat : lock = Options!RequiredCollateral(s, 1)
    BY <1>4 DEF Options!RequiredCollateral
  <2>2. PICK n \in Nat, m \in Nat, c \in Nat : n = bal[u] - 1 /\ m = size[u] + 1 /\ c = coll + 1
    BY <1>1, <1>15 DEF Options!Buy
  <2>3. PICK k \in Nat, g \in Nat : k = locked + lock /\ g = long + 1
    BY <2>1
  <2>4. PICK series1 : series1 = [series EXCEPT !.coll = c, !.locked = k, !.long = g]
    OBVIOUS
  <2>5. series1 \in SeriesRow /\ series1.coll + n = coll + bal[u]
    <3>1. series1 \in SeriesRow /\ series1.coll = c
      BY <2>4 DEF SeriesRow
    <3> QED
      BY <2>2, <3>1
  <2>6. PICK size1 \in [Users -> Nat] : size1 = [size EXCEPT ![u] = m]
    OBVIOUS
  <2>7. PoolChanges(series1, [bal EXCEPT ![u] = n], principal, size1)
    BY <1>1, <1>2, <1>3, <1>15, <2>1, <2>2, <2>3, <2>4, <2>6 DEF Options!Buy, PoolChanges, OptionsFields
  <2> QED
    BY <1>12, <2>5, <2>7
<1>16. ASSUME NEW u \in Users, NEW s, Options!Exercise(u, s) PROVE PoolSound'
  <2>1. PICK m \in Nat, price \in Nat, mark \in Nat :
          m = size[u] /\ price = series.price /\ mark = series.mark
    BY DEF SeriesRow
  <2>2. PICK payout \in Nat : payout = Options!PayoutAt(series, m)
    <3>1. PICK d \in Int : d = IF series.call THEN price - 2 ELSE 2 - price
      OBVIOUS
    <3>2. PICK e \in Nat : e = Options!Max({0, d})
      BY DEF Options!Max
    <3>3. e * m \in Nat
      BY <3>2
    <3> QED
      BY <2>1, <3>1, <3>2, <3>3 DEF Options!PayoutAt
  <2>3. PICK c \in Nat : c = coll - payout
    BY <1>1, <1>2, <1>16, <2>1, <2>2 DEF Options!Exercise
  <2>4. PICK released \in Nat : released = Options!Max({0, locked - Options!RequiredCollateral(series, m)})
    <3>1. PICK r \in Int : r = Options!RequiredCollateral(series, m)
      <4>1. mark * m \in Int /\ 2 * m \in Int
        OBVIOUS
      <4> QED
        BY <2>1, <4>1 DEF Options!RequiredCollateral
    <3>2. PICK d \in Int : d = locked - r
      OBVIOUS
    <3> QED
      BY <3>1, <3>2 DEF Options!Max
  <2>5. PICK k \in Nat : k = Options!Min({released, c})
    BY DEF Options!Min
  <2>6. PICK g \in Nat : g = Options!Max({0, long - m})
    <3>1. PICK d \in Int : d = long - m
      OBVIOUS
    <3> QED
      BY <3>1 DEF Options!Max
  <2>7. PICK n \in Nat : n = bal[u] + payout
    OBVIOUS
  <2>8. PICK series1 : series1 = [series EXCEPT !.coll = c, !.locked = k, !.long = g]
    OBVIOUS
  <2>9. series1 \in SeriesRow /\ series1.coll + n = coll + bal[u]
    <3>1. series1 \in SeriesRow /\ series1.coll = c
      BY <2>8 DEF SeriesRow
    <3>2. PICK b \in Nat : b = bal[u]
      OBVIOUS
    <3> QED
      BY <2>3, <2>7, <3>1, <3>2
  <2>10. PICK size1 \in [Users -> Nat] : size1 = [size EXCEPT ![u] = 0]
    OBVIOUS
  <2>11. PoolChanges(series1, [bal EXCEPT ![u] = n], principal, size1)
    BY <1>1, <1>2, <1>3, <1>16, <2>1, <2>2, <2>3, <2>4, <2>5, <2>6, <2>7, <2>8, <2>10
       DEF Options!Exercise, PoolChanges, OptionsFields
  <2> QED
    BY <1>12, <2>9, <2>11
<1>17. \A due \in {FALSE, db.series.due} : due \in BOOLEAN
  BY <1>1 DEF SeriesRow
<1> QED
  BY <1>5, <1>7, <1>8, <1>9, <1>10, <1>11, <1>13, <1>14, <1>15, <1>16, <1>17 DEF Options!Next

LEMMA PoolIsHeld == PoolSound => Options!PoolIsWhole /\ Options!TypeOK
<1> SUFFICES ASSUME PoolSound PROVE Options!PoolIsWhole /\ Options!TypeOK
  OBVIOUS
<1>1. Options!Total(db.bal) = Sum(db.bal, Users)
  BY OptionsTotal DEF PoolSound, PoolHeld
<1>2. Options!Cardinality(Users) = Cardinality(Users)
  BY DEF Cardinality, Options!Cardinality
<1>3. Options!PoolIsWhole
  BY <1>1, <1>2 DEF PoolSound, PoolHeld, Options!PoolIsWhole
<1>4. Options!TypeOK
  BY DEF PoolSound, PoolHeld, SeriesRow, Options!TypeOK, Options!Statuses
<1> QED
  BY <1>3, <1>4

(* Airdrop: the campaign's escrow and the users' accounts.                   *)
EscrowHeld(funded, claimed, bal) ==
    /\ funded \in Nat /\ claimed \in Nat /\ claimed <= funded
    /\ bal \in [Users -> Nat]
    /\ Sum(bal, Users) + funded - claimed = 2 * Cardinality(Users)

AllocRight(alloc) ==
    /\ DOMAIN alloc \subseteq Users
    /\ \A u \in DOMAIN alloc : {"amount", "claimed"} \subseteq DOMAIN alloc[u] /\ alloc[u].amount \in {1, 2}

EscrowSound ==
    /\ AirdropFields \subseteq DOMAIN db
    /\ db.status \in {"paused", "active", "closed"}
    /\ AllocRight(db.alloc) /\ EscrowHeld(db.funded, db.claimed, db.bal)

LEMMA EscrowInit == Airdrop!Init => EscrowSound
<1> SUFFICES ASSUME NEW window \in BOOLEAN, NEW d,
                    d = Airdrop!CreateCampaign(window),
                    db = [x \in DOMAIN d \cup {"seen"} |-> IF x = "seen" THEN Airdrop!Load(d) ELSE d[x]]
             PROVE  EscrowSound
  BY DEF Airdrop!Init
<1>1. /\ AirdropFields \subseteq DOMAIN d \cup {"seen"}
      /\ {"status", "funded", "claimed", "bal", "alloc"} \subseteq DOMAIN d
      /\ d.status = "paused" /\ d.funded = 0 /\ d.claimed = 0 /\ d.alloc = <<>>
      /\ d.bal = [u \in Users |-> 2]
  BY DEF Airdrop!CreateCampaign, AirdropFields
<1>2. /\ AirdropFields \subseteq DOMAIN db
      /\ db.status = "paused" /\ db.funded = 0 /\ db.claimed = 0 /\ db.alloc = <<>>
      /\ db.bal = [u \in Users |-> 2]
  BY <1>1
<1> PICK bal \in [Users -> Nat] : bal = [u \in Users |-> 2]
  OBVIOUS
<1>3. bal = [u \in Users |-> 2] /\ Sum(bal, Users) = 2 * Cardinality(Users) /\ 2 * Cardinality(Users) \in Nat
  <2>1. PICK c \in Nat : c = Cardinality(Users)
    BY PlatformAssumption, FS_CardinalityType
  <2>2. \A u \in Users : bal[u] = 2
    OBVIOUS
  <2>3. Sum(bal, Users) = 2 * Cardinality(Users)
    BY <2>2, PlatformAssumption, SumConstant
  <2> QED
    BY <2>1, <2>3
<1>4. EscrowHeld(0, 0, bal)
  BY <1>3 DEF EscrowHeld
<1>5. AllocRight(<<>>)
  BY DEF AllocRight
<1> QED
  BY <1>2, <1>3, <1>4, <1>5 DEF EscrowSound

LEMMA EscrowStep == ASSUME EscrowSound, Airdrop!Next PROVE EscrowSound'
<1>1. AirdropFields \subseteq DOMAIN db /\ db.status \in {"paused", "active", "closed"}
  BY DEF EscrowSound
<1> PICK alloc : alloc = db.alloc
  OBVIOUS
<1>2. PICK bal \in [Users -> Nat], funded \in Nat, claimed \in Nat :
        /\ bal = db.bal /\ funded = db.funded /\ claimed = db.claimed /\ alloc = db.alloc
        /\ AllocRight(alloc) /\ EscrowHeld(funded, claimed, bal)
  BY DEF EscrowSound, EscrowHeld
<1>3. ASSUME NEW alloc1, NEW status \in {"paused", "active", "closed"}, AllocRight(alloc1),
             AirdropFields \subseteq DOMAIN db', db'.status = status, db'.alloc = alloc1,
             db'.funded = funded, db'.claimed = claimed, db'.bal = bal
      PROVE  EscrowSound'
  BY <1>2, <1>3 DEF EscrowSound
<1>4. CASE Airdrop!LoadRows
  BY <1>1, <1>2, <1>3, <1>4 DEF Airdrop!LoadRows, AirdropFields
<1>5. ASSUME NEW status \in {"paused", "active", "closed"}, NEW w, Airdrop!UpdateCampaign(status, w)
      PROVE  EscrowSound'
  BY <1>1, <1>2, <1>3, <1>5 DEF Airdrop!UpdateCampaign, AirdropFields
<1>6. ASSUME NEW s, NEW U \in SUBSET Users, NEW new \in [U -> {1, 2}], Airdrop!SetAllocations(s, new)
      PROVE  EscrowSound'
  <2>1. PICK alloc1 : alloc1 = [u \in DOMAIN new |-> [amount |-> new[u], claimed |-> FALSE]]
    OBVIOUS
  <2>2. AllocRight(alloc1)
    BY <2>1 DEF AllocRight
  <2> QED
    BY <1>1, <1>2, <1>3, <1>6, <2>1, <2>2 DEF Airdrop!SetAllocations, AirdropFields
<1>7. ASSUME NEW s, Airdrop!DeleteCampaign(s) PROVE EscrowSound'
  <2>1. CASE db' = [db EXCEPT !.status = "closed"]
    BY <1>1, <1>2, <1>3, <2>1 DEF AirdropFields
  <2>2. CASE db' = [db EXCEPT !.alloc = <<>>, !.there = FALSE]
    <3>1. AllocRight(<<>>)
      BY DEF AllocRight
    <3> QED
      BY <1>1, <1>2, <1>3, <2>2, <3>1 DEF AirdropFields
  <2> QED
    BY <1>7, <2>1, <2>2 DEF Airdrop!DeleteCampaign
<1>8. ASSUME NEW alloc1, AllocRight(alloc1), NEW u \in Users, NEW n \in Nat,
             NEW more \in Nat, NEW paid \in Nat, paid <= more,
             n - bal[u] = (funded - claimed) - (more - paid),
             AirdropFields \subseteq DOMAIN db', db'.status = db.status, db'.alloc = alloc1,
             db'.funded = more, db'.claimed = paid, db'.bal = [bal EXCEPT ![u] = n]
      PROVE  EscrowSound'
  <2>1. PICK bal1 \in [Users -> Nat] : bal1 = [bal EXCEPT ![u] = n]
    OBVIOUS
  <2>2. bal1[u] = n /\ \A v \in Users : v # u => bal1[v] = bal[v]
    BY <2>1
  <2>3. Sum(bal1, Users) = Sum(bal, Users) - bal[u] + n
    BY <2>2, SizeChanges
  <2>4. PICK t \in Nat, b \in Nat, c \in Nat :
          t = Sum(bal, Users) /\ b = bal[u] /\ c = 2 * Cardinality(Users)
    <3>1. Sum(bal, Users) \in Nat
      BY PlatformAssumption, SumNat
    <3>2. 2 * Cardinality(Users) \in Nat
      BY PlatformAssumption, FS_CardinalityType
    <3> QED
      BY <3>1, <3>2
  <2>5. t - b + n + more - paid = c
    <3>1. t + funded - claimed = c
      BY <1>2, <2>4 DEF EscrowHeld
    <3>2. n - b = (funded - claimed) - (more - paid)
      BY <1>8, <2>4
    <3> QED
      BY <3>1, <3>2
  <2>6. EscrowHeld(more, paid, bal1)
    BY <1>8, <2>3, <2>4, <2>5 DEF EscrowHeld
  <2> QED
    BY <1>1, <1>8, <2>1, <2>6 DEF EscrowSound
<1>9. ASSUME NEW u \in Users, NEW x \in {1, 2}, Airdrop!FundCampaign(u, x) PROVE EscrowSound'
  <2>1. bal[u] >= x
    BY <1>2, <1>9 DEF Airdrop!FundCampaign
  <2>2. PICK b \in Nat : b = bal[u]
    OBVIOUS
  <2>3. PICK n \in Nat : n = b - x
    BY <2>1, <2>2
  <2> PICK more \in Nat : more = funded + x
    OBVIOUS
  <2>4. n - b = (funded - claimed) - (more - claimed) /\ claimed <= more
    BY <1>2, <2>3 DEF EscrowHeld
  <2>5. /\ AirdropFields \subseteq DOMAIN db' /\ db'.status = db.status /\ db'.alloc = alloc
        /\ db'.funded = more /\ db'.claimed = claimed /\ db'.bal = [bal EXCEPT ![u] = n]
    BY <1>1, <1>2, <1>9, <2>2, <2>3 DEF Airdrop!FundCampaign, AirdropFields
  <2> QED
    BY <1>2, <1>8, <2>2, <2>4, <2>5
<1>10. ASSUME NEW u \in Users, NEW s, Airdrop!ClaimAirdrop(u, s) PROVE EscrowSound'
  <2>1. u \in DOMAIN alloc /\ funded - claimed >= alloc[u].amount /\ alloc[u].amount \in {1, 2}
    BY <1>2, <1>10 DEF Airdrop!ClaimAirdrop, Airdrop!Payable, AllocRight
  <2>2. PICK x \in {1, 2}, b \in Nat : x = alloc[u].amount /\ b = bal[u]
    BY <2>1
  <2>3. PICK n \in Nat : n = b + x
    BY <2>2
  <2> PICK paid \in Nat : paid = claimed + x
    OBVIOUS
  <2>4. n - b = (funded - claimed) - (funded - paid) /\ paid <= funded
    BY <2>1, <2>2, <2>3
  <2>5. PICK alloc1 : alloc1 = [alloc EXCEPT ![u].claimed = TRUE]
    OBVIOUS
  <2>6. AllocRight(alloc1)
    BY <1>2, <2>5 DEF AllocRight
  <2>7. /\ AirdropFields \subseteq DOMAIN db' /\ db'.status = db.status /\ db'.alloc = alloc1
        /\ db'.funded = funded /\ db'.claimed = paid /\ db'.bal = [bal EXCEPT ![u] = n]
    BY <1>1, <1>2, <1>10, <2>2, <2>3, <2>5 DEF Airdrop!ClaimAirdrop, AirdropFields
  <2> QED
    BY <1>2, <1>8, <2>1, <2>2, <2>4, <2>6, <2>7
<1> QED
  BY <1>4, <1>5, <1>6, <1>7, <1>9, <1>10 DEF Airdrop!Next, Airdrop!Statuses

LEMMA EscrowPays == EscrowSound => Airdrop!PaidFromEscrow /\ Airdrop!TypeOK
<1> SUFFICES ASSUME EscrowSound PROVE Airdrop!PaidFromEscrow /\ Airdrop!TypeOK
  OBVIOUS
<1>1. db.bal \in [Users -> Nat] /\ EscrowHeld(db.funded, db.claimed, db.bal)
  BY DEF EscrowSound, EscrowHeld
<1>2. Airdrop!Total(db.bal) = Sum(db.bal, Users)
  BY <1>1 DEF Airdrop!Total, Sum, Airdrop!MapThenSumSet, MapThenSumSet, Airdrop!MapThenFoldSet, MapThenFoldSet
<1>3. Airdrop!Cardinality(Users) = Cardinality(Users)
  BY DEF Cardinality, Airdrop!Cardinality
<1>4. Airdrop!PaidFromEscrow
  BY <1>1, <1>2, <1>3 DEF EscrowHeld, Airdrop!PaidFromEscrow
<1> QED
  BY <1>1, <1>4 DEF EscrowSound, EscrowHeld, AllocRight, Airdrop!TypeOK, Airdrop!Statuses

(* NFT payments: what the users and the fee account have and the live offer  *)
(* holds.                                                                    *)
BidFields == {"token", "buyer", "price", "rate", "late", "status"}
Accounts == Users \cup {"fees"}

AdsRight(listing) == \A l \in DOMAIN listing :
    /\ ListingFields \subseteq DOMAIN listing[l] /\ listing[l].seller \in Users
    /\ listing[l].price = Cap /\ listing[l].rate \in {0, 1}

BidsRight(offer) ==
    /\ DOMAIN offer \subseteq {"offer"}
    /\ \A o \in DOMAIN offer : /\ BidFields \subseteq DOMAIN offer[o] /\ offer[o].buyer \in Users
                               /\ offer[o].price = Cap /\ offer[o].rate \in {0, 1}

HeldFor(offer) == IF "offer" \in DOMAIN offer /\ offer["offer"].status = "active" THEN Cap ELSE 0

PaymentsRight(listing, offer, rate, bal) ==
    /\ AdsRight(listing) /\ BidsRight(offer) /\ rate \in {0, 1}
    /\ bal \in [Accounts -> Nat]
    /\ Sum(bal, Accounts) + HeldFor(offer) = Cap * Cardinality(Users)

PaymentsSound ==
    NFTFields \subseteq DOMAIN db /\ PaymentsRight(db.listing, db.offer, db.rate, db.bal)

LEMMA AccountsFinite == IsFiniteSet(Accounts) /\ "fees" \notin Users /\ Cardinality(Users) \in Nat
  BY PlatformAssumption, FS_AddElement, FS_CardinalityType DEF Accounts

LEMMA AccountPaid ==
  ASSUME NEW f \in [Accounts -> Int], NEW g, NEW a \in Accounts, g[a] \in Int,
         \A b \in Accounts : b # a => g[b] = f[b]
  PROVE  Sum(g, Accounts) = Sum(f, Accounts) - f[a] + g[a] /\ Sum(f, Accounts) \in Int
  BY AccountsFinite, SumUpdate

LEMMA PaymentsInit == NFT!Init => PaymentsSound
<1> SUFFICES ASSUME NEW status, NEW d, d = NFT!CreateCollection(status),
                    db = [x \in DOMAIN d \cup {"seen"} |-> IF x = "seen" THEN NFT!Load(d) ELSE d[x]]
             PROVE  PaymentsSound
  BY DEF NFT!Init
<1>1. /\ NFTFields \subseteq DOMAIN d \cup {"seen"} /\ {"rate", "bal", "listing", "offer"} \subseteq DOMAIN d
      /\ d.listing = <<>> /\ d.offer = <<>> /\ d.rate = 0
      /\ d.bal = [a \in Accounts |-> IF a = "fees" THEN 0 ELSE Cap]
  BY DEF NFT!CreateCollection, NFTFields, NFT!FeeAccount, Accounts
<1>2. /\ NFTFields \subseteq DOMAIN db /\ db.listing = <<>> /\ db.offer = <<>> /\ db.rate = 0
      /\ db.bal = d.bal
  BY <1>1
<1>3. PICK f : f = d.bal
  OBVIOUS
<1>4. \A u \in Users : f[u] = Cap
  BY <1>1, <1>3, AccountsFinite DEF Accounts
<1>5. f["fees"] = 0 /\ \A a \in Accounts : f[a] \in Nat
  BY <1>1, <1>3, PlatformAssumption DEF Accounts
<1>6. Sum(f, Users) = Cap * Cardinality(Users)
  BY <1>4, PlatformAssumption, SumConstant
<1>7. PICK x : x = "fees"
  OBVIOUS
<1>8. Sum(f, Users \cup {x}) = Sum(f, Users) + f[x] /\ Sum(f, Users) \in Int
  <2>1. IsFiniteSet(Users) /\ x \notin Users /\ \A a \in Users \cup {x} : f[a] \in Int
    BY <1>5, <1>7, PlatformAssumption, AccountsFinite DEF Accounts
  <2> QED
    BY <2>1, SumAdd
<1>9. Sum(f, Accounts) = Cap * Cardinality(Users)
  BY <1>5, <1>6, <1>7, <1>8 DEF Accounts
<1>10. f \in [Accounts -> Nat]
  BY <1>1, <1>3, <1>5
<1>11. HeldFor(<<>>) = 0 /\ AdsRight(<<>>) /\ BidsRight(<<>>)
  BY DEF HeldFor, AdsRight, BidsRight
<1>12. Sum(f, Accounts) + 0 = Cap * Cardinality(Users)
  BY <1>6, <1>8, <1>9
<1> QED
  BY <1>2, <1>3, <1>10, <1>11, <1>12 DEF PaymentsSound, PaymentsRight

PaymentWrites(listing, offer, rate, bal) ==
    /\ NFTFields \subseteq DOMAIN db'
    /\ db'.listing = listing /\ db'.offer = offer /\ db'.rate = rate /\ db'.bal = bal

LEMMA PaymentMoves ==
  ASSUME NEW listing, NEW offer, NEW rate, NEW bal, PaymentWrites(listing, offer, rate, bal),
         PaymentsRight(listing, offer, rate, bal)
  PROVE  PaymentsSound'
  BY DEF PaymentsSound, PaymentWrites

(* The fee is a part of the price.                                           *)
LEMMA FeeIsPart ==
  ASSUME NEW rate \in {0, 1}
  PROVE  (Cap * rate) \div 4 \in Nat /\ (Cap * rate) \div 4 <= Cap
<1>1. Cap \in Nat
  BY PlatformAssumption
<1>2. CASE rate = 0
  BY <1>1, <1>2
<1>3. CASE rate = 1
  BY <1>1, <1>3
<1> QED
  BY <1>2, <1>3

LEMMA PaymentsStep == ASSUME PaymentsSound, NFT!Next PROVE PaymentsSound'
<1>1. PICK listing, offer, rate, bal :
        listing = db.listing /\ offer = db.offer /\ rate = db.rate /\ bal = db.bal
  OBVIOUS
<1>2. NFTFields \subseteq DOMAIN db /\ PaymentsRight(listing, offer, rate, bal)
  BY <1>1 DEF PaymentsSound
<1>3. /\ AdsRight(listing) /\ BidsRight(offer) /\ rate \in {0, 1} /\ bal \in [Accounts -> Nat]
      /\ Sum(bal, Accounts) + HeldFor(offer) = Cap * Cardinality(Users)
      /\ Sum(bal, Accounts) \in Nat
  <2>1. Sum(bal, Accounts) \in Nat
    BY <1>2, AccountsFinite, SumNat DEF PaymentsRight
  <2> QED
    BY <1>2, <2>1 DEF PaymentsRight
<1>4. Cap \in Nat /\ HeldFor(offer) \in Nat /\ "fees" \in Accounts /\ "fees" \notin Users
      /\ \A u \in Users : u \in Accounts
  BY PlatformAssumption, AccountsFinite DEF HeldFor, Accounts
<1>5. CASE \/ NFT!LoadRows
           \/ \E status : NFT!UpdateCollection(status)
           \/ \E s : NFT!DeleteCollection(s)
           \/ \E u, id : NFT!Mint(u, id)
  <2>1. \/ \E seen : db' = [db EXCEPT !.seen = seen]
        \/ \E coll : db' = [db EXCEPT !.coll = coll]
        \/ \E supply, token : db' = [db EXCEPT !.supply = supply, !.token = token]
    BY <1>5 DEF NFT!LoadRows, NFT!UpdateCollection, NFT!DeleteCollection, NFT!Mint
  <2>2. PaymentWrites(listing, offer, rate, bal)
    BY <1>1, <1>2, <2>1 DEF PaymentWrites, NFTFields
  <2> QED
    BY <1>2, <2>2, PaymentMoves
<1>6. ASSUME NEW r \in {1}, NFT!SetFeeBps(r) PROVE PaymentsSound'
  <2>1. PaymentWrites(listing, offer, r, bal)
    BY <1>1, <1>2, <1>6 DEF NFT!SetFeeBps, PaymentWrites, NFTFields
  <2>2. PaymentsRight(listing, offer, r, bal)
    BY <1>2 DEF PaymentsRight
  <2> QED
    BY <2>1, <2>2, PaymentMoves
<1>7. ASSUME NEW ads, AdsRight(ads), PaymentWrites(ads, offer, rate, bal) PROVE PaymentsSound'
  <2>1. PaymentsRight(ads, offer, rate, bal)
    BY <1>2, <1>7 DEF PaymentsRight
  <2> QED
    BY <1>7, <2>1, PaymentMoves
<1>8. CASE NFT!Expire
  <2>1. ASSUME NEW l \in DOMAIN listing, db' = [db EXCEPT !.listing[l].late = TRUE]
        PROVE  PaymentsSound'
    <3>1. PICK ads : ads = [listing EXCEPT ![l].late = TRUE]
      OBVIOUS
    <3>2. PaymentWrites(ads, offer, rate, bal)
      BY <1>1, <1>2, <2>1, <3>1 DEF PaymentWrites, NFTFields
    <3>3. AdsRight(ads)
      BY <1>3, <3>1 DEF AdsRight, ListingFields
    <3> QED
      BY <1>7, <3>2, <3>3
  <2>2. ASSUME NEW o \in DOMAIN offer, db' = [db EXCEPT !.offer[o].late = TRUE]
        PROVE  PaymentsSound'
    <3>1. PICK bids : bids = [offer EXCEPT ![o].late = TRUE]
      OBVIOUS
    <3>2. PaymentWrites(listing, bids, rate, bal)
      BY <1>1, <1>2, <2>2, <3>1 DEF PaymentWrites, NFTFields
    <3>3. BidsRight(bids)
      BY <1>3, <3>1 DEF BidsRight, BidFields
    <3>4. HeldFor(bids) = HeldFor(offer)
      BY <1>3, <3>1 DEF HeldFor, BidsRight, BidFields
    <3> QED
      BY <1>3, <3>2, <3>3, <3>4, PaymentMoves DEF PaymentsRight
  <2> QED
    BY <1>1, <1>8, <2>1, <2>2 DEF NFT!Expire
<1>9. ASSUME NEW u \in Users, NEW s, NEW l \in Ids, NEW id, NFT!ListNFT(u, s, l, id, Cap)
      PROVE  PaymentsSound'
  <2>1. PICK ad : ad = [token |-> id, seller |-> u, price |-> Cap, rate |-> rate,
                        late |-> FALSE, status |-> "active"]
    OBVIOUS
  <2>2. PICK ads : ads = NFT!Put(listing, l, ad)
    OBVIOUS
  <2>3. PaymentWrites(ads, offer, rate, bal)
    BY <1>1, <1>2, <1>9, <2>1, <2>2 DEF NFT!ListNFT, PaymentWrites, NFTFields
  <2>4. /\ ListingFields \subseteq DOMAIN ad /\ ad.seller \in Users
        /\ ad.price = Cap /\ ad.rate \in {0, 1}
    BY <1>3, <2>1 DEF ListingFields
  <2>5. AdsRight(ads)
    BY <1>3, <2>2, <2>4 DEF AdsRight, NFT!Put
  <2> QED
    BY <1>7, <2>3, <2>5
<1>10. ASSUME NEW s, NEW l, NFT!UpdateListingPrice(s, l, Cap) PROVE PaymentsSound'
  <2>1. PICK ads : ads = [listing EXCEPT ![l] = [@ EXCEPT !.price = Cap, !.late = FALSE]]
    OBVIOUS
  <2>2. PaymentWrites(ads, offer, rate, bal)
    BY <1>1, <1>2, <1>10, <2>1 DEF NFT!UpdateListingPrice, PaymentWrites, NFTFields
  <2>3. AdsRight(ads)
    BY <1>3, <2>1 DEF AdsRight, ListingFields
  <2> QED
    BY <1>7, <2>2, <2>3
<1>11. ASSUME NEW l \in DOMAIN listing, NFT!CancelListing(l) PROVE PaymentsSound'
  <2>1. PICK ads : ads = [listing EXCEPT ![l].status = "canceled"]
    OBVIOUS
  <2>2. PaymentWrites(ads, offer, rate, bal)
    BY <1>1, <1>2, <1>11, <2>1 DEF NFT!CancelListing, PaymentWrites, NFTFields
  <2>3. AdsRight(ads)
    BY <1>3, <2>1 DEF AdsRight, ListingFields
  <2> QED
    BY <1>7, <2>2, <2>3
<1>12. ASSUME NEW l \in DOMAIN listing, NEW u \in Users, NFT!BuyNFT(u, l) PROVE PaymentsSound'
  <2>1. PICK v \in Users, r \in {0, 1} : v = listing[l].seller /\ r = listing[l].rate
    BY <1>3 DEF AdsRight
  <2>2. PICK fee : fee = (Cap * r) \div 4
    OBVIOUS
  <2>3. fee \in Nat /\ fee <= Cap
    BY <2>2, FeeIsPart
  <2>4. listing[l].price = Cap /\ NFT!Fee(listing[l]) = fee
    BY <1>3, <2>1, <2>2 DEF AdsRight, NFT!Fee
  <2>5. PICK ads : ads = [listing EXCEPT ![l].status = "sold"]
    OBVIOUS
  <2>6. AdsRight(ads)
    BY <1>3, <2>5 DEF AdsRight, ListingFields
  <2>7. u # v /\ bal[u] >= Cap
    BY <1>1, <1>12, <2>1, <2>4 DEF NFT!BuyNFT
  <2>8. PICK b1 : b1 = [bal EXCEPT ![u] = bal[u] - Cap]
    OBVIOUS
  <2>9. PICK b2 : b2 = [b1 EXCEPT ![v] = b1[v] + Cap - fee]
    OBVIOUS
  <2>10. PICK b3 : b3 = [b2 EXCEPT !["fees"] = b2["fees"] + fee]
    OBVIOUS
  <2>11. b1 \in [Accounts -> Nat] /\ b1[u] = bal[u] - Cap /\ \A a \in Accounts : a # u => b1[a] = bal[a]
    BY <1>3, <1>4, <2>7, <2>8
  <2>12. b2 \in [Accounts -> Nat] /\ b2[v] = b1[v] + Cap - fee /\ \A a \in Accounts : a # v => b2[a] = b1[a]
    BY <1>4, <2>3, <2>9, <2>11
  <2>13. /\ b3 \in [Accounts -> Nat] /\ b3["fees"] = b2["fees"] + fee
         /\ \A a \in Accounts : a # "fees" => b3[a] = b2[a]
    BY <1>4, <2>3, <2>10, <2>12
  <2>14. Sum(b1, Accounts) = Sum(bal, Accounts) - Cap
    <3>1. Sum(b1, Accounts) = Sum(bal, Accounts) - bal[u] + b1[u]
      BY <1>3, <1>4, <2>11, AccountPaid
    <3>2. bal[u] \in Int
      BY <1>3, <1>4
    <3> QED
      BY <1>3, <1>4, <2>11, <3>1, <3>2
  <2>15. Sum(b2, Accounts) = Sum(b1, Accounts) + Cap - fee
    <3>1. Sum(b2, Accounts) = Sum(b1, Accounts) - b1[v] + b2[v] /\ Sum(b1, Accounts) \in Int
      BY <1>4, <2>11, <2>12, AccountPaid
    <3>2. b1[v] \in Int
      BY <1>4, <2>11
    <3> QED
      BY <1>4, <2>3, <2>12, <3>1, <3>2
  <2>16. Sum(b3, Accounts) = Sum(b2, Accounts) + fee
    <3>0. PICK x : x = "fees"
      OBVIOUS
    <3>3. x \in Accounts /\ b3[x] = b2[x] + fee /\ \A a \in Accounts : a # x => b3[a] = b2[a]
      BY <1>4, <2>13, <3>0
    <3>1. Sum(b3, Accounts) = Sum(b2, Accounts) - b2[x] + b3[x] /\ Sum(b2, Accounts) \in Int
      BY <2>12, <2>13, <3>3, AccountPaid
    <3>2. b2[x] \in Int
      BY <2>12, <3>3
    <3> QED
      BY <2>3, <3>1, <3>2, <3>3
  <2>17. Sum(b3, Accounts) = Sum(bal, Accounts)
    BY <1>3, <1>4, <2>3, <2>14, <2>15, <2>16
  <2>18. PaymentWrites(ads, offer, rate, b3)
    <3>1. /\ NFTFields \subseteq DOMAIN db' /\ db'.listing = ads /\ db'.offer = offer /\ db'.rate = rate
      BY <1>1, <1>2, <1>12, <2>5 DEF NFT!BuyNFT, NFTFields
    <3>2. db'.bal = b3
      BY <1>1, <1>2, <1>12, <2>1, <2>4, <2>8, <2>9, <2>10 DEF NFT!BuyNFT, NFTFields, NFT!FeeAccount
    <3> QED
      BY <3>1, <3>2 DEF PaymentWrites
  <2>19. PaymentsRight(ads, offer, rate, b3)
    BY <1>3, <2>6, <2>13, <2>17 DEF PaymentsRight
  <2> QED
    BY <2>18, <2>19, PaymentMoves
<1>13. ASSUME NEW u \in Users, NEW s, NEW o \in {"offer"}, NEW id, NFT!MakeOffer(u, s, o, id, Cap)
       PROVE  PaymentsSound'
  <2>1. PICK bid : bid = [token |-> id, buyer |-> u, price |-> Cap, rate |-> rate,
                          late |-> FALSE, status |-> "active"]
    OBVIOUS
  <2>2. PICK bids : bids = NFT!Put(offer, o, bid)
    OBVIOUS
  <2>3. PICK b1 : b1 = [bal EXCEPT ![u] = bal[u] - Cap]
    OBVIOUS
  <2>4. o \notin DOMAIN offer /\ bal[u] >= Cap /\ PaymentWrites(listing, bids, rate, b1)
    BY <1>1, <1>2, <1>13, <2>1, <2>2, <2>3 DEF NFT!MakeOffer, PaymentWrites, NFTFields
  <2>5. /\ BidFields \subseteq DOMAIN bid /\ bid.buyer \in Users /\ bid.price = Cap
        /\ bid.rate \in {0, 1} /\ bid.status = "active"
    BY <1>3, <2>1 DEF BidFields
  <2>6. BidsRight(bids)
    BY <1>3, <2>2, <2>5 DEF BidsRight, NFT!Put
  <2>7. HeldFor(offer) = 0 /\ HeldFor(bids) = Cap
    BY <2>2, <2>4, <2>5 DEF HeldFor, NFT!Put
  <2>8. b1 \in [Accounts -> Nat] /\ b1[u] = bal[u] - Cap /\ \A a \in Accounts : a # u => b1[a] = bal[a]
    BY <1>3, <1>4, <2>3, <2>4
  <2>9. Sum(b1, Accounts) = Sum(bal, Accounts) - bal[u] + b1[u]
    BY <1>3, <1>4, <2>8, AccountPaid
  <2>10. bal[u] \in Int
    BY <1>3, <1>4
  <2>11. Sum(b1, Accounts) + HeldFor(bids) = Sum(bal, Accounts) + HeldFor(offer)
    BY <1>3, <1>4, <2>7, <2>8, <2>9, <2>10
  <2>12. PaymentsRight(listing, bids, rate, b1)
    BY <1>3, <2>6, <2>8, <2>11 DEF PaymentsRight
  <2> QED
    BY <2>4, <2>12, PaymentMoves
<1>14. ASSUME NEW u \in Users, NEW o \in DOMAIN offer, NFT!AcceptOffer(u, o) PROVE PaymentsSound'
  <2>1. o = "offer" /\ offer[o].status = "active" /\ offer[o].price = Cap
    BY <1>1, <1>3, <1>14 DEF NFT!AcceptOffer, BidsRight
  <2>2. PICK r \in {0, 1} : r = offer[o].rate
    BY <1>3 DEF BidsRight
  <2>3. PICK fee : fee = (Cap * r) \div 4
    OBVIOUS
  <2>4. fee \in Nat /\ fee <= Cap /\ NFT!Fee(offer[o]) = fee
    BY <2>1, <2>2, <2>3, FeeIsPart DEF NFT!Fee
  <2>5. PICK bids : bids = [offer EXCEPT ![o].status = "sold"]
    OBVIOUS
  <2>6. BidsRight(bids) /\ HeldFor(bids) = 0 /\ HeldFor(offer) = Cap
    BY <1>3, <2>1, <2>5 DEF BidsRight, BidFields, HeldFor
  <2>7. PICK b1 : b1 = [bal EXCEPT ![u] = bal[u] + Cap - fee]
    OBVIOUS
  <2>8. PICK b2 : b2 = [b1 EXCEPT !["fees"] = b1["fees"] + fee]
    OBVIOUS
  <2>9. b1 \in [Accounts -> Nat] /\ b1[u] = bal[u] + Cap - fee /\ \A a \in Accounts : a # u => b1[a] = bal[a]
    BY <1>3, <1>4, <2>4, <2>7
  <2>10. /\ b2 \in [Accounts -> Nat] /\ b2["fees"] = b1["fees"] + fee
         /\ \A a \in Accounts : a # "fees" => b2[a] = b1[a]
    BY <1>4, <2>4, <2>8, <2>9
  <2>11. Sum(b1, Accounts) = Sum(bal, Accounts) + Cap - fee
    <3>1. Sum(b1, Accounts) = Sum(bal, Accounts) - bal[u] + b1[u]
      BY <1>3, <1>4, <2>9, AccountPaid
    <3>2. bal[u] \in Int
      BY <1>3, <1>4
    <3> QED
      BY <1>3, <1>4, <2>4, <2>9, <3>1, <3>2
  <2>12. Sum(b2, Accounts) = Sum(b1, Accounts) + fee
    <3>0. PICK x : x = "fees"
      OBVIOUS
    <3>3. x \in Accounts /\ b2[x] = b1[x] + fee /\ \A a \in Accounts : a # x => b2[a] = b1[a]
      BY <1>4, <2>10, <3>0
    <3>1. Sum(b2, Accounts) = Sum(b1, Accounts) - b1[x] + b2[x] /\ Sum(b1, Accounts) \in Int
      BY <2>9, <2>10, <3>3, AccountPaid
    <3>2. b1[x] \in Int
      BY <2>9, <3>3
    <3> QED
      BY <2>4, <3>1, <3>2, <3>3
  <2>13. Sum(b2, Accounts) + HeldFor(bids) = Sum(bal, Accounts) + HeldFor(offer)
    BY <1>3, <1>4, <2>4, <2>6, <2>11, <2>12
  <2>14. PaymentWrites(listing, bids, rate, b2)
    <3>1. /\ NFTFields \subseteq DOMAIN db' /\ db'.listing = listing /\ db'.offer = bids /\ db'.rate = rate
      BY <1>1, <1>2, <1>14, <2>5 DEF NFT!AcceptOffer, NFTFields
    <3>2. db'.bal = b2
      BY <1>1, <1>2, <1>14, <2>1, <2>4, <2>7, <2>8 DEF NFT!AcceptOffer, NFTFields, NFT!FeeAccount
    <3> QED
      BY <3>1, <3>2 DEF PaymentWrites
  <2>15. PaymentsRight(listing, bids, rate, b2)
    BY <1>3, <2>6, <2>10, <2>13 DEF PaymentsRight
  <2> QED
    BY <2>14, <2>15, PaymentMoves
<1>15. ASSUME NEW o \in DOMAIN offer, NFT!CancelOffer(o) PROVE PaymentsSound'
  <2>1. o = "offer" /\ offer[o].status = "active" /\ offer[o].price = Cap
    BY <1>1, <1>3, <1>15 DEF NFT!CancelOffer, NFT!Refundable, BidsRight
  <2>2. PICK u \in Users : u = offer[o].buyer
    BY <1>3 DEF BidsRight
  <2>3. PICK bids : bids = [offer EXCEPT ![o].status = "canceled"]
    OBVIOUS
  <2>4. BidsRight(bids) /\ HeldFor(bids) = 0 /\ HeldFor(offer) = Cap
    BY <1>3, <2>1, <2>3 DEF BidsRight, BidFields, HeldFor
  <2>5. PICK b1 : b1 = [bal EXCEPT ![u] = bal[u] + Cap]
    OBVIOUS
  <2>6. PaymentWrites(listing, bids, rate, b1)
    BY <1>1, <1>2, <1>15, <2>1, <2>2, <2>3, <2>5 DEF NFT!CancelOffer, PaymentWrites, NFTFields
  <2>7. b1 \in [Accounts -> Nat] /\ b1[u] = bal[u] + Cap /\ \A a \in Accounts : a # u => b1[a] = bal[a]
    BY <1>3, <1>4, <2>5
  <2>8. Sum(b1, Accounts) = Sum(bal, Accounts) - bal[u] + b1[u]
    BY <1>3, <1>4, <2>7, AccountPaid
  <2>9. bal[u] \in Int
    BY <1>3, <1>4
  <2>10. Sum(b1, Accounts) + HeldFor(bids) = Sum(bal, Accounts) + HeldFor(offer)
    BY <1>3, <1>4, <2>4, <2>7, <2>8, <2>9
  <2>11. PaymentsRight(listing, bids, rate, b1)
    BY <1>3, <2>4, <2>7, <2>10 DEF PaymentsRight
  <2> QED
    BY <2>6, <2>11, PaymentMoves
<1> QED
  BY <1>1, <1>5, <1>6, <1>8, <1>9, <1>10, <1>11, <1>12, <1>13, <1>14, <1>15 DEF NFT!Next

LEMMA PaymentsAreHeld == PaymentsSound => NFT!PaymentsHeld
<1> SUFFICES ASSUME PaymentsSound PROVE NFT!PaymentsHeld
  OBVIOUS
<1>1. PICK live : live = {o \in DOMAIN db.offer : db.offer[o].status = "active"}
  OBVIOUS
<1>2. PICK f : f = [o \in live |-> db.offer[o].price]
  OBVIOUS
<1>3. /\ DOMAIN db.offer \subseteq {"offer"} /\ \A o \in DOMAIN db.offer : db.offer[o].price = Cap
      /\ DOMAIN db.bal = Accounts
      /\ Sum(db.bal, Accounts) + HeldFor(db.offer) = Cap * Cardinality(Users)
  BY DEF PaymentsSound, PaymentsRight, BidsRight
<1>4. Sum(f, live) = HeldFor(db.offer)
  <2>1. CASE live = {}
    BY <1>1, <2>1, SumEmpty DEF HeldFor
  <2>2. CASE live # {}
    <3>1. live = {"offer"} /\ HeldFor(db.offer) = Cap
      BY <1>1, <1>3, <2>2 DEF HeldFor
    <3>2. \A o \in live : f[o] = Cap
      BY <1>1, <1>2, <1>3
    <3>3. IsFiniteSet(live) /\ Cardinality(live) = 1
      <4>1. \A x : IsFiniteSet({x}) /\ Cardinality({x}) = 1
        BY FS_Singleton
      <4> QED
        BY <3>1, <4>1
    <3>5. Cap \in Int /\ Cap * 1 = Cap
      BY PlatformAssumption
    <3>4. Sum(f, live) = Cap * Cardinality(live)
      BY <3>2, <3>3, <3>5, SumConstant
    <3> QED
      BY <3>1, <3>3, <3>4, <3>5
  <2> QED
    BY <2>1, <2>2
<1>5. NFT!Total(db.bal) = Sum(db.bal, Accounts)
  BY <1>3 DEF NFT!Total, Sum, NFT!MapThenSumSet, MapThenSumSet, NFT!MapThenFoldSet, MapThenFoldSet
<1>6. NFT!MapThenSumSet(LAMBDA o : db.offer[o].price, live) = Sum(f, live)
  BY <1>2 DEF Sum, NFT!MapThenSumSet, MapThenSumSet, NFT!MapThenFoldSet, MapThenFoldSet
<1>7. NFT!Cardinality(Users) = Cardinality(Users)
  BY DEF NFT!Cardinality, Cardinality
<1> QED
  BY <1>1, <1>3, <1>4, <1>5, <1>6, <1>7 DEF NFT!PaymentsHeld

(* Margin accounts: the rows and what was paid in, taken up and paid back.   *)
AccountHeld(coll, holds, principal, interest, owes) ==
    /\ coll \in Nat /\ holds = coll
    /\ principal \in Nat /\ interest \in Nat /\ owes = principal + interest

LiquidationTyped(job) ==
    job # <<>> => 2 \in DOMAIN job /\ 3 \in DOMAIN job /\ job[2] \in Int /\ job[3] \in Int

AccountSound ==
    /\ MarginFields \subseteq DOMAIN db /\ db.price \in {1, 2}
    /\ db.status \in {"active", "liquidated"}
    /\ AccountHeld(db.coll, db.holds, db.principal, db.interest, db.owes)
    /\ LiquidationTyped(db.job)

LEMMA AccountInit == Margin!Init => AccountSound
  BY DEF Margin!Init, Margin!OpenAccount, AccountSound, MarginFields, AccountHeld, LiquidationTyped

(* An account with these figures, and the rest as it may be.                 *)
Figures(d, coll, holds, principal, interest, owes, job) ==
    /\ MarginFields \subseteq DOMAIN d /\ d.price \in {1, 2} /\ d.status \in {"active", "liquidated"}
    /\ d.coll = coll /\ d.holds = holds /\ d.principal = principal /\ d.interest = interest
    /\ d.owes = owes /\ d.job = job

LEMMA FiguresHeld ==
  ASSUME NEW coll, NEW holds, NEW principal, NEW interest, NEW owes, NEW job,
         Figures(db', coll, holds, principal, interest, owes, job),
         AccountHeld(coll, holds, principal, interest, owes), LiquidationTyped(job)
  PROVE  AccountSound'
  BY DEF AccountSound, Figures

(* A payment of no more than is owed.                                        *)
LEMMA PaymentHeld ==
  ASSUME AccountSound, NEW x \in Int, x <= Margin!Owed(db), NEW d, d = Margin!Paid(x)
  PROVE  \E p, i, owes : /\ Figures(d, db.coll, db.holds, p, i, owes, db.job)
                         /\ AccountHeld(db.coll, db.holds, p, i, owes)
<1>1. /\ MarginFields \subseteq DOMAIN db /\ db.principal \in Nat /\ db.interest \in Nat
      /\ db.owes = db.principal + db.interest /\ db.coll \in Nat /\ db.holds = db.coll
      /\ db.price \in {1, 2} /\ db.status \in {"active", "liquidated"}
  BY DEF AccountSound, AccountHeld
<1>2. PICK rest \in Int, over \in Int : rest = db.interest - x /\ over = x - db.interest
  BY <1>1
<1>3. PICK i : i = Margin!Max({0, db.interest - x})
  OBVIOUS
<1>4. PICK m : m = Margin!Max({0, x - db.interest})
  OBVIOUS
<1>5. i = IF 0 <= rest THEN rest ELSE 0
  BY <1>2, <1>3, LargerOfTwo
<1>6. m = IF 0 <= over THEN over ELSE 0
  BY <1>2, <1>4, LargerOfTwo
<1>7. PICK p, owes : p = db.principal - m /\ owes = db.owes - x
  OBVIOUS
<1>8. x <= db.principal + db.interest
  BY DEF Margin!Owed
<1>9. p \in Nat /\ i \in Nat /\ owes = p + i
  BY <1>1, <1>2, <1>5, <1>6, <1>7, <1>8
<1>10. d = [db EXCEPT !.interest = i, !.principal = p, !.owes = owes]
  BY <1>3, <1>4, <1>7 DEF Margin!Paid
<1>11. Figures(d, db.coll, db.holds, p, i, owes, db.job)
  BY <1>1, <1>10 DEF Figures, MarginFields
<1> QED
  BY <1>1, <1>9, <1>11 DEF AccountHeld

(* What a seizure leaves is a part of what there was.                        *)
LEMMA PartLeft ==
  ASSUME NEW c \in Nat, NEW w \in Nat, w # 0, NEW x \in Int, x <= w
  PROVE  (c * (w - x)) \div w \in Nat
<1>1. PICK a \in Nat : a = w - x
  OBVIOUS
<1>2. PICK b \in Nat : b = c * a
  OBVIOUS
<1>3. b \div w \in Nat
  OBVIOUS
<1> QED
  BY <1>1, <1>2, <1>3

LEMMA AccountStep == ASSUME AccountSound, Margin!Next PROVE AccountSound'
<1>1. /\ MarginFields \subseteq DOMAIN db /\ db.principal \in Nat /\ db.interest \in Nat
      /\ db.owes = db.principal + db.interest /\ db.coll \in Nat /\ db.holds = db.coll
      /\ db.price \in {1, 2} /\ db.status \in {"active", "liquidated"}
      /\ AccountHeld(db.coll, db.holds, db.principal, db.interest, db.owes)
      /\ LiquidationTyped(db.job)
  BY DEF AccountSound, AccountHeld
<1>2. \A base \in Nat : Margin!Growth(base) \in Nat
  <2>1. \A base \in Nat : (base * 50) \div 100 \in Nat
    OBVIOUS
  <2> QED
    BY <2>1 DEF Margin!Growth, Margin!Percent
<1>3. ASSUME Figures(db', db.coll, db.holds, db.principal, db.interest, db.owes, db.job)
      PROVE  AccountSound'
  BY <1>1, <1>3, FiguresHeld
<1>4. CASE Margin!Tick \/ Margin!SetListed
  BY <1>1, <1>3, <1>4 DEF Margin!Tick, Margin!SetListed, MarginFields, Figures
<1>5. ASSUME NEW p \in {1, 2}, Margin!SetPrice(p) PROVE AccountSound'
  BY <1>1, <1>3, <1>5 DEF Margin!SetPrice, MarginFields, Figures
<1>6. ASSUME NEW x \in {1, 2}, Margin!DepositCollateral(x) PROVE AccountSound'
  <2>1. PICK c \in Nat : c = db.coll + x
    BY <1>1
  <2>2. Figures(db', c, c, db.principal, db.interest, db.owes, db.job)
    BY <1>1, <1>6, <2>1 DEF Margin!DepositCollateral, MarginFields, Figures
  <2>3. AccountHeld(c, c, db.principal, db.interest, db.owes)
    BY <1>1 DEF AccountHeld
  <2> QED
    BY <1>1, <2>2, <2>3, FiguresHeld
<1>7. ASSUME NEW x \in {1, 2}, Margin!Borrow(x) PROVE AccountSound'
  <2>1. PICK g \in Nat : g = Margin!Growth(db.principal)
    BY <1>1, <1>2
  <2>2. PICK p \in Nat, i \in Nat : p = db.principal + x /\ i = db.interest + g
    BY <1>1
  <2>3. PICK owes : owes = db.owes + x + g
    OBVIOUS
  <2>4. owes = p + i
    BY <1>1, <2>2, <2>3
  <2>5. db' = [db EXCEPT !.principal = p, !.interest = i, !.due = FALSE, !.owes = owes]
    BY <1>7, <2>1, <2>2, <2>3 DEF Margin!Borrow
  <2>6. Figures(db', db.coll, db.holds, p, i, owes, db.job)
    BY <1>1, <2>5 DEF MarginFields, Figures
  <2>7. AccountHeld(db.coll, db.holds, p, i, owes)
    BY <1>1, <2>4 DEF AccountHeld
  <2> QED
    BY <1>1, <2>6, <2>7, FiguresHeld
<1>8. ASSUME NEW x \in {1, 2}, Margin!Repay(x) PROVE AccountSound'
  <2>1. db' = Margin!Paid(x) /\ x <= Margin!Owed(db)
    BY <1>8 DEF Margin!Repay
  <2>2. PICK d : d = db'
    OBVIOUS
  <2>3. PICK p, i, owes : /\ Figures(d, db.coll, db.holds, p, i, owes, db.job)
                          /\ AccountHeld(db.coll, db.holds, p, i, owes)
    BY <2>1, <2>2, PaymentHeld
  <2> QED
    BY <1>1, <2>2, <2>3, FiguresHeld
<1>9. PICK g \in Nat : g = Margin!Growth(Margin!Owed(db))
  <2>1. PICK owed \in Nat : owed = Margin!Owed(db)
    BY <1>1 DEF Margin!Owed
  <2> QED
    BY <1>2, <2>1
<1>10. PICK i \in Nat : i = db.interest + g
  BY <1>1
<1>11. PICK owes : owes = db.owes + g
  OBVIOUS
<1>12. PICK d : d = [db EXCEPT !.interest = i, !.due = FALSE, !.owes = owes]
  OBVIOUS
<1>13. d = Margin!Accrued
  BY <1>9, <1>10, <1>11, <1>12 DEF Margin!Accrued
<1>14. Figures(d, db.coll, db.holds, db.principal, i, owes, db.job)
  BY <1>1, <1>12 DEF MarginFields, Figures
<1>15. owes = db.principal + i /\ AccountHeld(db.coll, db.holds, db.principal, i, owes)
  BY <1>1, <1>10, <1>11 DEF AccountHeld
<1>16. CASE Margin!Accrue
  <2>1. db' = d
    BY <1>13, <1>16 DEF Margin!Accrue
  <2> QED
    BY <1>1, <1>14, <1>15, <2>1, FiguresHeld
<1>17. CASE Margin!Liquidate
  <2>1. d.principal \in Nat /\ d.interest \in Nat /\ d.coll \in Nat
    BY <1>1, <1>10, <1>14 DEF Figures
  <2>2. PICK repay : repay = Margin!Percent(Margin!Owed(d), 50)
    OBVIOUS
  <2>3. repay \in Int
    BY <2>1, <2>2 DEF Margin!Percent, Margin!Owed
  <2>4. PICK take : take = Margin!Percent(repay, 200)
    OBVIOUS
  <2>5. take \in Int
    BY <2>3, <2>4 DEF Margin!Percent
  <2>6. PICK all : all = db.coll * db.price
    OBVIOUS
  <2>7. all \in Int
    BY <1>1, <2>6
  <2>8. PICK worth : worth = Margin!Min({take, all})
    OBVIOUS
  <2>9. worth \in Int
    BY <2>5, <2>7, <2>8, SmallerOfTwo
  <2>10. PICK job : job = <<"seize", worth, repay>>
    OBVIOUS
  <2>11. db' = [d EXCEPT !.job = job]
    BY <1>13, <1>17, <2>2, <2>4, <2>6, <2>8, <2>10 DEF Margin!Liquidate
  <2>12. Figures(db', db.coll, db.holds, db.principal, i, owes, job)
    BY <1>14, <2>11 DEF MarginFields, Figures
  <2>13. LiquidationTyped(job)
    BY <2>3, <2>9, <2>10 DEF LiquidationTyped
  <2> QED
    BY <1>15, <2>12, <2>13, FiguresHeld
<1>18. CASE Margin!SeizeCollateral
  <2>1. db.job # <<>> /\ db.job[2] \in Int /\ 2 \in DOMAIN db.job /\ 3 \in DOMAIN db.job /\ db.job[3] \in Int
    BY <1>1, <1>18 DEF Margin!SeizeCollateral, LiquidationTyped
  <2>2. PICK worth \in Nat : worth = db.coll * db.price
    BY <1>1
  <2>3. PICK x : x = Margin!Min({db.job[2], worth})
    OBVIOUS
  <2>4. x \in Int /\ x <= worth
    BY <2>1, <2>3, SmallerOfTwo
  <2>5. PICK left : left = IF worth = 0 THEN db.coll ELSE (db.coll * (worth - x)) \div worth
    OBVIOUS
  <2>6. left \in Nat
    BY <1>1, <2>4, <2>5, PartLeft
  <2>7. PICK job : job = [db.job EXCEPT ![1] = "reduce"]
    OBVIOUS
  <2>8. PICK holds : holds = db.holds - (db.coll - left)
    OBVIOUS
  <2>9. holds = left
    BY <1>1, <2>6, <2>8
  <2>10. db' = [db EXCEPT !.coll = left, !.holds = holds, !.job = job]
    BY <1>18, <2>2, <2>3, <2>5, <2>7, <2>8 DEF Margin!SeizeCollateral
  <2>11. Figures(db', left, holds, db.principal, db.interest, db.owes, job)
    BY <1>1, <2>10 DEF MarginFields, Figures
  <2>12. AccountHeld(left, holds, db.principal, db.interest, db.owes)
    BY <1>1, <2>6, <2>9 DEF AccountHeld
  <2>13. LiquidationTyped(job)
    BY <2>1, <2>7 DEF LiquidationTyped
  <2> QED
    BY <2>11, <2>12, <2>13, FiguresHeld
<1>19. CASE Margin!ReduceDebt
  <2>1. db.job[3] \in Int /\ db.job # <<>>
    BY <1>1, <1>19 DEF Margin!ReduceDebt, LiquidationTyped
  <2>2. Margin!Owed(db) \in Int
    BY <1>1 DEF Margin!Owed
  <2>3. PICK x : x = Margin!Min({db.job[3], Margin!Owed(db)})
    OBVIOUS
  <2>4. x \in Int /\ x <= Margin!Owed(db)
    BY <2>1, <2>2, <2>3, SmallerOfTwo
  <2>5. PICK left : left = Margin!Paid(x)
    OBVIOUS
  <2>6. PICK p, r, rest : /\ Figures(left, db.coll, db.holds, p, r, rest, db.job)
                          /\ AccountHeld(db.coll, db.holds, p, r, rest)
    BY <2>4, <2>5, PaymentHeld
  <2>7. PICK status : status = IF Margin!Owed(left) = 0 THEN "liquidated" ELSE left.status
    OBVIOUS
  <2>8. db' = [left EXCEPT !.job = <<>>, !.status = status]
    BY <1>19, <2>3, <2>5, <2>7 DEF Margin!ReduceDebt
  <2>9. Figures(db', db.coll, db.holds, p, r, rest, <<>>)
    BY <2>6, <2>7, <2>8 DEF MarginFields, Figures
  <2> QED
    BY <2>6, <2>9, FiguresHeld DEF LiquidationTyped
<1>20. CASE Margin!LiquidationFails
  <2>1. Figures(db', db.coll, db.holds, db.principal, db.interest, db.owes, <<>>)
    BY <1>1, <1>20 DEF Margin!LiquidationFails, MarginFields, Figures
  <2> QED
    BY <1>1, <2>1, FiguresHeld DEF LiquidationTyped
<1> QED
  BY <1>4, <1>5, <1>6, <1>7, <1>8, <1>16, <1>17, <1>18, <1>19, <1>20 DEF Margin!Next

LEMMA AccountBooks == AccountSound => Margin!MarginBooks /\ Margin!TypeOK
  BY DEF AccountSound, AccountHeld, Margin!MarginBooks, Margin!TypeOK, Margin!Owed

(* Fees.  The records, by kind, and the days add up to the same.             *)
FeeFields == {"percent", "fixed", "master", "records", "total", "daily", "day", "job", "sends"}
FeeRecord == [kind : Fees!Kinds, fee : Nat, status : {"collected", "distributed"}]

FeesOf(s) == [i \in DOMAIN s |-> s[i].fee]
OfKind(s, kind) == {i \in DOMAIN s : s[i].kind = kind}
ByKind(s) == [kind \in Fees!Kinds |-> Sum(FeesOf(s), OfKind(s, kind))]

RevenueRight(records, total, daily) ==
    /\ records \in Seq(FeeRecord) /\ total \in Nat /\ daily \in [{1, 2} -> Nat]
    /\ total = Sum(ByKind(records), Fees!Kinds) /\ total = Sum(daily, {1, 2})

SentFirst(records, job, sends) ==
    /\ \A i \in DOMAIN records : records[i].status = "distributed" => sends
    /\ \A r \in Ids : job[r] = "sent" => sends

FeesSound ==
    /\ FeeFields \subseteq DOMAIN db /\ db.percent \in 0..100 /\ db.fixed \in Nat /\ db.day \in {1, 2}
    /\ RevenueRight(db.records, db.total, db.daily)
    /\ DOMAIN db.job = Ids /\ SentFirst(db.records, db.job, db.sends)

LEMMA KindsFinite == IsFiniteSet(Fees!Kinds) /\ IsFiniteSet({1, 2})
<1>1. ASSUME NEW S, IsFiniteSet(S), NEW x PROVE IsFiniteSet(S \cup {x})
  BY <1>1, FS_AddElement
<1>2. IsFiniteSet({"swap"}) /\ IsFiniteSet({1})
  BY FS_Singleton
<1>3. IsFiniteSet({"swap"} \cup {"bridge"}) /\ IsFiniteSet({1} \cup {2})
  BY <1>1, <1>2
<1>4. IsFiniteSet(({"swap"} \cup {"bridge"}) \cup {"wallet"})
  BY <1>1, <1>3
<1>5. IsFiniteSet((({"swap"} \cup {"bridge"}) \cup {"wallet"}) \cup {"withdraw"})
  BY <1>1, <1>4
<1>6. IsFiniteSet(((({"swap"} \cup {"bridge"}) \cup {"wallet"}) \cup {"withdraw"}) \cup {"launchpad"})
  BY <1>1, <1>5
<1>7. /\ Fees!Kinds = ((({"swap"} \cup {"bridge"}) \cup {"wallet"}) \cup {"withdraw"}) \cup {"launchpad"}
      /\ {1, 2} = {1} \cup {2}
  BY DEF Fees!Kinds
<1> QED
  BY <1>3, <1>6, <1>7

LEMMA EmptyBooks == ASSUME NEW daily, daily = [d \in {1, 2} |-> 0]
                    PROVE  RevenueRight(<<>>, 0, daily)
<1>1. PICK by : by = ByKind(<<>>)
  OBVIOUS
<1>2. \A kind \in Fees!Kinds : OfKind(<<>>, kind) = {}
  BY DEF OfKind
<1>3. \A kind \in Fees!Kinds : by[kind] = 0
  BY <1>1, <1>2, SumEmpty DEF ByKind
<1>4. Sum(by, Fees!Kinds) = 0 * Cardinality(Fees!Kinds)
  BY <1>3, KindsFinite, SumConstant
<1>5. Sum(daily, {1, 2}) = 0 * Cardinality({1, 2})
  BY KindsFinite, SumConstant
<1>6. \A S : IsFiniteSet(S) => 0 * Cardinality(S) = 0
  BY FS_CardinalityType
<1>7. Sum(by, Fees!Kinds) = 0 /\ Sum(daily, {1, 2}) = 0
  BY <1>4, <1>5, <1>6, KindsFinite
<1> QED
  BY <1>1, <1>7 DEF RevenueRight

(* One more record, of a fee that is added to the total and to its day.      *)
LEMMA OneMoreRecord ==
  ASSUME NEW s \in Seq(FeeRecord), NEW a \in FeeRecord
  PROVE  Sum(ByKind(Append(s, a)), Fees!Kinds) = Sum(ByKind(s), Fees!Kinds) + a.fee
<1>1. PICK n \in Nat : n = Len(s) /\ DOMAIN s = 1..n
  OBVIOUS
<1>2. PICK r : r = Append(s, a)
  OBVIOUS
<1>3. r \in Seq(FeeRecord) /\ DOMAIN r = 1..(n + 1) /\ r[n + 1] = a /\ \A i \in 1..n : r[i] = s[i]
  BY <1>1, <1>2
<1>4. PICK f, g : f = FeesOf(s) /\ g = FeesOf(r)
  OBVIOUS
<1>5. PICK m : m = n + 1
  OBVIOUS
<1>6. 1..(n + 1) = 1..n \cup {m} /\ m \notin 1..n
  BY <1>1, <1>5
<1>7. \A i \in 1..n : s[i] \in FeeRecord
  BY <1>1
<1>8. /\ \A i \in 1..n : f[i] \in Nat /\ g[i] = f[i]
      /\ g[m] = a.fee /\ a.fee \in Nat
  BY <1>1, <1>3, <1>4, <1>5, <1>6, <1>7 DEF FeesOf, FeeRecord
<1>9. PICK x, y : x = ByKind(s) /\ y = ByKind(r)
  OBVIOUS
<1>10. IsFiniteSet(1..n) /\ a.kind \in Fees!Kinds
  BY <1>1, FS_Interval DEF FeeRecord
<1>11. ASSUME NEW kind \in Fees!Kinds
       PROVE  x[kind] \in Int /\ y[kind] = IF kind = a.kind THEN x[kind] + a.fee ELSE x[kind]
  <2>1. PICK A, B : A = OfKind(s, kind) /\ B = OfKind(r, kind)
    OBVIOUS
  <2>2. A \subseteq 1..n /\ IsFiniteSet(A) /\ m \notin A
    BY <1>1, <1>6, <1>10, <2>1, FS_Subset DEF OfKind
  <2>3. B = IF kind = a.kind THEN A \cup {m} ELSE A
    BY <1>1, <1>3, <1>5, <1>6, <2>1 DEF OfKind
  <2>4. x[kind] = Sum(f, A) /\ y[kind] = Sum(g, B)
    BY <1>4, <1>9, <2>1 DEF ByKind
  <2>5. Sum(g, A) = Sum(f, A)
    BY <1>8, <2>2, SumAgree
  <2>6. \A i \in A \cup {m} : g[i] \in Int
    BY <1>8, <2>2
  <2>7. Sum(g, A \cup {m}) = Sum(g, A) + g[m] /\ Sum(g, A) \in Int
    BY <2>2, <2>6, SumAdd
  <2> QED
    BY <1>8, <2>3, <2>4, <2>5, <2>7
<1>12. PICK K, k : K = Fees!Kinds /\ k = a.kind
  OBVIOUS
<1>13. /\ IsFiniteSet(K) /\ k \in K /\ \A z \in K : x[z] \in Int
       /\ y[k] \in Int /\ \A z \in K : z # k => y[z] = x[z]
  BY <1>8, <1>10, <1>11, <1>12, KindsFinite
<1>14. Sum(y, K) = Sum(x, K) - x[k] + y[k] /\ Sum(x, K) \in Int
  BY <1>13, SumUpdate
<1>15. y[k] = x[k] + a.fee /\ x[k] \in Int
  BY <1>10, <1>11, <1>12
<1>16. Sum(y, K) = Sum(x, K) + a.fee
  BY <1>8, <1>14, <1>15
<1> QED
  BY <1>2, <1>9, <1>12, <1>16

(* Records keep their kinds and fees as they are marked.                     *)
LEMMA MarkedRecords ==
  ASSUME NEW s \in Seq(FeeRecord), NEW r, r = [i \in DOMAIN s |-> [s[i] EXCEPT !.status = "distributed"]]
  PROVE  r \in Seq(FeeRecord) /\ DOMAIN r = DOMAIN s /\ ByKind(r) = ByKind(s)
<1>1. PICK n \in Nat : DOMAIN s = 1..n /\ Len(s) = n
  OBVIOUS
<1>2. \A i \in 1..n : s[i] \in FeeRecord
  BY <1>1
<1>3. \A i \in 1..n : r[i] \in FeeRecord /\ r[i].kind = s[i].kind /\ r[i].fee = s[i].fee
  BY <1>1, <1>2 DEF FeeRecord
<1>4. r = [i \in 1..n |-> r[i]] /\ DOMAIN r = 1..n
  BY <1>1
<1>5. r \in Seq(FeeRecord)
  BY <1>1, <1>3, <1>4, IsASeq
<1>6. FeesOf(r) = FeesOf(s) /\ \A kind \in Fees!Kinds : OfKind(r, kind) = OfKind(s, kind)
  BY <1>1, <1>3, <1>4 DEF FeesOf, OfKind
<1> QED
  BY <1>1, <1>4, <1>5, <1>6 DEF ByKind

(* The larger of the percentage and the fixed fee.                           *)
LEMMA FeeIsNatural ==
  ASSUME FeesSound, NEW x \in {2, 4}
  PROVE  Fees!FeeOn(x) \in Nat
<1>1. db.percent \in Nat /\ db.fixed \in Nat
  BY DEF FeesSound
<1>2. PICK part \in Nat : part = (x * db.percent) \div 100
  <2>1. PICK p \in Nat : p = x * db.percent
    BY <1>1
  <2>2. p \div 100 \in Nat
    OBVIOUS
  <2> QED
    BY <2>1, <2>2
<1>3. PICK fixed \in Nat : fixed = db.fixed
  BY <1>1
<1>4. Fees!Max({part, fixed}) = IF part <= fixed THEN fixed ELSE part
  BY DEF Fees!Max
<1> QED
  BY <1>2, <1>3, <1>4 DEF Fees!FeeOn

LEMMA NewCollector == ASSUME NEW day \in {1, 2}, NEW sends, NEW d, d = Fees!NewFeeCollectorService(day, sends)
                  PROVE  /\ FeeFields \subseteq DOMAIN d /\ d.percent \in 0..100 /\ d.fixed \in Nat
                         /\ d.day \in {1, 2} /\ RevenueRight(d.records, d.total, d.daily)
                         /\ DOMAIN d.job = Ids /\ SentFirst(d.records, d.job, d.sends)
<1>1. /\ FeeFields \subseteq DOMAIN d /\ d.percent \in 0..100 /\ d.fixed \in Nat /\ d.day \in {1, 2}
      /\ d.records = <<>> /\ d.total = 0 /\ d.daily = [x \in {1, 2} |-> 0]
      /\ d.job = [r \in Ids |-> "idle"]
  BY DEF Fees!NewFeeCollectorService, FeeFields
<1>2. RevenueRight(d.records, d.total, d.daily)
  BY <1>1, EmptyBooks
<1>3. SentFirst(d.records, d.job, d.sends)
  BY <1>1 DEF SentFirst
<1> QED
  BY <1>1, <1>2, <1>3

LEMMA FeesStart == Fees!Init => FeesSound
<1> SUFFICES ASSUME NEW d, d = db, d = Fees!NewFeeCollectorService(1, FALSE) PROVE FeesSound
  BY DEF Fees!Init
<1>1. /\ FeeFields \subseteq DOMAIN d /\ d.percent \in 0..100 /\ d.fixed \in Nat
      /\ d.day \in {1, 2} /\ RevenueRight(d.records, d.total, d.daily)
      /\ DOMAIN d.job = Ids /\ SentFirst(d.records, d.job, d.sends)
  BY NewCollector
<1> QED
  BY <1>1 DEF FeesSound

LEMMA FeesStep == ASSUME FeesSound, Fees!Next PROVE FeesSound'
<1>1. /\ FeeFields \subseteq DOMAIN db /\ db.percent \in 0..100 /\ db.fixed \in Nat /\ db.day \in {1, 2}
      /\ RevenueRight(db.records, db.total, db.daily)
      /\ DOMAIN db.job = Ids /\ SentFirst(db.records, db.job, db.sends)
      /\ db.records \in Seq(FeeRecord) /\ db.total \in Nat /\ db.daily \in [{1, 2} -> Nat]
      /\ db.total = Sum(ByKind(db.records), Fees!Kinds) /\ db.total = Sum(db.daily, {1, 2})
  BY DEF FeesSound, RevenueRight
<1>2. CASE Fees!Restart
  <2>1. PICK d : d = db' /\ d = Fees!NewFeeCollectorService(db.day, db.sends)
    BY <1>2 DEF Fees!Restart
  <2>2. PICK day, sends : day = db.day /\ sends = db.sends
    OBVIOUS
  <2>3. /\ FeeFields \subseteq DOMAIN d /\ d.percent \in 0..100 /\ d.fixed \in Nat
        /\ d.day \in {1, 2} /\ RevenueRight(d.records, d.total, d.daily)
        /\ DOMAIN d.job = Ids /\ SentFirst(d.records, d.job, d.sends)
    BY <1>1, <2>1, <2>2, NewCollector
  <2> QED
    BY <2>1, <2>3 DEF FeesSound
<1>3. CASE Fees!Tick
  <2>1. PICK day : day = db.day + 1 /\ day \in {1, 2} /\ db' = [db EXCEPT !.day = day]
    BY <1>3 DEF Fees!Tick
  <2> QED
    BY <1>1, <2>1 DEF FeesSound, FeeFields
<1>4. CASE Fees!SetMasterWallet
  BY <1>1, <1>4 DEF Fees!SetMasterWallet, FeesSound, FeeFields
<1>5. ASSUME NEW percent \in {-50, 100, 101}, NEW fixed \in {-1, 0, 3}, Fees!UpdateConfig(percent, fixed)
      PROVE  FeesSound'
  <2>1. percent \in 0..100 /\ fixed \in Nat /\ db' = [db EXCEPT !.percent = percent, !.fixed = fixed]
    BY <1>5 DEF Fees!UpdateConfig, Fees!ValidRates
  <2> QED
    BY <1>1, <2>1 DEF FeesSound, FeeFields
<1>6. ASSUME NEW kind \in Fees!Kinds, NEW x \in {2, 4}, Fees!Collected(kind, x) PROVE FeesSound'
  <2>1. PICK fee : fee = Fees!FeeOn(x)
    OBVIOUS
  <2>2. fee \in Nat
    BY <2>1, FeeIsNatural
  <2>3. PICK a : a = [kind |-> kind, fee |-> fee, status |-> "collected"]
    OBVIOUS
  <2>4. a \in FeeRecord /\ a.fee = fee /\ a.status = "collected"
    BY <2>2, <2>3 DEF FeeRecord
  <2>5. PICK r, total, daily : /\ r = Append(db.records, a) /\ total = db.total + fee
                               /\ daily = [db.daily EXCEPT ![db.day] = @ + fee]
    OBVIOUS
  <2>6. db' = [db EXCEPT !.records = r, !.total = total, !.daily = daily]
    BY <1>6, <2>1, <2>3, <2>5 DEF Fees!Collected, Fees!DailyWith
  <2>7. r \in Seq(FeeRecord) /\ \A i \in DOMAIN r : (i \in DOMAIN db.records /\ r[i] = db.records[i]) \/ r[i] = a
    BY <1>1, <2>4, <2>5
  <2>8. total = Sum(ByKind(r), Fees!Kinds)
    BY <1>1, <2>4, <2>5, OneMoreRecord
  <2>9. /\ daily \in [{1, 2} -> Nat] /\ daily[db.day] = db.daily[db.day] + fee
        /\ \A d \in {1, 2} : d # db.day => daily[d] = db.daily[d]
    BY <1>1, <2>2, <2>5
  <2>10. PICK D, d, f : D = {1, 2} /\ d = db.day /\ f = db.daily
    OBVIOUS
  <2>11. /\ IsFiniteSet(D) /\ d \in D /\ \A y \in D : f[y] \in Int
         /\ daily[d] \in Int /\ \A y \in D : y # d => daily[y] = f[y]
    BY <1>1, <2>9, <2>10, KindsFinite
  <2>12. Sum(daily, D) = Sum(f, D) - f[d] + daily[d] /\ Sum(f, D) \in Int
    BY <2>11, SumUpdate
  <2>13. daily[d] = f[d] + fee /\ f[d] \in Int
    BY <2>9, <2>10, <2>11
  <2>14. total = Sum(daily, {1, 2}) /\ total \in Nat
    BY <1>1, <2>2, <2>5, <2>10, <2>12, <2>13
  <2>15. RevenueRight(r, total, daily)
    BY <2>7, <2>8, <2>9, <2>14 DEF RevenueRight
  <2>16. SentFirst(r, db.job, db.sends)
    BY <1>1, <2>4, <2>7 DEF SentFirst
  <2>17. /\ FeeFields \subseteq DOMAIN db' /\ db'.percent = db.percent /\ db'.fixed = db.fixed
         /\ db'.day = db.day /\ db'.records = r /\ db'.total = total /\ db'.daily = daily
         /\ db'.job = db.job /\ db'.sends = db.sends
    BY <1>1, <2>6 DEF FeeFields
  <2> QED
    BY <1>1, <2>15, <2>16, <2>17 DEF FeesSound
<1>7. ASSUME NEW x \in {2, 4},
             \/ Fees!CollectSwapFee(x) \/ Fees!CollectBridgeFee(x) \/ Fees!CollectWalletFee(x)
             \/ Fees!CollectWithdrawFee(x) \/ Fees!CollectLaunchpadFee(x)
      PROVE  FeesSound'
  <2>1. \E kind \in Fees!Kinds : Fees!Collected(kind, x)
    BY <1>7 DEF Fees!CollectSwapFee, Fees!CollectBridgeFee, Fees!CollectWalletFee,
       Fees!CollectWithdrawFee, Fees!CollectLaunchpadFee, Fees!Kinds
  <2> QED
    BY <1>6, <2>1
<1>8. ASSUME NEW r \in Ids, Fees!DistributeFees(r) \/ Fees!SendFees(r) PROVE FeesSound'
  <2>1. PICK to, sends : /\ db' = [db EXCEPT !.job[r] = to, !.sends = sends]
                         /\ (db.sends => sends) /\ (to = "sent" => sends)
    <3>1. CASE db' = [db EXCEPT !.job[r] = "sent", !.sends = TRUE]
      BY <3>1
    <3>2. ASSUME NEW to \in {"sending", "idle"}, db' = [db EXCEPT !.job[r] = to]
          PROVE  /\ db' = [db EXCEPT !.job[r] = to, !.sends = db.sends]
                 /\ (db.sends => db.sends) /\ (to = "sent" => db.sends)
      BY <1>1, <3>2 DEF FeeFields
    <3> QED
      BY <1>8, <3>1, <3>2 DEF Fees!DistributeFees, Fees!SendFees
  <2>2. PICK job : job = [db.job EXCEPT ![r] = to]
    OBVIOUS
  <2>3. /\ FeeFields \subseteq DOMAIN db' /\ db'.percent = db.percent /\ db'.fixed = db.fixed
        /\ db'.day = db.day /\ db'.records = db.records /\ db'.total = db.total
        /\ db'.daily = db.daily /\ db'.job = job /\ db'.sends = sends
    BY <1>1, <2>1, <2>2 DEF FeeFields
  <2>4. DOMAIN job = Ids /\ \A q \in Ids : job[q] = IF q = r THEN to ELSE db.job[q]
    BY <1>1, <2>2
  <2>5. SentFirst(db.records, job, sends)
    BY <1>1, <2>1, <2>4 DEF SentFirst
  <2> QED
    BY <1>1, <2>3, <2>4, <2>5 DEF FeesSound
<1>9. ASSUME NEW r \in Ids, Fees!MarkDistributed(r) PROVE FeesSound'
  <2>1. PICK job, s : /\ job = [db.job EXCEPT ![r] = "idle"]
                      /\ s = [i \in DOMAIN db.records |-> [db.records[i] EXCEPT !.status = "distributed"]]
    OBVIOUS
  <2>2. db.job[r] = "sent" /\ db' = [db EXCEPT !.job = job, !.records = s]
    BY <1>9, <2>1 DEF Fees!MarkDistributed
  <2>3. s \in Seq(FeeRecord) /\ DOMAIN s = DOMAIN db.records /\ ByKind(s) = ByKind(db.records)
    BY <1>1, <2>1, MarkedRecords
  <2>4. /\ FeeFields \subseteq DOMAIN db' /\ db'.percent = db.percent /\ db'.fixed = db.fixed
        /\ db'.day = db.day /\ db'.records = s /\ db'.total = db.total
        /\ db'.daily = db.daily /\ db'.job = job /\ db'.sends = db.sends
    BY <1>1, <2>2 DEF FeeFields
  <2>5. RevenueRight(s, db.total, db.daily)
    BY <1>1, <2>3 DEF RevenueRight
  <2>6. db.sends
    BY <1>1, <2>2 DEF SentFirst
  <2>7. DOMAIN job = Ids /\ SentFirst(s, job, db.sends)
    BY <1>1, <2>1, <2>6 DEF SentFirst
  <2> QED
    BY <1>1, <2>4, <2>5, <2>7 DEF FeesSound
<1> QED
  BY <1>2, <1>3, <1>4, <1>5, <1>7, <1>8, <1>9 DEF Fees!Next

LEMMA RevenueAgrees == FeesSound => Fees!FeesAccounted /\ Fees!TypeOK
<1> SUFFICES ASSUME FeesSound PROVE Fees!FeesAccounted /\ Fees!TypeOK
  OBVIOUS
<1>1. /\ db.records \in Seq(FeeRecord) /\ db.total \in Nat
      /\ db.total = Sum(ByKind(db.records), Fees!Kinds) /\ db.total = Sum(db.daily, {1, 2})
      /\ SentFirst(db.records, db.job, db.sends)
  BY DEF FeesSound, RevenueRight
<1>2. \A f, S : Fees!Sum(f, S) = Sum(f, S)
  BY DEF Fees!Sum, Sum, Fees!MapThenSumSet, MapThenSumSet, Fees!MapThenFoldSet, MapThenFoldSet
<1>3. Fees!Report = ByKind(db.records)
  BY <1>2 DEF Fees!Report, ByKind, FeesOf, OfKind
<1>4. \A q \in Fees!ToSet(db.records) : q \in FeeRecord /\ (q.status = "distributed" => db.sends)
  BY <1>1 DEF Fees!ToSet, SentFirst
<1> QED
  BY <1>1, <1>2, <1>3, <1>4 DEF Fees!FeesAccounted, Fees!TypeOK, FeeRecord

FundsIInv ==
    /\ service \in Services
    /\ (service = "options" => PoolSound)
    /\ (service = "nft" => PaymentsSound)
    /\ (service = "airdrop" => EscrowSound)
    /\ (service = "margin" => AccountSound)
    /\ (service = "fees" => FeesSound)

(* What the services hold is what was paid in: the options pool, the         *)
(* marketplace, the airdrop's escrow, a margin account and the fee           *)
(* collector's totals, for any number of users and requests.                 *)
THEOREM PlatformFundsHeld == Spec => []FundsHeld
<1>1. Init => FundsIInv
  BY PoolInit, PaymentsInit, EscrowInit, AccountInit, FeesStart DEF Init, FundsIInv, Services
<1>2. FundsIInv /\ [Next]_<<service, db>> => FundsIInv'
  <2> SUFFICES ASSUME FundsIInv, [Next]_<<service, db>> PROVE FundsIInv'
    OBVIOUS
  <2>1. CASE UNCHANGED <<service, db>>
    BY <2>1 DEF FundsIInv, PoolSound, PaymentsSound, EscrowSound, AccountSound, FeesSound
  <2>2. CASE Next
    <3>1. /\ service' = service
          /\ (service = "options" => Options!Next)
          /\ (service = "nft" => NFT!Next)
          /\ (service = "airdrop" => Airdrop!Next)
          /\ (service = "margin" => Margin!Next)
          /\ (service = "fees" => Fees!Next)
      BY <2>2 DEF Next, Step
    <3> QED
      BY <3>1, PoolStep, PaymentsStep, EscrowStep, AccountStep, FeesStep DEF FundsIInv
  <2> QED
    BY <2>1, <2>2
<1>3. FundsIInv => FundsHeld
  BY PoolIsHeld, PaymentsAreHeld, EscrowPays, AccountBooks, RevenueAgrees DEF FundsIInv, FundsHeld
<1> QED
  BY <1>1, <1>2, <1>3, PTL DEF Spec

----
(* Types.  The fields that no invariant above speaks of keep theirs, by      *)
(* themselves; the others by the invariant of their service.                 *)
HubTyped == db.backlog \in 0..1
PhasesTyped == \A t \in Ids : db.token[t] \in Sessions!Phases
RowsTyped == \A i \in {"token"} : db.item[i] \in {"absent", "active", "inactive"}
WorkTyped == Keeper!TypeOK
CopiesTyped == \A p \in {"p"} : /\ "status" \in DOMAIN db.pos[p]
                                 /\ db.pos[p].status \in {"none", "open", "closed"}
RegistryTyped(d) ==
    /\ DOMAIN d.chains \subseteq Chains /\ DOMAIN d.tokens \subseteq Chains
    /\ DOMAIN d.bridges \subseteq {"bridge"} /\ DOMAIN d.farms \subseteq {"farm"}
Statused(f) == \A x \in DOMAIN f : "status" \in DOMAIN f[x] /\ f[x].status \in NFT!Statuses
MarketTyped(coll, supply, token, listing, offer) ==
    /\ coll \in {"active", "paused", "gone"} /\ supply \in Nat
    /\ DOMAIN token \subseteq {1} \cap 1..supply
    /\ Statused(listing) /\ Statused(offer)

(* The broadcast channel holds no more than it has room for.                 *)
LEMMA HubRoom ==
  /\ Hub!Init => HubTyped
  /\ HubSound /\ HubTyped /\ Hub!Next => HubTyped'
<1>1. Hub!Init => HubTyped
  BY DEF Hub!Init, HubTyped
<1>2. ASSUME HubSound, HubTyped, Hub!Next PROVE HubTyped'
  <2>0. db \in HubRow /\ db.backlog \in 0..1
    BY <1>2 DEF HubSound, HubTyped
  <2>1. ASSUME NEW c, Hub!Broadcast(c) PROVE HubTyped'
    BY <2>0, <2>1 DEF Hub!Broadcast, HubTyped, HubRow
  <2>2. CASE Hub!FanOut
    <3>1. db'.backlog = db.backlog - 1 /\ db.backlog > 0
      BY <2>0, <2>2 DEF Hub!FanOut, HubRow
    <3> QED
      BY <2>0, <3>1 DEF HubTyped
  <2>3. ASSUME \/ Hub!Stop
               \/ \E c \in Ids : Hub!HandleWebSocket(c) \/ Hub!StopReading(c) \/ Hub!Write(c)
                                 \/ Hub!Register(c) \/ Hub!Unregister(c)
        PROVE  HubTyped'
    <3>1. db'.backlog = db.backlog
      BY <2>0, <2>3 DEF Hub!Stop, Hub!HandleWebSocket, Hub!StopReading, Hub!Write, Hub!Register,
         Hub!Unregister, HubRow
    <3> QED
      BY <2>0, <3>1 DEF HubTyped
  <2> QED
    BY <1>2, <2>1, <2>2, <2>3 DEF Hub!Next
<1> QED
  BY <1>1, <1>2

(* A token is not yet issued, live or expired.                               *)
LEMMA PhaseOfTokens ==
  /\ Sessions!Init => PhasesTyped
  /\ LogoutsSound /\ PhasesTyped /\ Sessions!Next => PhasesTyped'
<1>1. Sessions!Init => PhasesTyped
  BY DEF Sessions!Init, PhasesTyped, Sessions!Phases
<1>2. ASSUME LogoutsSound, PhasesTyped, Sessions!Next PROVE PhasesTyped'
  <2>0. TokenFields \subseteq DOMAIN db /\ DOMAIN db.token = Ids
    BY <1>2 DEF LogoutsSound, Revocations
  <2>1. ASSUME NEW t \in Ids, NEW phase \in {"live", "expired"},
               NEW f, f = [db.token EXCEPT ![t] = phase], db'.token = f
        PROVE  PhasesTyped'
    BY <1>2, <2>0, <2>1 DEF PhasesTyped, Sessions!Phases
  <2>2. ASSUME NEW t \in Ids, Sessions!Register(t) \/ Sessions!Login(t) \/ Sessions!Expire(t)
               \/ \E p, old : Sessions!RefreshToken(p, old, t)
        PROVE  PhasesTyped'
    <3>1. PICK phase \in {"live", "expired"} : db'.token = [db.token EXCEPT ![t] = phase]
      BY <2>0, <2>2 DEF Sessions!Register, Sessions!Login, Sessions!Expire,
         Sessions!RefreshToken, TokenFields
    <3> QED
      BY <2>1, <3>1
  <2>3. ASSUME \/ \E status : Sessions!SetActive(status)
               \/ \E p, loaded : Sessions!Restart(p, loaded)
               \/ \E p, t : Sessions!Revoke(p, t) \/ Sessions!Answer(p, t) \/ Sessions!DropExpired(p, t)
        PROVE  PhasesTyped'
    <3>1. db'.token = db.token
      BY <2>0, <2>3 DEF Sessions!SetActive, Sessions!Restart, Sessions!Revoke, Sessions!Answer,
         Sessions!DropExpired, TokenFields
    <3> QED
      BY <1>2, <3>1 DEF PhasesTyped
  <2> QED
    BY <1>2, <2>2, <2>3 DEF Sessions!Next
<1> QED
  BY <1>1, <1>2

(* Every operator writes one of the statuses the console knows.              *)
LEMMA StatusOfRows ==
  /\ Admin!Init => RowsTyped
  /\ AdminSound /\ RowsTyped /\ Admin!Next => RowsTyped'
<1>1. Admin!Init => RowsTyped
  BY DEF Admin!Init, RowsTyped
<1>2. ASSUME AdminSound, RowsTyped, Admin!Next PROVE RowsTyped'
  <2>1. ASSUME NEW i \in {"token"}, NEW status \in {"active", "inactive"},
               db' = [db EXCEPT !.item[i] = status]
        PROVE  RowsTyped'
    BY <1>2, <2>1 DEF AdminSound, RowsTyped
  <2>2. ASSUME NEW i \in {"token"}, Admin!CreateItem(i) \/ Admin!DeleteItem(i) PROVE RowsTyped'
    BY <2>1, <2>2 DEF Admin!CreateItem, Admin!DeleteItem, Admin!Deleted
  <2>3. ASSUME NEW i \in {"token"}, NEW status \in {"active", "inactive"}, Admin!UpdateItem(i, status)
        PROVE  RowsTyped'
    BY <2>1, <2>3 DEF Admin!UpdateItem
  <2>4. ASSUME NEW r, Admin!SaveSettings(r) \/ \E changes : Admin!LoadSettings(r, changes)
        PROVE  RowsTyped'
    BY <1>2, <2>4 DEF Admin!LoadSettings, Admin!SaveSettings, AdminSound, RowsTyped
  <2> QED
    BY <1>2, <2>2, <2>3, <2>4 DEF Admin!Next, Admin!CreateChain, Admin!CreateToken,
       Admin!CreatePool, Admin!DeleteUser, Admin!DeleteChain, Admin!DeleteToken, Admin!DeletePool,
       Admin!UpdateUser, Admin!UpdateChain, Admin!UpdateToken, Admin!UpdatePool,
       Admin!EnableMaintenance, Admin!DisableMaintenance, Admin!UpdateConfig
<1> QED
  BY <1>1, <1>2

(* What the keeper has synchronised and sent.                                *)
LEMMA WorkOfKeeper ==
  /\ Keeper!Init => WorkTyped
  /\ KeeperSound /\ WorkTyped /\ Keeper!Next => WorkTyped'
<1>1. Keeper!Init => WorkTyped
  BY DEF Keeper!Init, WorkTyped, Keeper!TypeOK
<1>2. ASSUME KeeperSound, WorkTyped, Keeper!Next PROVE WorkTyped'
  <2>0. /\ {"pos", "order", "known", "read", "sent", "price"} \subseteq DOMAIN db
        /\ db.known \subseteq {"position", "order"} /\ db.sent \subseteq Keeper!Kinds
    BY <1>2 DEF KeeperSound, WorkTyped, Keeper!TypeOK
  <2>1. ASSUME db'.known \subseteq db.known \cup {"position", "order"},
               db'.sent \subseteq db.sent \cup Keeper!Kinds
        PROVE  WorkTyped'
    BY <2>0, <2>1 DEF WorkTyped, Keeper!TypeOK
  <2>2. CASE Keeper!MineExecute \/ Keeper!MineTrigger \/ Keeper!MineLiquidate \/ Keeper!ClosePosition
    <3>1. ASSUME NEW sent \in SUBSET db.sent, NEW row,
                 \/ db' = [db EXCEPT !.sent = sent, !.order = row]
                 \/ db' = [db EXCEPT !.sent = sent, !.pos = row]
                 \/ db' = [db EXCEPT !.pos = row]
          PROVE  WorkTyped'
      BY <2>0, <2>1, <3>1
    <3>2. db.sent \ {"execute"} \in SUBSET db.sent /\ db.sent \ {"trigger"} \in SUBSET db.sent
          /\ db.sent \ {"liquidate"} \in SUBSET db.sent
      OBVIOUS
    <3>3. CASE Keeper!MineExecute
      BY <3>1, <3>2, <3>3 DEF Keeper!MineExecute
    <3>4. CASE Keeper!MineTrigger
      BY <3>1, <3>2, <3>4 DEF Keeper!MineTrigger
    <3>5. CASE Keeper!MineLiquidate \/ Keeper!ClosePosition
      BY <3>1, <3>2, <3>5 DEF Keeper!MineLiquidate, Keeper!ClosePosition
    <3> QED
      BY <2>2, <3>3, <3>4, <3>5
  <2>3. ASSUME \/ Keeper!Wait \/ Keeper!Expire \/ Keeper!OraclePrice
               \/ Keeper!SyncPositions \/ Keeper!SyncOrders
               \/ \E kind : Keeper!Dropped(kind)
               \/ \E status : Keeper!CloseOrder(status)
               \/ \E price : Keeper!SetPrice(price)
        PROVE  WorkTyped'
    BY <2>0, <2>1, <2>3 DEF Keeper!Wait, Keeper!Expire, Keeper!OraclePrice,
       Keeper!SyncPositions, Keeper!SyncOrders, Keeper!Dropped, Keeper!CloseOrder, Keeper!SetPrice
  <2>4. CASE Keeper!CheckLiquidations
    BY <2>0, <2>1, <2>4 DEF Keeper!CheckLiquidations, Keeper!Send, Keeper!Kinds
  <2>5. CASE Keeper!CheckOrders
    BY <2>0, <2>1, <2>5 DEF Keeper!CheckOrders, Keeper!TriggerOrder, Keeper!ExecuteOrder,
       Keeper!Send, Keeper!Kinds
  <2> QED
    BY <1>2, <2>2, <2>3, <2>4, <2>5 DEF Keeper!Next
<1> QED
  BY <1>1, <1>2

(* A copied position is absent, open or closed.                              *)
LEMMA StatusOfCopies ==
  /\ Copy!Init => CopiesTyped
  /\ CopySound /\ CopiesTyped /\ Copy!Next => CopiesTyped'
<1>1. Copy!Init => CopiesTyped
  BY DEF Copy!Init, Copy!NoPosition, Copy!None, CopiesTyped
<1>2. ASSUME CopySound, CopiesTyped, Copy!Next PROVE CopiesTyped'
  <2>0. db.pos["p"].status \in {"none", "open", "closed"} /\ "status" \in DOMAIN db.pos["p"]
        /\ "pos" \in DOMAIN db /\ DOMAIN db.pos = {"p"}
    BY <1>2 DEF CopySound, CopiesTyped
  <2>1. CASE Copy!UpdateCopyPositions
    <3>1. PICK price, row : price = db.sweep.price /\ row = [db.pos["p"] EXCEPT !.mark = price]
      OBVIOUS
    <3>2. PICK marked, pos :
            /\ pos = [p \in {"p"} |-> IF p \in marked THEN [db.pos[p] EXCEPT !.mark = price]
                                      ELSE db.pos[p]]
            /\ db' = [db EXCEPT !.sweep = <<>>, !.pos = pos]
      BY <2>1, <3>1 DEF Copy!UpdateCopyPositions, Copy!Marked
    <3>3. db'.pos["p"] = db.pos["p"] \/ db'.pos["p"] = row
      BY <2>0, <3>1, <3>2
    <3>4. row.status = db.pos["p"].status /\ "status" \in DOMAIN row
      BY <2>0, <3>1
    <3> QED
      BY <2>0, <3>3, <3>4 DEF CopiesTyped
  <2>2. ASSUME NEW row, row.status \in {"open", "closed"}, "status" \in DOMAIN row,
               db' = [db EXCEPT !.pos["p"] = row]
        PROVE  CopiesTyped'
    BY <2>0, <2>2 DEF CopiesTyped
  <2>3. ASSUME NEW u, NEW p \in {"p"}, Copy!CloseCopyPosition(u, p) PROVE CopiesTyped'
    <3>1. PICK row : row = [db.pos["p"] EXCEPT !.status = "closed"]
      OBVIOUS
    <3>2. row.status = "closed" /\ "status" \in DOMAIN row
      BY <2>0, <3>1
    <3>3. db' = [db EXCEPT !.pos["p"] = row]
      BY <2>3, <3>1 DEF Copy!CloseCopyPosition
    <3> QED
      BY <2>2, <3>2, <3>3
  <2>4. ASSUME NEW u, NEW t, NEW p \in {"p"}, NEW price, Copy!CopyTrade(u, t, p, price)
        PROVE  CopiesTyped'
    <3>1. PICK row : row = [status |-> "open", owner |-> u, trader |-> t, mark |-> price]
      OBVIOUS
    <3>2. row.status = "open" /\ "status" \in DOMAIN row
      BY <3>1
    <3>3. db' = [db EXCEPT !.pos["p"] = row]
      BY <2>4, <3>1 DEF Copy!CopyTrade
    <3> QED
      BY <2>2, <3>2, <3>3
  <2>5. ASSUME \/ \E price : Copy!ReadPrices(price)
               \/ \E t : Copy!RegisterTrader(t)
               \/ \E u : Copy!StopFollowing(u)
               \/ \E u, t, ratio : Copy!StartFollowingHandler(u, t, ratio)
        PROVE  CopiesTyped'
    <3>1. db'.pos = db.pos
      BY <1>2, <2>5 DEF Copy!ReadPrices, Copy!RegisterTrader, Copy!StopFollowing,
         Copy!StartFollowingHandler, Copy!StartFollowing, CopySound
    <3> QED
      BY <1>2, <3>1 DEF CopiesTyped
  <2> QED
    BY <1>2, <2>1, <2>3, <2>4, <2>5 DEF Copy!Next
<1> QED
  BY <1>1, <1>2

(* An operation leaves the keys of the maps as they are in d.                *)
LEMMA KeysMove ==
  ASSUME NEW d, Fields \subseteq DOMAIN d, RegistryTyped(d), db' = Integrations!updateStats(d)
  PROVE  RegistryTyped(db)'
<1>1. /\ db'.chains = d.chains /\ db'.tokens = d.tokens
      /\ db'.bridges = d.bridges /\ db'.farms = d.farms
  BY StatsCounted
<1> QED
  BY <1>1 DEF RegistryTyped

(* The maps of the registry hold the keys they were asked for.               *)
LEMMA KeysOfRegistry ==
  /\ Integrations!Init => RegistryTyped(db)
  /\ IntegrationsSound(db) /\ RegistryTyped(db) /\ Integrations!Next => RegistryTyped(db)'
<1>1. ASSUME Integrations!Init PROVE RegistryTyped(db)
  <2> DEFINE d == [chains |-> [c \in {FirstChain} |-> [active |-> TRUE]],
                   tokens |-> [t \in {FirstChain} |-> [active |-> TRUE, uses |-> {FirstChain}]],
                   bridges |-> <<>>, farms |-> <<>>, total |-> <<>>, active |-> <<>>, dropped |-> {}]
  <2>1. db = Integrations!updateStats(d)
    BY <1>1 DEF Integrations!Init
  <2>2. Fields \subseteq DOMAIN d
    BY DEF Fields
  <2>3. RegistryTyped(d)
    <3>1. /\ DOMAIN d.chains = {FirstChain} /\ DOMAIN d.tokens = {FirstChain}
          /\ d.bridges = <<>> /\ d.farms = <<>>
      OBVIOUS
    <3>2. DOMAIN <<>> = {}
      OBVIOUS
    <3> HIDE DEF d
    <3> QED
      BY <3>1, <3>2, PlatformAssumption DEF RegistryTyped
  <2> HIDE DEF d
  <2>4. db.chains = d.chains /\ db.tokens = d.tokens /\ db.bridges = d.bridges /\ db.farms = d.farms
    BY <2>1, <2>2, StatsCounted
  <2> QED
    BY <2>3, <2>4 DEF RegistryTyped
<1>2. ASSUME IntegrationsSound(db), RegistryTyped(db), Integrations!Next PROVE RegistryTyped(db)'
  <2>1. /\ Fields \subseteq DOMAIN db
        /\ DOMAIN db.chains \subseteq Chains /\ DOMAIN db.tokens \subseteq Chains
        /\ DOMAIN db.bridges \subseteq {"bridge"} /\ DOMAIN db.farms \subseteq {"farm"}
    BY <1>2 DEF IntegrationsSound, RegistryTyped
  <2>2. ASSUME NEW c \in Chains, Integrations!AddChain(c) PROVE RegistryTyped(db)'
    <3>1. PICK d : d = [db EXCEPT !.chains = Integrations!With(@, c, [active |-> TRUE])]
      OBVIOUS
    <3>2. Fields \subseteq DOMAIN d /\ RegistryTyped(d)
      BY <2>1, <3>1 DEF RegistryTyped, Fields, Integrations!With, Integrations!Without
    <3> QED
      BY <2>2, <3>1, <3>2, KeysMove DEF Integrations!AddChain
  <2>3. ASSUME NEW c \in Chains, Integrations!DeleteChain(c) PROVE RegistryTyped(db)'
    <3>1. PICK d : d = [db EXCEPT !.chains = Integrations!Without(@, c), !.dropped = @ \cup {c}]
      OBVIOUS
    <3>2. Fields \subseteq DOMAIN d /\ RegistryTyped(d)
      BY <2>1, <3>1 DEF RegistryTyped, Fields, Integrations!With, Integrations!Without
    <3> QED
      BY <2>3, <3>1, <3>2, KeysMove DEF Integrations!DeleteChain
  <2>4. ASSUME NEW c \in Chains, NEW on, Integrations!ActivateChain(c, on) PROVE RegistryTyped(db)'
    <3>1. PICK d : d = [db EXCEPT !.chains[c].active = on]
      OBVIOUS
    <3>2. Fields \subseteq DOMAIN d /\ RegistryTyped(d)
      BY <2>1, <3>1 DEF RegistryTyped, Fields, Integrations!With, Integrations!Without
    <3> QED
      BY <2>4, <3>1, <3>2, KeysMove DEF Integrations!ActivateChain
  <2>5. ASSUME NEW c, NEW t \in Chains, Integrations!AddToken(t, c) PROVE RegistryTyped(db)'
    <3>1. PICK d : d = [db EXCEPT !.tokens = Integrations!With(@, t, [active |-> TRUE, uses |-> {c}])]
      OBVIOUS
    <3>2. Fields \subseteq DOMAIN d /\ RegistryTyped(d)
      BY <2>1, <3>1 DEF RegistryTyped, Fields, Integrations!With, Integrations!Without
    <3> QED
      BY <2>5, <3>1, <3>2, KeysMove DEF Integrations!AddToken
  <2>6. ASSUME NEW t \in Chains, Integrations!DeleteToken(t) PROVE RegistryTyped(db)'
    <3>1. PICK d : d = [db EXCEPT !.tokens = Integrations!Without(@, t), !.dropped = @ \cup {t}]
      OBVIOUS
    <3>2. Fields \subseteq DOMAIN d /\ RegistryTyped(d)
      BY <2>1, <3>1 DEF RegistryTyped, Fields, Integrations!With, Integrations!Without
    <3> QED
      BY <2>6, <3>1, <3>2, KeysMove DEF Integrations!DeleteToken
  <2>7. ASSUME NEW t \in Chains, NEW on, Integrations!ActivateToken(t, on) PROVE RegistryTyped(db)'
    <3>1. PICK d : d = [db EXCEPT !.tokens[t].active = on]
      OBVIOUS
    <3>2. Fields \subseteq DOMAIN d /\ RegistryTyped(d)
      BY <2>1, <3>1 DEF RegistryTyped, Fields, Integrations!With, Integrations!Without
    <3> QED
      BY <2>7, <3>1, <3>2, KeysMove DEF Integrations!ActivateToken
  <2>8. ASSUME NEW k \in {"bridge"}, NEW a, NEW b, Integrations!AddBridge(k, a, b) PROVE RegistryTyped(db)'
    <3>1. PICK d : d = [db EXCEPT !.bridges = Integrations!With(@, k, [active |-> TRUE, uses |-> {a, b}])]
      OBVIOUS
    <3>2. Fields \subseteq DOMAIN d /\ RegistryTyped(d)
      BY <2>1, <3>1 DEF RegistryTyped, Fields, Integrations!With, Integrations!Without
    <3> QED
      BY <2>8, <3>1, <3>2, KeysMove DEF Integrations!AddBridge
  <2>9. ASSUME NEW k \in {"farm"}, NEW a, NEW b, Integrations!CreatePool(k, a, b) PROVE RegistryTyped(db)'
    <3>1. PICK d : d = [db EXCEPT !.farms = Integrations!With(@, k, [active |-> TRUE, uses |-> {a, b}])]
      OBVIOUS
    <3>2. Fields \subseteq DOMAIN d /\ RegistryTyped(d)
      BY <2>1, <3>1 DEF RegistryTyped, Fields, Integrations!With, Integrations!Without
    <3> QED
      BY <2>9, <3>1, <3>2, KeysMove DEF Integrations!CreatePool
  <2>10. ASSUME NEW k \in {"farm"}, Integrations!CreateFarm(k) PROVE RegistryTyped(db)'
    <3>1. PICK d : d = [db EXCEPT !.farms = Integrations!With(@, k, [active |-> TRUE, uses |-> {}])]
      OBVIOUS
    <3>2. Fields \subseteq DOMAIN d /\ RegistryTyped(d)
      BY <2>1, <3>1 DEF RegistryTyped, Fields, Integrations!With, Integrations!Without
    <3> QED
      BY <2>10, <3>1, <3>2, KeysMove DEF Integrations!CreateFarm
  <2> QED
    BY <1>2, <2>2, <2>3, <2>4, <2>5, <2>6, <2>7, <2>8, <2>9, <2>10 DEF Integrations!Next
<1> QED
  BY <1>1, <1>2

(* Rows that keep a status when one of their fields is written.              *)
LEMMA StatusKept ==
  ASSUME NEW f, Statused(f)
  PROVE  /\ \A x, v : Statused([f EXCEPT ![x].late = v])
         /\ \A x, v, w : Statused([[f EXCEPT ![x].price = v] EXCEPT ![x].late = w])
         /\ \A x : \A v \in NFT!Statuses : Statused([f EXCEPT ![x].status = v])
         /\ \A x, row : "status" \in DOMAIN row /\ row.status \in NFT!Statuses => Statused(NFT!Put(f, x, row))
  BY DEF Statused, NFT!Put

(* What an operation writes.                                                 *)
MarketWrites(coll, supply, token, listing, offer) ==
    /\ db'.coll = coll /\ db'.supply = supply /\ db'.token = token
    /\ db'.listing = listing /\ db'.offer = offer

(* The tables of the marketplace.                                            *)
NFTTyped == MarketTyped(db.coll, db.supply, db.token, db.listing, db.offer)

LEMMA RowsOfMarket ==
  /\ NFT!Init => NFTTyped
  /\ NFTSound /\ NFTTyped /\ NFT!Next => NFTTyped'
<1>1. ASSUME NFT!Init PROVE NFTTyped
  <2>1. PICK status, d : status \in {"active", "paused"} /\
          /\ d = NFT!CreateCollection(status)
          /\ db = [x \in DOMAIN d \cup {"seen"} |-> IF x = "seen" THEN NFT!Load(d) ELSE d[x]]
    BY <1>1 DEF NFT!Init
  <2>2. /\ {"coll", "supply", "token", "listing", "offer"} \subseteq DOMAIN d
        /\ d.coll = status /\ d.supply = 0 /\ d.token = <<>> /\ d.listing = <<>> /\ d.offer = <<>>
    BY <2>1 DEF NFT!CreateCollection
  <2>3. db.coll = status /\ db.supply = 0 /\ db.token = <<>> /\ db.listing = <<>> /\ db.offer = <<>>
    BY <2>1, <2>2
  <2>4. DOMAIN <<>> = {}
    OBVIOUS
  <2> QED
    BY <2>1, <2>3, <2>4 DEF NFTTyped, MarketTyped, Statused
<1>2. ASSUME NFTSound, NFTTyped, NFT!Next PROVE NFTTyped'
  <2> DEFINE Kept == NFTTyped'
  <2>1. PICK coll, supply, token, listing, offer :
          /\ coll = db.coll /\ supply = db.supply /\ token = db.token
          /\ listing = db.listing /\ offer = db.offer
    OBVIOUS
  <2>2. NFTFields \subseteq DOMAIN db /\ MarketTyped(coll, supply, token, listing, offer)
    BY <1>2, <2>1 DEF NFTSound, NFTTyped
  <2>3. Statused(listing) /\ Statused(offer)
    BY <2>2 DEF MarketTyped
  <2>4. \A c, n, t, l, o : MarketWrites(c, n, t, l, o) /\ MarketTyped(c, n, t, l, o) => Kept
    BY DEF MarketWrites, NFTTyped
  <2> HIDE DEF Kept
  <2>5. ASSUME NEW c \in {coll, "active", "paused", "gone"}, MarketWrites(c, supply, token, listing, offer)
        PROVE  Kept
    <3>1. MarketTyped(c, supply, token, listing, offer)
      BY <2>2, <2>5 DEF MarketTyped
    <3> QED
      BY <2>4, <2>5, <3>1
  <2>6. ASSUME NEW t, DOMAIN t = DOMAIN token, NEW l, Statused(l), NEW o, Statused(o),
               MarketWrites(coll, supply, t, l, o)
        PROVE  Kept
    <3>1. MarketTyped(coll, supply, t, l, o)
      BY <2>2, <2>6 DEF MarketTyped
    <3> QED
      BY <2>4, <2>6, <3>1
  <2>7. ASSUME \/ NFT!LoadRows \/ \E status \in {"active", "paused"} : NFT!UpdateCollection(status)
               \/ \E r : NFT!SetFeeBps(r) \/ \E s : NFT!DeleteCollection(s)
        PROVE  Kept
    <3>1. \E c \in {coll, "active", "paused", "gone"} : MarketWrites(c, supply, token, listing, offer)
      BY <2>1, <2>2, <2>7 DEF NFT!LoadRows, NFT!UpdateCollection, NFT!SetFeeBps,
         NFT!DeleteCollection, MarketWrites, NFTFields
    <3> QED
      BY <2>5, <3>1
  <2>8. ASSUME NFT!Expire PROVE Kept
    <3>1. ASSUME NEW x, db' = [db EXCEPT !.listing[x].late = TRUE] PROVE Kept
      <4>1. PICK l : l = [listing EXCEPT ![x].late = TRUE]
        OBVIOUS
      <4>2. MarketWrites(coll, supply, token, l, offer)
        BY <2>1, <2>2, <3>1, <4>1 DEF MarketWrites, NFTFields
      <4> QED
        BY <2>3, <2>6, <4>1, <4>2, StatusKept
    <3>2. ASSUME NEW x, db' = [db EXCEPT !.offer[x].late = TRUE] PROVE Kept
      <4>1. PICK o : o = [offer EXCEPT ![x].late = TRUE]
        OBVIOUS
      <4>2. MarketWrites(coll, supply, token, listing, o)
        BY <2>1, <2>2, <3>2, <4>1 DEF MarketWrites, NFTFields
      <4> QED
        BY <2>3, <2>6, <4>1, <4>2, StatusKept
    <3>3. (\E x : db' = [db EXCEPT !.listing[x].late = TRUE]) \/ \E x : db' = [db EXCEPT !.offer[x].late = TRUE]
      BY <2>8 DEF NFT!Expire
    <3>4. CASE \E x : db' = [db EXCEPT !.listing[x].late = TRUE]
      BY <3>1, <3>4
    <3>5. CASE \E x : db' = [db EXCEPT !.offer[x].late = TRUE]
      BY <3>2, <3>5
    <3> QED
      BY <3>3, <3>4, <3>5
  <2>9. ASSUME NEW u, NFT!Mint(u, 1) PROVE Kept
    <3>1. PICK t, n, row : row = [owner |-> u, escrow |-> "nothing"] /\ t = NFT!Put(token, 1, row)
                           /\ n = NFT!Max({supply, 1})
      OBVIOUS
    <3>2. MarketWrites(coll, n, t, listing, offer)
      BY <2>1, <2>2, <2>9, <3>1 DEF NFT!Mint, NFT!Nothing, MarketWrites, NFTFields
    <3>3. n \in Nat /\ n >= 1 /\ n >= supply
      BY <2>2, <3>1 DEF NFT!Max, MarketTyped
    <3>4. DOMAIN t = DOMAIN token \cup {1}
      BY <3>1 DEF NFT!Put
    <3>5. MarketTyped(coll, n, t, listing, offer)
      BY <2>2, <3>3, <3>4 DEF MarketTyped
    <3> QED
      BY <2>4, <3>2, <3>5
  <2>10. ASSUME NEW u, NEW s, NEW x, NEW id, NEW price, NFT!ListNFT(u, s, x, id, price) PROVE Kept
    <3>1. PICK row, t, l :
            /\ row = [token |-> id, seller |-> u, price |-> price, rate |-> db.rate,
                      late |-> FALSE, status |-> "active"]
            /\ t = [token EXCEPT ![id] = [owner |-> "escrow", escrow |-> x]]
            /\ l = NFT!Put(listing, x, row)
      OBVIOUS
    <3>2. MarketWrites(coll, supply, t, l, offer)
      BY <2>1, <2>2, <2>10, <3>1 DEF NFT!ListNFT, NFT!Escrow, MarketWrites, NFTFields
    <3>3. Statused(l) /\ DOMAIN t = DOMAIN token
      BY <2>3, <3>1, StatusKept DEF NFT!Statuses
    <3> QED
      BY <2>3, <2>6, <3>2, <3>3
  <2>11. ASSUME NEW x, NFT!CancelListing(x) \/ \E u : NFT!BuyNFT(u, x) PROVE Kept
    <3>1. ASSUME NEW id, NEW row, NEW v \in NFT!Statuses,
                 MarketWrites(coll, supply, [token EXCEPT ![id] = row],
                              [listing EXCEPT ![x].status = v], offer)
          PROVE  Kept
      <4>1. PICK t, l : t = [token EXCEPT ![id] = row] /\ l = [listing EXCEPT ![x].status = v]
        OBVIOUS
      <4>2. DOMAIN t = DOMAIN token /\ Statused(l)
        BY <2>3, <4>1, StatusKept
      <4> QED
        BY <2>3, <2>6, <3>1, <4>1, <4>2
    <3>2. CASE NFT!CancelListing(x)
      <4>1. PICK id, row : /\ id = listing[x].token
                           /\ row = [owner |-> listing[x].seller, escrow |-> "nothing"]
        OBVIOUS
      <4>2. MarketWrites(coll, supply, [token EXCEPT ![id] = row],
                         [listing EXCEPT ![x].status = "canceled"], offer)
        BY <2>1, <2>2, <3>2, <4>1 DEF NFT!CancelListing, NFT!Nothing, MarketWrites, NFTFields
      <4>3. "canceled" \in NFT!Statuses
        BY DEF NFT!Statuses
      <4> QED
        BY <3>1, <4>2, <4>3
    <3>3. ASSUME NEW u, NFT!BuyNFT(u, x) PROVE Kept
      <4>1. PICK id, row : id = listing[x].token /\ row = [owner |-> u, escrow |-> "nothing"]
        OBVIOUS
      <4>2. MarketWrites(coll, supply, [token EXCEPT ![id] = row],
                         [listing EXCEPT ![x].status = "sold"], offer)
        BY <2>1, <2>2, <3>3, <4>1 DEF NFT!BuyNFT, NFT!Nothing, MarketWrites, NFTFields
      <4>3. "sold" \in NFT!Statuses
        BY DEF NFT!Statuses
      <4> QED
        BY <3>1, <4>2, <4>3
    <3> QED
      BY <2>11, <3>2, <3>3
  <2>12. ASSUME NEW s, NEW x, NEW price, NFT!UpdateListingPrice(s, x, price) PROVE Kept
    <3>1. PICK l : l = [[listing EXCEPT ![x].price = price] EXCEPT ![x].late = FALSE]
      OBVIOUS
    <3>2. MarketWrites(coll, supply, token, l, offer)
      BY <2>1, <2>2, <2>12, <3>1 DEF NFT!UpdateListingPrice, MarketWrites, NFTFields
    <3> QED
      BY <2>3, <2>6, <3>1, <3>2, StatusKept
  <2>13. ASSUME NEW u, NEW s, NEW x, NEW id, NEW price, NFT!MakeOffer(u, s, x, id, price) PROVE Kept
    <3>1. PICK row, o :
            /\ row = [token |-> id, buyer |-> u, price |-> price, rate |-> db.rate,
                      late |-> FALSE, status |-> "active"]
            /\ o = NFT!Put(offer, x, row)
      OBVIOUS
    <3>2. MarketWrites(coll, supply, token, listing, o)
      BY <2>1, <2>2, <2>13, <3>1 DEF NFT!MakeOffer, MarketWrites, NFTFields
    <3>3. Statused(o)
      BY <2>3, <3>1, StatusKept DEF NFT!Statuses
    <3> QED
      BY <2>3, <2>6, <3>2, <3>3
  <2>14. ASSUME NEW x, NFT!CancelOffer(x) \/ \E u : NFT!AcceptOffer(u, x) PROVE Kept
    <3>1. ASSUME NEW t, DOMAIN t = DOMAIN token, NEW v \in NFT!Statuses,
                 MarketWrites(coll, supply, t, listing, [offer EXCEPT ![x].status = v])
          PROVE  Kept
      <4>1. PICK o : o = [offer EXCEPT ![x].status = v]
        OBVIOUS
      <4>2. Statused(o)
        BY <2>3, <4>1, StatusKept
      <4> QED
        BY <2>3, <2>6, <3>1, <4>1, <4>2
    <3>2. CASE NFT!CancelOffer(x)
      <4>1. MarketWrites(coll, supply, token, listing, [offer EXCEPT ![x].status = "canceled"])
        BY <2>1, <2>2, <3>2 DEF NFT!CancelOffer, MarketWrites, NFTFields
      <4>2. "canceled" \in NFT!Statuses
        BY DEF NFT!Statuses
      <4> QED
        BY <3>1, <4>1, <4>2
    <3>3. ASSUME NEW u, NFT!AcceptOffer(u, x) PROVE Kept
      <4>1. PICK t : t = [token EXCEPT ![offer[x].token].owner = offer[x].buyer]
        OBVIOUS
      <4>2. MarketWrites(coll, supply, t, listing, [offer EXCEPT ![x].status = "sold"])
        BY <2>1, <2>2, <3>3, <4>1 DEF NFT!AcceptOffer, MarketWrites, NFTFields
      <4>3. DOMAIN t = DOMAIN token /\ "sold" \in NFT!Statuses
        BY <4>1 DEF NFT!Statuses
      <4> QED
        BY <3>1, <4>2, <4>3
    <3> QED
      BY <2>14, <3>2, <3>3
  <2> QED
    BY <1>2, <2>7, <2>8, <2>9, <2>10, <2>11, <2>12, <2>13, <2>14 DEF NFT!Next, Kept
<1> QED
  BY <1>1, <1>2

TypesIInv ==
    /\ service \in Services
    /\ (service = "options" => PoolSound)
    /\ (service = "nft" => NFTSound /\ PaymentsSound /\ NFTTyped)
    /\ (service = "airdrop" => EscrowSound)
    /\ (service = "margin" => AccountSound)
    /\ (service = "block" => BlockSound)
    /\ (service = "launchpad" => SaleSound)
    /\ (service = "copy" => CopySound /\ FollowSound /\ CopiesTyped)
    /\ (service = "bridge" => BridgeSound)
    /\ (service = "listings" => ListingsSound)
    /\ (service = "integrations" => IntegrationsSound(db) /\ RegistryTyped(db))
    /\ (service = "sessions" => LogoutsSound /\ PhasesTyped)
    /\ (service = "hub" => HubSound /\ HubTyped)
    /\ (service = "admin" => AdminSound /\ RowsTyped)
    /\ (service = "keeper" => KeeperSound /\ WorkTyped)
    /\ (service = "bots" => BotsSound)
    /\ (service = "fees" => FeesSound)

LEMMA TypesAtFirst == Init => TypesIInv
<1> SUFFICES ASSUME Init PROVE TypesIInv
  OBVIOUS
<1>1. /\ service \in Services
      /\ (service = "options" => Options!Init) /\ (service = "nft" => NFT!Init)
      /\ (service = "airdrop" => Airdrop!Init) /\ (service = "margin" => Margin!Init)
      /\ (service = "block" => Block!Init) /\ (service = "launchpad" => Launchpad!Init)
      /\ (service = "copy" => Copy!Init) /\ (service = "bridge" => Bridge!Init)
      /\ (service = "listings" => Listings!Init) /\ (service = "integrations" => Integrations!Init)
      /\ (service = "sessions" => Sessions!Init) /\ (service = "hub" => Hub!Init)
      /\ (service = "admin" => Admin!Init) /\ (service = "keeper" => Keeper!Init)
      /\ (service = "bots" => Bots!Init) /\ (service = "fees" => Fees!Init)
  BY DEF Init, Services
<1> QED
  BY <1>1, PoolInit, NFTInit, PaymentsInit, RowsOfMarket, EscrowInit, AccountInit, BlockInit,
     SaleInit, CopyInit, FollowInit, StatusOfCopies, BridgeInit, ListingsInit, IntegrationsInit,
     KeysOfRegistry, LogoutsInit, PhaseOfTokens, HubInit, HubRoom, AdminInit, StatusOfRows,
     KeeperInit, WorkOfKeeper, BotsInit, FeesStart DEF TypesIInv

LEMMA TypesAfter == TypesIInv /\ Next => TypesIInv'
<1> SUFFICES ASSUME TypesIInv, Next PROVE TypesIInv'
  OBVIOUS
<1>1. /\ service' = service
      /\ (service = "options" => Options!Next) /\ (service = "nft" => NFT!Next)
      /\ (service = "airdrop" => Airdrop!Next) /\ (service = "margin" => Margin!Next)
      /\ (service = "block" => Block!Next) /\ (service = "launchpad" => Launchpad!Next)
      /\ (service = "copy" => Copy!Next) /\ (service = "bridge" => Bridge!Next)
      /\ (service = "listings" => Listings!Next) /\ (service = "integrations" => Integrations!Next)
      /\ (service = "sessions" => Sessions!Next) /\ (service = "hub" => Hub!Next)
      /\ (service = "admin" => Admin!Next) /\ (service = "keeper" => Keeper!Next)
      /\ (service = "bots" => Bots!Next) /\ (service = "fees" => Fees!Next)
  BY DEF Next, Step
<1>2. /\ (service = "options" => PoolSound')
      /\ (service = "nft" => NFTSound' /\ PaymentsSound' /\ NFTTyped')
      /\ (service = "airdrop" => EscrowSound')
      /\ (service = "margin" => AccountSound')
      /\ (service = "block" => BlockSound')
      /\ (service = "launchpad" => SaleSound')
  BY <1>1, PoolStep, NFTStep, PaymentsStep, RowsOfMarket, EscrowStep, AccountStep, BlockStep,
     SaleStep DEF TypesIInv
<1>3. /\ (service = "copy" => CopySound' /\ FollowSound' /\ CopiesTyped')
      /\ (service = "bridge" => BridgeSound')
      /\ (service = "listings" => ListingsSound')
      /\ (service = "integrations" => IntegrationsSound(db)' /\ RegistryTyped(db)')
      /\ (service = "sessions" => LogoutsSound' /\ PhasesTyped')
  BY <1>1, CopyStep, FollowStep, StatusOfCopies, BridgeStep, ListingsStep, IntegrationsStep,
     KeysOfRegistry, LogoutsStep, PhaseOfTokens DEF TypesIInv
<1>4. /\ (service = "hub" => HubSound' /\ HubTyped')
      /\ (service = "admin" => AdminSound' /\ RowsTyped')
      /\ (service = "keeper" => KeeperSound' /\ WorkTyped')
      /\ (service = "bots" => BotsSound')
      /\ (service = "fees" => FeesSound')
  BY <1>1, HubStep, HubRoom, AdminStep, StatusOfRows, KeeperStep, WorkOfKeeper, BotsStep,
     FeesStep DEF TypesIInv
<1> QED
  BY <1>1, <1>2, <1>3, <1>4 DEF TypesIInv

LEMMA TypesHold == TypesIInv => TypeOK
<1> SUFFICES ASSUME TypesIInv PROVE TypeOK
  OBVIOUS
<1>1. ASSUME service = "nft" PROVE NFT!TypeOK
  <2>1. NFTSound /\ PaymentsSound /\ NFTTyped
    BY <1>1 DEF TypesIInv
  <2>2. \A id \in DOMAIN db.token : db.token[id].owner \in Users \cup {"escrow"}
    BY <2>1 DEF NFTSound, TokensSound, TokenRow
  <2>3. \A a \in DOMAIN db.bal : db.bal[a] \in Nat
    BY <2>1 DEF PaymentsSound, PaymentsRight
  <2> QED
    BY <2>1, <2>2, <2>3 DEF NFTTyped, MarketTyped, Statused, NFT!TypeOK, NFT!Escrow
<1>2. ASSUME service = "block" PROVE Block!TypeOK
  BY <1>2 DEF TypesIInv, BlockSound, OtcSound, TwammSound, Block!TypeOK, Block!OtcStatuses, Block!None
<1>3. ASSUME service = "launchpad" PROVE Launchpad!TypeOK
  <2>1. SaleSound
    BY <1>3 DEF TypesIInv
  <2>2. db.participants \in Nat
    BY <2>1 DEF SaleSound, Allocated
  <2> QED
    BY <2>1, <2>2 DEF SaleSound, Raising, Launchpad!TypeOK, Launchpad!Statuses
<1>4. ASSUME service = "copy" PROVE Copy!TypeOK
  BY <1>4 DEF TypesIInv, FollowSound, Follows, CopiesTyped, Copy!TypeOK, Copy!Registered, Copy!None
<1>5. ASSUME service = "bridge" PROVE Bridge!TypeOK
  BY <1>5 DEF TypesIInv, BridgeSound, BridgeRow, Bridge!TypeOK
<1>6. ASSUME service = "listings" PROVE Listings!TypeOK
  BY <1>6 DEF TypesIInv, ListingsSound, ListingsRow, MainRow, Listings!TypeOK, Listings!NoRow,
     Listings!None
<1>7. ASSUME service = "integrations" PROVE Integrations!TypeOK
  BY <1>7 DEF TypesIInv, RegistryTyped, Integrations!TypeOK
<1>8. ASSUME service = "sessions" PROVE Sessions!TypeOK
  BY <1>8 DEF TypesIInv, PhasesTyped, Sessions!TypeOK
<1>9. ASSUME service = "hub" PROVE Hub!TypeOK
  BY <1>9 DEF TypesIInv, HubSound, HubRow, HubTyped, Hub!TypeOK
<1>10. ASSUME service = "admin" PROVE Admin!TypeOK
  BY <1>10 DEF TypesIInv, RowsTyped, Admin!TypeOK
<1>11. ASSUME service = "keeper" PROVE Keeper!TypeOK
  BY <1>11 DEF TypesIInv, WorkTyped
<1>12. ASSUME service = "bots" PROVE Bots!TypeOK
  BY <1>12 DEF TypesIInv, BotsSound, Bots!TypeOK, Bots!Statuses
<1>13. /\ service = "options" => Options!TypeOK
       /\ service = "airdrop" => Airdrop!TypeOK
       /\ service = "margin" => Margin!TypeOK
       /\ service = "fees" => Fees!TypeOK
  BY PoolIsHeld, EscrowPays, AccountBooks, RevenueAgrees DEF TypesIInv
<1>14. service \in Services
  BY DEF TypesIInv
<1> QED
  BY <1>1, <1>2, <1>3, <1>4, <1>5, <1>6, <1>7, <1>8, <1>9, <1>10, <1>11, <1>12, <1>13, <1>14
     DEF TypeOK

(* The rows, maps and counters of every service keep their types, for any    *)
(* number of users, rows, requests, connections and chains; each type rests  *)
(* on the invariant of its service.                                          *)
THEOREM PlatformTypeOK == Spec => []TypeOK
<1>1. ASSUME UNCHANGED <<service, db>>, TypesIInv PROVE TypesIInv'
  <2>1. /\ (PoolSound => PoolSound') /\ (EscrowSound => EscrowSound')
        /\ (AccountSound => AccountSound') /\ (FeesSound => FeesSound')
    BY <1>1 DEF PoolSound, EscrowSound, AccountSound, FeesSound
  <2>2. /\ (NFTSound => NFTSound') /\ (PaymentsSound => PaymentsSound') /\ (NFTTyped => NFTTyped')
        /\ (BlockSound => BlockSound') /\ (SaleSound => SaleSound')
    BY <1>1 DEF NFTSound, PaymentsSound, NFTTyped, BlockSound, SaleSound
  <2>3. /\ (CopySound => CopySound') /\ (FollowSound => FollowSound')
        /\ (CopiesTyped => CopiesTyped') /\ (BridgeSound => BridgeSound')
    BY <1>1 DEF CopySound, FollowSound, CopiesTyped, BridgeSound
  <2>4. ListingsSound => ListingsSound'
    BY <1>1 DEF ListingsSound, ReadsAreRight, Reading, At, Tradable, Traded
  <2>5. IntegrationsSound(db) /\ RegistryTyped(db) => IntegrationsSound(db)' /\ RegistryTyped(db)'
    BY <1>1 DEF IntegrationsSound, RegistryTyped
  <2>6. /\ (LogoutsSound => LogoutsSound') /\ (PhasesTyped => PhasesTyped')
        /\ (HubSound => HubSound') /\ (HubTyped => HubTyped')
    BY <1>1 DEF LogoutsSound, PhasesTyped, HubSound, HubTyped
  <2>7. /\ (AdminSound => AdminSound') /\ (RowsTyped => RowsTyped')
        /\ (KeeperSound => KeeperSound') /\ (WorkTyped => WorkTyped')
    BY <1>1 DEF AdminSound, RowsTyped, KeeperSound, WorkTyped, Keeper!TypeOK
  <2>8. BotsSound => BotsSound'
    BY <1>1 DEF BotsSound, CountedJobs, Busy, Bots!ConfigReadable
  <2> QED
    BY <1>1, <2>1, <2>2, <2>3, <2>4, <2>5, <2>6, <2>7, <2>8 DEF TypesIInv
<1>2. TypesIInv /\ [Next]_<<service, db>> => TypesIInv'
  BY <1>1, TypesAfter
<1> QED
  BY <1>2, TypesAtFirst, TypesHold, PTL DEF Spec
====
