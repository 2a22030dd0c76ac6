---- MODULE Integrations ----
(***************************************************************************)
(* Chains, tokens, bridges and farms added at run time:                    *)
(* src/backend/services/dynamic_integration.go.  Four maps and their       *)
(* statistics in memory under one mutex.  The chains and the token that    *)
(* are there from the start are among Chains and Tokens.                   *)
(***************************************************************************)
EXTENDS Integers, FiniteSets, FiniteSetsExt

CONSTANTS
    Chains, Tokens,
    FirstChain, FirstToken,     \* there from the start
    Bridges, Farms

VARIABLE db     \* the maps, which entries are active, and the statistics

Maps == {"chains", "tokens", "bridges", "farms"}
Count(f) == Cardinality(DOMAIN f)
ActiveIn(f) == Cardinality({k \in DOMAIN f : f[k].active})
With(f, k, entry) == [x \in DOMAIN f \cup {k} |-> IF x = k THEN entry ELSE f[x]]
Without(f, k) == [x \in DOMAIN f \ {k} |-> f[x]]

(* updateStats counts the maps anew. *)
updateStats(d) ==
    [d EXCEPT !.total = [m \in Maps |-> Count(d[m])], !.active = [m \in Maps |-> ActiveIn(d[m])]]

(* initializeDefaultChains; the default farms name tokens by address. *)
Init == db = updateStats(
    [chains |-> [c \in {FirstChain} |-> [active |-> TRUE]],
     tokens |-> [t \in {FirstToken} |-> [active |-> TRUE, uses |-> {FirstChain}]],
     bridges |-> <<>>, farms |-> <<>>, total |-> <<>>, active |-> <<>>,
     dropped |-> {}])    \* history: keys deleted

(* AddEVMChain, AddNonEVMChain *)
AddChain(c) ==
    /\ c \notin DOMAIN db.chains
    /\ db' = updateStats([db EXCEPT !.chains = With(@, c, [active |-> TRUE])])

AddToken(t, c) ==
    /\ c \in DOMAIN db.chains /\ t \notin DOMAIN db.tokens
    /\ db' = updateStats([db EXCEPT !.tokens = With(@, t, [active |-> TRUE, uses |-> {c}])])

\* Mutant of BothKnown: only the first of the two is looked up.
FirstKnown(keys, a, b) == a \in keys

BothKnown(keys, a, b) == {a, b} \subseteq keys

(* AddBridge replaces a bridge of the same key. *)
AddBridge(k, src, dst) ==
    /\ BothKnown(DOMAIN db.chains, src, dst)
    /\ db' = updateStats([db EXCEPT !.bridges = With(@, k, [active |-> TRUE, uses |-> {src, dst}])])

CreatePool(k, a, b) ==
    /\ BothKnown(DOMAIN db.tokens, a, b)
    /\ db' = updateStats([db EXCEPT !.farms = With(@, k, [active |-> TRUE, uses |-> {a, b}])])

(* CreateFarm takes its tokens unseen. *)
CreateFarm(k) == db' = updateStats([db EXCEPT !.farms = With(@, k, [active |-> TRUE, uses |-> {}])])

ActivateChain(c, on) ==
    c \in DOMAIN db.chains /\ db' = updateStats([db EXCEPT !.chains[c].active = on])

ActivateToken(t, on) ==
    t \in DOMAIN db.tokens /\ db' = updateStats([db EXCEPT !.tokens[t].active = on])

(* DeleteChain and DeleteToken leave what uses them. *)
DeleteChain(c) ==
    /\ c \in DOMAIN db.chains
    /\ db' = updateStats([db EXCEPT !.chains = Without(@, c), !.dropped = @ \cup {c}])

DeleteToken(t) ==
    /\ t \in DOMAIN db.tokens
    /\ db' = updateStats([db EXCEPT !.tokens = Without(@, t), !.dropped = @ \cup {t}])

Next ==
    \/ \E c \in Chains :
          \/ AddChain(c) \/ DeleteChain(c)
          \/ \E on \in BOOLEAN : ActivateChain(c, on)
          \/ \E t \in Tokens : AddToken(t, c)
          \/ \E k \in Bridges, dst \in Chains : AddBridge(k, c, dst)
    \/ \E t \in Tokens :
          \/ DeleteToken(t)
          \/ \E on \in BOOLEAN : ActivateToken(t, on)
          \/ \E k \in Farms, b \in Tokens : CreatePool(k, t, b)
    \/ \E k \in Farms : CreateFarm(k)

----
TypeOK ==
    /\ DOMAIN db.chains \subseteq Chains /\ DOMAIN db.tokens \subseteq Tokens
    /\ DOMAIN db.bridges \subseteq Bridges /\ DOMAIN db.farms \subseteq Farms

(* What an entry refers to is there, or was deleted at some time; and the    *)
(* statistics are those of the maps after every operation.                   *)
ReferencesKnown ==
    /\ \A t \in DOMAIN db.tokens : db.tokens[t].uses \subseteq DOMAIN db.chains \cup db.dropped
    /\ \A b \in DOMAIN db.bridges : db.bridges[b].uses \subseteq DOMAIN db.chains \cup db.dropped
    /\ \A f \in DOMAIN db.farms : db.farms[f].uses \subseteq DOMAIN db.tokens \cup db.dropped
    /\ \A m \in Maps : db.total[m] = Count(db[m]) /\ db.active[m] = ActiveIn(db[m])
====
