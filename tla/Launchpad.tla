---- MODULE Launchpad ----
(***************************************************************************)
(* Token sales: src/backend/services/launchpad.go.  One project, kept in   *)
(* memory under one mutex; db is that memory.  The service moves no funds: *)
(* it records what users bought and what they claimed.                     *)
(***************************************************************************)
EXTENDS Integers, Sequences, SequencesExt, Sums

CONSTANTS
    Users,
    Amounts,        \* positive
    HardCaps,       \* caps to choose from; 0 stands for a text that is no number
    MinPurchase, MaxPurchase,
    MaxAllocations  \* bound: participations in the project

VARIABLE db

Statuses == {"upcoming", "active", "completed", "cancelled"}
Phases == <<"before", "open", "ended">>     \* the time against StartTime and EndTime

Raised(s) == Sum([i \in DOMAIN s |-> s[i].amount], DOMAIN s)

(* CreateProject checks the order of the times and nothing else. *)
CreateProject(cap) ==
    [cap |-> cap, status |-> "upcoming", phase |-> 1, raised |-> 0, participants |-> 0,
     alloc |-> <<>>, reopened |-> FALSE]    \* reopened is history

Init == \E cap \in HardCaps : db = CreateProject(cap)

Tick == db.phase < 3 /\ db' = [db EXCEPT !.phase = @ + 1]

(* UpdateProjectStatus: any status after any other. *)
UpdateProjectStatus(status) ==
    db' = [db EXCEPT !.status = status,
                     !.reopened = @ \/ (status = "active" /\ db.raised >= db.cap)]

\* Mutant of StatusAfter: a raise that has met its cap stays open.
StatusUnchanged(raised) == db.status

(* The raise closes once the cap is met; a cap that is no number fails the   *)
(* request after the allocation is recorded.                                 *)
StatusAfter(raised) == IF db.cap > 0 /\ raised >= db.cap THEN "completed" ELSE db.status

Participate(u, x) ==
    LET raised == db.raised + x IN
    /\ db.status = "active" /\ Phases[db.phase] = "open"
    /\ MinPurchase <= x /\ x <= MaxPurchase
    /\ Len(db.alloc) < MaxAllocations
    /\ db' = [db EXCEPT !.alloc = Append(@, [user |-> u, amount |-> x, claimed |-> FALSE]),
                        !.raised = raised, !.participants = @ + 1,
                        !.status = StatusAfter(raised)]

FirstOf(u) == SelectInSeq(db.alloc, LAMBDA a : a.user = u)

(* ClaimTokens looks at the caller's first allocation, at EndTime, and not   *)
(* at the status.                                                            *)
ClaimTokens(u) ==
    /\ FirstOf(u) # 0 /\ ~db.alloc[FirstOf(u)].claimed
    /\ Phases[db.phase] = "ended"
    /\ db' = [db EXCEPT !.alloc[FirstOf(u)].claimed = TRUE]

Next ==
    \/ Tick
    \/ \E status \in Statuses : UpdateProjectStatus(status)
    \/ \E u \in Users : ClaimTokens(u) \/ \E x \in Amounts : Participate(u, x)

----
TypeOK == db.status \in Statuses /\ db.phase \in 1..3 /\ db.participants \in Nat

(* What the project says it raised is what its allocations say, also after   *)
(* requests that failed half-way; a raise nobody reopened ends less than one *)
(* purchase above its cap; and a user claims at most once, after the end.    *)
SaleFair ==
    /\ db.raised = Raised(db.alloc) /\ db.participants = Len(db.alloc)
    /\ db.cap > 0 /\ ~db.reopened => db.raised < db.cap + MaxPurchase
    /\ \A i \in DOMAIN db.alloc : db.alloc[i].claimed =>
          /\ Phases[db.phase] = "ended"
          /\ \A j \in 1..i-1 : db.alloc[j].user # db.alloc[i].user
====
