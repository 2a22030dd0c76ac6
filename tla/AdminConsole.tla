---- MODULE AdminConsole ----
(***************************************************************************)
(* The admin console: AdminService in src/backend/services/services.go.    *)
(* Users, chains, tokens and pools, and the row of platform switches,      *)
(* which a request loads, changes in memory and saves as a whole.          *)
(***************************************************************************)
EXTENDS Integers

CONSTANTS
    Items,      \* rows of the kind at hand
    Requests,   \* requests on the switches that are served at a time
    Switches,   \* switches of UpdateConfig
    Maintenance \* the switch of EnableMaintenance and DisableMaintenance

VARIABLE db

All == Switches \cup {Maintenance}
Defaults == [s \in All |-> s # Maintenance]

Kinds == {"user", "chain", "token", "pool"}

(* Items are rows of one kind, which have a key of their own each; users     *)
(* come from registration.                                                   *)
Init == \E kind \in Kinds :
    db = [kind |-> kind,
          item |-> [i \in Items |-> IF kind = "user" THEN "active" ELSE "absent"],
          settings |-> <<>>,
          request |-> [r \in Requests |-> <<>>],
          asked |-> Defaults,   \* history: what each switch was last set to
          stale |-> {}]         \* history: switches put back by a save of an older copy

(* Each handler's audit entry (logAdminAction) is left out. *)
CreateItem(i) ==
    /\ db.item[i] = "absent"
    /\ db' = [db EXCEPT !.item[i] = "active"]

CreateChain(i) == db.kind = "chain" /\ CreateItem(i)
CreateToken(i) == db.kind = "token" /\ CreateItem(i)
CreatePool(i) == db.kind = "pool" /\ CreateItem(i)

(* The columns named are written. *)
UpdateItem(i, status) ==
    /\ db.item[i] # "absent"
    /\ db' = [db EXCEPT !.item[i] = status]

UpdateUser(i, status) == db.kind = "user" /\ UpdateItem(i, status)
UpdateChain(i, status) == db.kind = "chain" /\ UpdateItem(i, status)
UpdateToken(i, status) == db.kind = "token" /\ UpdateItem(i, status)
UpdatePool(i, status) == db.kind = "pool" /\ UpdateItem(i, status)

\* Mutant of Deleted: the row is removed.
DeletedRow == "absent"

(* Deleting deactivates. *)
Deleted == "inactive"

DeleteItem(i) ==
    /\ db.item[i] # "absent"
    /\ db' = [db EXCEPT !.item[i] = Deleted]

DeleteUser(i) == db.kind = "user" /\ DeleteItem(i)
DeleteChain(i) == db.kind = "chain" /\ DeleteItem(i)
DeleteToken(i) == db.kind = "token" /\ DeleteItem(i)
DeletePool(i) == db.kind = "pool" /\ DeleteItem(i)

(* systemSettings: the row, created on first use. *)
LoadSettings(r, changes) ==
    LET row == IF db.settings = <<>> THEN Defaults ELSE db.settings IN
    /\ db.request[r] = <<>>
    /\ db' = [db EXCEPT !.settings = row, !.request[r] = [copy |-> row, changes |-> changes]]

\* Mutant of Changed: a switch the request does not name is set to false.
ChangedAll(copy, changes) ==
    [s \in All |-> s \in DOMAIN changes /\ changes[s]]

(* A row with what a request names, and the rest as it was. *)
Overlaid(row, changes) == [s \in All |-> IF s \in DOMAIN changes THEN changes[s] ELSE row[s]]

Changed(copy, changes) == Overlaid(copy, changes)

(* UpdateConfig, setMaintenance: the row is saved as a whole. *)
SaveSettings(r) ==
    LET q == db.request[r]
        older == {s \in All \ DOMAIN q.changes : q.copy[s] # db.settings[s]}
    IN
    /\ q # <<>>
    /\ db' = [db EXCEPT !.settings = Changed(q.copy, q.changes), !.request[r] = <<>>,
                        !.asked = Overlaid(@, q.changes),
                        !.stale = (@ \ DOMAIN q.changes) \cup older]

UpdateConfig(r, changes) == DOMAIN changes \subseteq Switches /\ LoadSettings(r, changes)
EnableMaintenance(r) == LoadSettings(r, [s \in {Maintenance} |-> TRUE])
DisableMaintenance(r) == LoadSettings(r, [s \in {Maintenance} |-> FALSE])

Next ==
    \/ \E i \in Items :
          \/ CreateChain(i) \/ CreateToken(i) \/ CreatePool(i)
          \/ DeleteUser(i) \/ DeleteChain(i) \/ DeleteToken(i) \/ DeletePool(i)
          \/ \E status \in {"active", "inactive"} :
                \/ UpdateUser(i, status) \/ UpdateChain(i, status)
                \/ UpdateToken(i, status) \/ UpdatePool(i, status)
    \/ \E r \in Requests :
          \/ EnableMaintenance(r) \/ DisableMaintenance(r) \/ SaveSettings(r)
          \/ \E S \in SUBSET Switches : \E changes \in [S -> BOOLEAN] : UpdateConfig(r, changes)

----
TypeOK == \A i \in Items : db.item[i] \in {"absent", "active", "inactive"}

(* A switch has the value it was last set to, whatever requests on other     *)
(* switches run, unless one of them saved a copy it had loaded before that.  *)
SwitchesKept ==
    db.settings # <<>> =>
        \A s \in All \ db.stale : db.settings[s] = db.asked[s]

(* "Records are retained for audit." *)
RowsRetained == \A i \in Items : db.item[i] # "absent" => db'.item[i] # "absent"
====
