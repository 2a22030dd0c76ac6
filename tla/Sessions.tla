---- MODULE Sessions ----
(***************************************************************************)
(* Sign-in tokens of one user: AuthService in                              *)
(* src/backend/services/services.go and src/backend/services/revocation.go.*)
(* Several API processes share the table of revoked tokens; each reads it  *)
(* when it starts and keeps a copy in memory.                              *)
(***************************************************************************)
EXTENDS Integers

CONSTANTS
    Processes,
    Tokens      \* token identifiers (jti)

VARIABLE db     \* the user, the tokens, the table and the copies

Phases == {"none", "live", "expired"}

Init ==
    db = [user |-> "absent", token |-> [t \in Tokens |-> "none"],
          revoked |-> {},                               \* rows of the table
          copy |-> [p \in Processes |-> {}],
          logout |-> [p \in Processes |-> {}],          \* requests between row and copy
          answered |-> {},                              \* history: logouts answered
          refuses |-> [p \in Processes |-> {}]]         \* history: what p has heard of

(* ValidateToken and isRevoked *)
Valid(p, t) == db.token[t] = "live" /\ t \notin db.copy[p]

(* Register: the address and the name are unique, and the account is active. *)
Register(t) ==
    /\ db.user = "absent" /\ db.token[t] = "none"
    /\ db' = [db EXCEPT !.user = "active", !.token[t] = "live"]

(* Login does not look at is_active. *)
Login(t) ==
    /\ db.user # "absent" /\ db.token[t] = "none"
    /\ db' = [db EXCEPT !.token[t] = "live"]

(* RefreshToken: the old token stays valid. *)
RefreshToken(p, old, new) ==
    /\ Valid(p, old) /\ db.user = "active" /\ db.token[new] = "none"
    /\ db' = [db EXCEPT !.token[new] = "live"]

Expire(t) == db.token[t] = "live" /\ db' = [db EXCEPT !.token[t] = "expired"]

(* AdminService.UpdateUser, DeleteUser *)
SetActive(status) == db.user # "absent" /\ db' = [db EXCEPT !.user = status]

\* Mutant of Row: the table is not written.
RowForgotten(t) == db.revoked

Row(t) == db.revoked \cup {t}

(* Logout: revoke writes the row; a second row for the token fails. *)
Revoke(p, t) ==
    /\ Valid(p, t) /\ t \notin db.revoked /\ t \notin db.logout[p]
    /\ db' = [db EXCEPT !.revoked = Row(t), !.logout[p] = @ \cup {t}]

(* ... then the copy, and answers. *)
Answer(p, t) ==
    /\ t \in db.logout[p]
    /\ db' = [db EXCEPT !.copy[p] = @ \cup {t}, !.logout[p] = @ \ {t},
                        !.answered = @ \cup {t}, !.refuses[p] = @ \cup {t}]

(* isRevoked drops an entry that has outlived its token. *)
DropExpired(p, t) ==
    /\ t \in db.copy[p] /\ db.token[t] = "expired"
    /\ db' = [db EXCEPT !.copy[p] = @ \ {t}]

(* A process stops, with its requests, and NewAuthService loads the table,   *)
(* unless the read fails, which is logged.                                   *)
Restart(p, loaded) ==
    LET rows == {t \in db.revoked : db.token[t] # "expired"} IN
    db' = [db EXCEPT !.revoked = rows, !.copy[p] = IF loaded THEN rows ELSE {},
                     !.logout[p] = {}, !.refuses[p] = IF loaded THEN db.answered ELSE {}]

Next ==
    \/ \E t \in Tokens : Register(t) \/ Login(t) \/ Expire(t)
    \/ \E status \in {"active", "inactive"} : SetActive(status)
    \/ \E p \in Processes :
          \/ \E loaded \in BOOLEAN : Restart(p, loaded)
          \/ \E t \in Tokens :
                \/ Revoke(p, t) \/ Answer(p, t) \/ DropExpired(p, t)
                \/ \E new \in Tokens : RefreshToken(p, t, new)

----
TypeOK == \A t \in Tokens : db.token[t] \in Phases

(* "Revocations survive a restart": a token whose logout was answered is     *)
(* refused by the process that answered, and by every process that has read  *)
(* the table since, whatever was pruned or dropped on the way; and the table *)
(* forgets only what has expired.                                            *)
LogoutHolds ==
    /\ \A p \in Processes : \A t \in db.refuses[p] : ~Valid(p, t)
    /\ \A t \in db.answered : db.token[t] = "expired" \/ t \in db.revoked
====
