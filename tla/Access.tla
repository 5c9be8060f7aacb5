------------------------------- MODULE Access -------------------------------
(***************************************************************************)
(* Users, their sessions and the API keys: AuthService, ApiKeyService and  *)
(* the routers users, auth and api_keys (services/auth_service.py,         *)
(* services/api_key_service.py, adapters/input/http).                      *)
(*                                                                         *)
(* Requests are handled concurrently; a step ends where a handler awaits   *)
(* the database. Reads take no snapshot, and save() reads the row again    *)
(* before it writes. Hashes and tokens are drawn from one counter: no two  *)
(* are alike. Row ids are reused (no AUTOINCREMENT). Accounts are never    *)
(* deactivated by the code, and expiry may come at any time.               *)
(***************************************************************************)
EXTENDS Orm, Naturals, FiniteSetsExt

CONSTANTS
    MaxUsers,    \* bound: the highest user id
    MaxKeys,     \* bound: the highest API key id
    MaxSecrets   \* bound: password hashes, session tokens and keys ever made

UserId == 1..MaxUsers
KeyId == 1..MaxKeys
Secret == 1..MaxSecrets
Role == {"admin", "operator", "viewer"}

UserRow == [hash : Secret, role : Role, must_change : BOOLEAN]
KeyRow == [hash : Secret, owner : UserId, revoked : BOOLEAN]

(* hash, late: history, the password hash the login verified and whether   *)
(* the user's credentials changed between that and the commit of the row.  *)
SessionRow == [token : Secret, user : UserId, hash : Secret, late : BOOLEAN]

(* An operation under way. actor: the user its session belongs to; target: *)
(* the row it is about; entity: that row as read and changed; base: the    *)
(* row save() has read again.                                              *)
Operation ==
    [kind : {"login", "password", "reset", "create_user", "delete_user",
             "create_key", "revoke", "resolve"},
     step : {"user", "read", "save", "commit"},
     actor : UserId \cup {None},
     target : UserId \cup KeyId \cup {None},
     entity : UserRow \cup KeyRow \cup {None},
     base : UserRow \cup KeyRow \cup {None},
     late : BOOLEAN]

ASSUME ConstantsAssumption ==
    /\ MaxUsers \in Nat /\ MaxKeys \in Nat /\ MaxSecrets \in Nat
    /\ None \notin UserId \cup KeyId
    /\ None \notin UserRow \cup KeyRow \cup Operation

VARIABLES
    users,     \* committed row of each user id
    sessions,  \* committed session rows
    keys,      \* committed row of each API key id
    op,        \* operation each request is in
    secrets,   \* secrets drawn so far
    process    \* boot or up

vars == <<users, sessions, keys, op, secrets, process>>

-----------------------------------------------------------------------------
(* Types and initial state *)

UserKinds == {"password", "reset"}
KeyKinds == {"revoke", "resolve"}
SessionKinds == {"password", "reset", "create_user", "delete_user",
                 "create_key", "revoke"}

(* What an operation has, by its kind and step. *)
WellFormed(o) ==
    /\ o.kind \in SessionKinds => o.actor \in UserId
    /\ o.step = "user" => o.kind \in SessionKinds
    /\ o.step \in {"read", "save"} => o.kind \in UserKinds \cup KeyKinds
    /\ o.kind \in UserKinds \cup {"login", "delete_user"} /\ o.step # "user" =>
         o.target \in UserId
    /\ o.kind \in KeyKinds /\ o.step # "user" => o.target \in KeyId
    /\ o.kind = "login" => o.entity \in UserRow
    /\ o.step \in {"save", "commit"} =>
         /\ o.kind \in UserKinds => o.entity \in UserRow
         /\ o.kind \in KeyKinds => o.entity \in KeyRow
    /\ o.step = "commit" =>
         /\ o.kind \in UserKinds => o.base \in UserRow
         /\ o.kind \in KeyKinds => o.base \in KeyRow

TypeOK ==
    /\ users \in [UserId -> UserRow \cup {None}]
    /\ sessions \in SUBSET SessionRow
    /\ keys \in [KeyId -> KeyRow \cup {None}]
    /\ op \in [Request -> {o \in Operation : WellFormed(o)} \cup {None}]
    /\ secrets \in 0..MaxSecrets
    /\ process \in {"boot", "up"}

Init ==
    /\ users = [u \in UserId |-> None]
    /\ sessions = {}
    /\ keys = [k \in KeyId |-> None]
    /\ op = [q \in Request |-> None]
    /\ secrets = 0
    /\ process = "boot"

Users == {u \in UserId : users[u] # None}
Keys == {k \in KeyId : keys[k] # None}

(* SQLite's rowid without AUTOINCREMENT: one more than the highest. *)
NextUser == 1 + Max(Users \cup {0})
NextKey == 1 + Max(Keys \cup {0})

(* A new password hash, session token or key. *)
Fresh == secrets + 1
Draw == Fresh \in Secret /\ secrets' = Fresh

-----------------------------------------------------------------------------
(* Requests *)

Operate(q, kind, step, actor, target, entity, base) ==
    op' = [op EXCEPT ![q] =
             [kind |-> kind, step |-> step, actor |-> actor, target |-> target,
              entity |-> entity, base |-> base, late |-> FALSE]]

Return(q) == op' = [op EXCEPT ![q] = None]

At(q, kinds, step) == op[q] # None /\ op[q].kind \in kinds /\ op[q].step = step

(* The rows save() inserts. *)
NewSession(u, hash, late) ==
    [token |-> Fresh, user |-> u, hash |-> hash, late |-> late]

NewUser(role, must_change) ==
    [hash |-> Fresh, role |-> role, must_change |-> must_change]

NewKey(owner) == [hash |-> Fresh, owner |-> owner, revoked |-> FALSE]

(* AuthService.login has found the user and verified the password. *)
Login(q) ==
    /\ process = "up" /\ op[q] = None
    /\ \E u \in Users : Operate(q, "login", "commit", None, u, users[u], None)
    /\ UNCHANGED <<users, sessions, keys, secrets, process>>

(* The session is inserted; the foreign key refuses one of an absent user. *)
CommitLogin(q) ==
    /\ At(q, {"login"}, "commit")
    /\ IF op[q].target \in Users
       THEN /\ Draw
            /\ sessions' = sessions \cup
                 {NewSession(op[q].target, op[q].entity.hash, op[q].late)}
       ELSE UNCHANGED <<sessions, secrets>>
    /\ Return(q)
    /\ UNCHANGED <<users, keys, process>>

(* AuthService.logout, or resolve_session that finds the session expired. *)
EndSession ==
    /\ process = "up"
    /\ \E s \in sessions : sessions' = sessions \ {s}
    /\ UNCHANGED <<users, keys, op, secrets, process>>

(* resolve_session has read the session of the cookie. *)
Authenticate(q) ==
    /\ process = "up" /\ op[q] = None
    /\ \E s \in sessions, kind \in SessionKinds :
         Operate(q, kind, "user", s.user, None, None, None)
    /\ UNCHANGED <<users, sessions, keys, secrets, process>>

(* rbac.has_at_least(user, "admin"): no role ranks above it. *)
Administers(user) == user.role = "admin"

(* Mutant: a user who must change the password is not held back. *)
Permitted_unconfined(kind, user) == kind = "password" \/ Administers(user)

(* get_current_identity confines a user who must change the password to    *)
(* doing so; require_session_admin guards users and keys.                  *)
Permitted(kind, user) ==
    \/ kind = "password"
    \/ Administers(user) /\ ~user.must_change

(* resolve_session reads the user, who may be gone by then, or another     *)
(* under the same id; the dependencies check; the handler is entered.      *)
Authorize(q) ==
    /\ At(q, SessionKinds, "user")
    /\ LET u == op[q].actor
           kind == op[q].kind IN
         IF u \notin Users \/ ~Permitted(kind, users[u]) THEN Return(q)
         ELSE CASE kind = "password" -> Operate(q, kind, "read", u, u, None, None)
                [] kind = "reset" -> \E v \in UserId :
                     Operate(q, kind, "read", u, v, None, None)
                [] kind = "revoke" -> \E k \in KeyId :
                     Operate(q, kind, "read", u, k, None, None)
                [] kind = "delete_user" -> \E v \in UserId :
                     Operate(q, kind, "commit", u, v, None, None)
                [] OTHER -> Operate(q, kind, "commit", u, None, None, None)
    /\ UNCHANGED <<users, sessions, keys, secrets, process>>

(* change_password (the current password verified) or reset_password reads *)
(* the user and sets the new hash on its copy.                             *)
ReadUser(q) ==
    /\ At(q, UserKinds, "read")
    /\ LET o == op[q] IN
         IF o.target \notin Users THEN Return(q) /\ secrets' = secrets
         ELSE /\ Draw
              /\ Operate(q, o.kind, "save", o.actor, o.target,
                         [users[o.target] EXCEPT !.hash = Fresh,
                                                 !.must_change = FALSE], None)
    /\ UNCHANGED <<users, sessions, keys, process>>

(* ApiKeyService.revoke reads the key; one revoked already needs nothing. *)
ReadKey(q) ==
    /\ At(q, {"revoke"}, "read")
    /\ LET o == op[q] IN
         IF o.target \notin Keys \/ keys[o.target].revoked THEN Return(q)
         ELSE Operate(q, o.kind, "save", o.actor, o.target,
                      [keys[o.target] EXCEPT !.revoked = TRUE], None)
    /\ UNCHANGED <<users, sessions, keys, secrets, process>>

(* ApiKeyService.resolve has found the key of a Bearer token, unrevoked.   *)
(* A key's identity may not touch users or keys: its request ends here.    *)
Resolve(q) ==
    /\ process = "up" /\ op[q] = None
    /\ \E k \in Keys : /\ ~keys[k].revoked
                       /\ Operate(q, "resolve", "save", None, k, keys[k], None)
    /\ UNCHANGED <<users, sessions, keys, secrets, process>>

(* Mutant: save() does not look whether the row is still there. *)
Save_unchecked(q) ==
    /\ At(q, UserKinds \cup KeyKinds, "save")
    /\ LET o == op[q]
           row == IF o.kind \in UserKinds THEN users[o.target]
                  ELSE keys[o.target] IN
         Operate(q, o.kind, "commit", o.actor, o.target, o.entity, row)
    /\ UNCHANGED <<users, sessions, keys, secrets, process>>

(* save() reads the row again and raises if it is gone. *)
Save(q) ==
    /\ At(q, UserKinds \cup KeyKinds, "save")
    /\ LET o == op[q]
           row == IF o.kind \in UserKinds THEN users[o.target]
                  ELSE keys[o.target] IN
         IF row = None THEN Return(q)
         ELSE Operate(q, o.kind, "commit", o.actor, o.target, o.entity, row)
    /\ UNCHANGED <<users, sessions, keys, secrets, process>>

WrittenUser(current, base, entity) ==
    [hash |-> Column(current.hash, base.hash, entity.hash),
     role |-> Column(current.role, base.role, entity.role),
     must_change |-> Column(current.must_change, base.must_change,
                            entity.must_change)]

(* Mutant: every column is written. *)
WrittenKey_all(current, base, entity) == entity

WrittenKey(current, base, entity) ==
    [hash |-> Column(current.hash, base.hash, entity.hash),
     owner |-> Column(current.owner, base.owner, entity.owner),
     revoked |-> Column(current.revoked, base.revoked, entity.revoked)]

(* Mutant: the sessions stay. *)
Forget_none(u) == sessions

(* delete_by_user, or the foreign key's cascade. *)
Forget(u) == {s \in sessions : s.user # u}

(* q ends; the logins past their check of u's password are now late.     *)
ReturnLate(q, u) ==
    op' = [p \in Request |->
             IF p = q THEN None
             ELSE IF At(p, {"login"}, "commit") /\ op[p].target = u
             THEN [kind |-> "login", step |-> "commit", actor |-> op[p].actor,
                   target |-> u, entity |-> op[p].entity,
                   base |-> op[p].base, late |-> TRUE]
             ELSE op[p]]

(* The new hash and the end of the user's sessions are one transaction. *)
CommitPassword(q) ==
    /\ At(q, UserKinds, "commit")
    /\ LET o == op[q]
           u == o.target IN
         IF u \notin Users THEN Return(q) /\ UNCHANGED <<users, sessions>>
         ELSE /\ users' = [users EXCEPT ![u] = WrittenUser(@, o.base, o.entity)]
              /\ sessions' = Forget(u)
              /\ ReturnLate(q, u)
    /\ UNCHANGED <<keys, secrets, process>>

(* routers/users.create_user: the username is free (checked, and unique). *)
CommitCreateUser(q) ==
    /\ At(q, {"create_user"}, "commit")
    /\ NextUser \in UserId /\ Draw
    /\ \E role \in Role :
         users' = [users EXCEPT ![NextUser] = NewUser(role, FALSE)]
    /\ Return(q)
    /\ UNCHANGED <<sessions, keys, process>>

(* Mutant: the keys of a deleted user stay. *)
Disowned_none(u) == keys

Disowned(u) ==
    [k \in KeyId |-> IF k \in Keys /\ keys[k].owner = u THEN None ELSE keys[k]]

(* routers/users.delete_user: sessions and keys go by cascade; an id that  *)
(* nobody has is a 404.                                                    *)
CommitDeleteUser(q) ==
    /\ At(q, {"delete_user"}, "commit")
    /\ LET u == op[q].target IN
         /\ users' = [users EXCEPT ![u] = None]
         /\ sessions' = Forget(u)
         /\ keys' = Disowned(u)
         /\ ReturnLate(q, u)
    /\ UNCHANGED <<secrets, process>>

CommitCreateKey(q) ==
    /\ At(q, {"create_key"}, "commit")
    /\ IF op[q].actor \in Users
       THEN /\ NextKey \in KeyId /\ Draw
            /\ keys' = [keys EXCEPT ![NextKey] = NewKey(op[q].actor)]
       ELSE UNCHANGED <<keys, secrets>>
    /\ Return(q)
    /\ UNCHANGED <<users, sessions, process>>

(* revoke and resolve: an UPDATE that meets no row raises, and so does one *)
(* whose owner is absent.                                                  *)
CommitKey(q) ==
    /\ At(q, KeyKinds, "commit")
    /\ LET o == op[q]
           written == WrittenKey(keys[o.target], o.base, o.entity) IN
         IF o.target \in Keys /\ written.owner \in Users
         THEN keys' = [keys EXCEPT ![o.target] = written]
         ELSE keys' = keys
    /\ Return(q)
    /\ UNCHANGED <<users, sessions, secrets, process>>

-----------------------------------------------------------------------------
(* Boot and death of the process *)

(* bootstrap_admin() at boot, where there are no users. *)
Boot ==
    /\ process = "boot" /\ process' = "up"
    /\ IF Users = {}
       THEN /\ Draw
            /\ users' = [users EXCEPT ![1] = NewUser("admin", TRUE)]
       ELSE UNCHANGED <<users, secrets>>
    /\ UNCHANGED <<sessions, keys, op>>

Restart ==
    /\ process = "up" /\ process' = "boot"
    /\ op' = [q \in Request |-> None]
    /\ UNCHANGED <<users, sessions, keys, secrets>>

-----------------------------------------------------------------------------
(* Specification *)

RequestStep(q) ==
    \/ Login(q) \/ CommitLogin(q) \/ Authenticate(q) \/ Authorize(q)
    \/ ReadUser(q) \/ ReadKey(q) \/ Resolve(q) \/ Save(q)
    \/ CommitPassword(q) \/ CommitCreateUser(q) \/ CommitDeleteUser(q)
    \/ CommitCreateKey(q) \/ CommitKey(q)

Next ==
    \/ \E q \in Request : RequestStep(q)
    \/ EndSession \/ Boot \/ Restart

Spec == Init /\ [][Next]_vars

-----------------------------------------------------------------------------
(* Properties *)

(* Sessions and keys belong to users who exist, whatever deletions and     *)
(* reuses of ids come between the check of a request and its commit        *)
(* (delete_user, the foreign keys of models/session.py and api_key.py).    *)
NoOrphans ==
    /\ \A s \in sessions : s.user \in Users
    /\ \A k \in Keys : keys[k].owner \in Users

(* No session outlives a credential change (change_password,               *)
(* reset_password), save one opened by a login that had verified the old   *)
(* password when the change was committed.                                 *)
StaleSessionsRaced ==
    \A s \in sessions :
        s.user \in Users => users[s.user].hash = s.hash \/ s.late

(* The bootstrap password opens nothing: while a user must change it there *)
(* is no other user and no key (get_current_identity, bootstrap_admin).    *)
BootstrapConfined ==
    \A u \in Users : users[u].must_change => Users = {u} /\ Keys = {}

Revived(k) ==
    /\ keys[k] # None /\ keys'[k] # None
    /\ keys[k].hash = keys'[k].hash /\ keys[k].revoked /\ ~keys'[k].revoked

(* A revocation is undone only by a resolve() that had read the key before *)
(* the revocation and whose save() read it after, so that the ORM takes    *)
(* the old `revoked_at` for a change (ApiKeyService.resolve).              *)
RevivedByResolve ==
    [][\A k \in KeyId : Revived(k) =>
         \E q \in Request : /\ At(q, {"resolve"}, "commit")
                            /\ op[q].target = k
                            /\ op[q].base.revoked]_vars

(* Revocation is immediate and lasts (docstring of ApiKeyService.resolve). *)
RevocationIsFinal == [][\A k \in KeyId : ~Revived(k)]_vars
=============================================================================
