------------------------------ MODULE EnvVars ------------------------------
(***************************************************************************)
(* Environment variables of one project, encrypted at rest, and the master *)
(* key (services/env_var_service.py, routers/env_vars.py,                  *)
(* adapters/output/security/encryption_service.py,                         *)
(* adapters/output/persistence/repositories/sqlite_env_var_repository.py). *)
(* A ciphertext is the value and the key it was encrypted with.            *)
(***************************************************************************)
EXTENDS Orm, Naturals, FiniteSets, FiniteSetsExt

CONSTANTS
    Runner,    \* runners of the project
    Key,       \* names of variables
    Value,     \* their values
    OwnKeys,   \* master keys an operator may put into the environment
    MaxVars,   \* bound: the highest id of a variable
    FileKeys   \* bound: master keys that Fernet.generate_key() may return

VarId == 1..MaxVars
MasterKey == OwnKeys \cup FileKeys
VarRow == [key : Key, scope : Runner \cup {None}, value : Value,
        under : MasterKey, source : {"file", "env"}]

(* Assumed of the constants, by the modules that give them values. *)
EnvVarsAssumption ==
    /\ MaxVars \in Nat /\ OwnKeys \cap FileKeys = {}
    /\ {"absent", "empty"} \cap FileKeys = {}
    /\ None \notin MasterKey \cup VarRow \cup Runner \cup [id : VarId, row : VarRow]

VARIABLES
    setting,    \* CRONDOK_MASTER_KEY
    key_file,   \* .master_key: absent, empty or the key in it
    service,    \* the key the process encrypts with
    boot,       \* where the process is
    rows,       \* committed variables
    rotation,   \* a rotation under way: the row as read and changed
    generated   \* master keys generated so far

envVars == <<setting, key_file, service, boot, rows, rotation, generated>>

-----------------------------------------------------------------------------

EnvVarsTypeOK ==
    /\ setting \in OwnKeys \cup {None}
    /\ key_file \in {"absent", "empty"} \cup FileKeys
    /\ service \in MasterKey \cup {None}
    /\ boot \in {"down", "create", "write", "up", "refused"}
    /\ boot = "up" => service # None
    /\ rows \in [VarId -> VarRow \cup {None}]
    /\ rotation \in [id : VarId, row : VarRow] \cup {None}
    /\ generated \subseteq FileKeys

EnvVarsInit ==
    /\ setting \in OwnKeys \cup {None}
    /\ key_file = "absent" /\ service = None /\ boot = "down"
    /\ rows = [i \in VarId |-> None]
    /\ rotation = None /\ generated = {}

Stored == {i \in VarId : rows[i] # None}
Source == IF setting = None THEN "file" ELSE "env"

-----------------------------------------------------------------------------
(* create_encryption_service() and the life of the process *)

(* The setting comes first and needs no file; an empty file is no key, and *)
(* the boot fails.                                                         *)
LoadKey ==
    /\ boot = "down"
    /\ CASE setting # None -> service' = setting /\ boot' = "up"
         [] setting = None /\ key_file = "absent" -> service' = None /\ boot' = "create"
         [] setting = None /\ key_file = "empty" -> service' = None /\ boot' = "refused"
         [] OTHER -> service' = key_file /\ boot' = "up"
    /\ UNCHANGED <<setting, key_file, rows, rotation, generated>>

(* os.open(O_CREAT | O_EXCL): the file is there, and empty. *)
CreateFile ==
    /\ boot = "create" /\ boot' = "write"
    /\ key_file' = "empty"
    /\ UNCHANGED <<setting, service, rows, rotation, generated>>

WriteFile ==
    /\ boot = "write" /\ boot' = "up"
    /\ \E k \in FileKeys \ generated :
         /\ generated' = generated \cup {k}
         /\ key_file' = k /\ service' = k
    /\ UNCHANGED <<setting, rows, rotation>>

(* The process ends, and the operator may change the setting. *)
Stop ==
    /\ boot # "down" /\ boot' = "down"
    /\ service' = None /\ rotation' = None
    /\ setting' \in OwnKeys \cup {None}
    /\ UNCHANGED <<key_file, rows, generated>>

-----------------------------------------------------------------------------
(* EnvVarService *)

Encrypted(key, scope, value) ==
    [key |-> key, scope |-> scope, value |-> value,
     under |-> service, source |-> Source]

(* Nothing forbids a second row of one name and scope. *)
CreateVar(key, scope, value) ==
    /\ boot = "up"
    /\ LET i == 1 + Max(Stored \cup {0}) IN
         /\ i \in VarId
         /\ rows' = [rows EXCEPT ![i] = Encrypted(key, scope, value)]
    /\ UNCHANGED <<setting, key_file, service, boot, rotation, generated>>

(* The row is gone by delete(), or by the cascade when its runner goes. *)
DeleteVar(i) ==
    /\ boot = "up" /\ i \in Stored
    /\ rows' = [rows EXCEPT ![i] = None]
    /\ UNCHANGED <<setting, key_file, service, boot, rotation, generated>>

(* rotate() has read the row, and encrypts the new value ... *)
RotateRead(i, value) ==
    /\ boot = "up" /\ rotation = None /\ i \in Stored
    /\ rotation' = [id |-> i,
                    row |-> Encrypted(rows[i].key, rows[i].scope, value)]
    /\ UNCHANGED <<setting, key_file, service, boot, rows, generated>>

(* ... and save() writes all of it to the row of that id, if there is one. *)
RotateSave ==
    /\ rotation # None /\ rotation' = None
    /\ rows' = IF rotation.id \in Stored
               THEN [rows EXCEPT ![rotation.id] = rotation.row] ELSE rows
    /\ UNCHANGED <<setting, key_file, service, boot, generated>>

(* resolve_for_runner(): the rows in scope, decrypted. *)
InScope(r) == {i \in Stored : rows[i].scope \in {r, None}}
Undecryptable(r) == {i \in InScope(r) : rows[i].under # service}

(* Mutant: one pass over the rows, the last of a name wins. *)
Winner_last(r, key) == Max({i \in InScope(r) : rows[i].key = key})

(* Two passes in the order of the ids: the project's, then the runner's. *)
Winner(r, key) ==
    LET own == {i \in InScope(r) : rows[i].key = key /\ rows[i].scope = r} IN
      IF own # {} THEN Max(own)
      ELSE Max({i \in InScope(r) : rows[i].key = key})

Resolved(r) ==
    [key \in {rows[i].key : i \in InScope(r)} |-> rows[Winner(r, key)].value]

-----------------------------------------------------------------------------

EnvVarsNext ==
    \/ LoadKey \/ CreateFile \/ WriteFile \/ Stop \/ RotateSave
    \/ \E key \in Key, scope \in Runner \cup {None}, value \in Value :
         CreateVar(key, scope, value)
    \/ \E i \in VarId : DeleteVar(i)
    \/ \E i \in VarId, value \in Value : RotateRead(i, value)

EnvVarsSpec == EnvVarsInit /\ [][EnvVarsNext]_envVars

-----------------------------------------------------------------------------

(* No other row has the name and the scope of row i. *)
Sole(i) == \A j \in Stored : rows[j].key = rows[i].key
                              /\ rows[j].scope = rows[i].scope => j = i

(* What was encrypted under the generated key is readable in every later   *)
(* boot that runs on the key file, wherever the process died in between;   *)
(* so a runner's environment resolves unless the source of the key has     *)
(* changed since a row in its scope, an overridden one included, was       *)
(* written (create_encryption_service, resolve_for_runner).                *)
SecretsReadable ==
    boot = "up" => \A r \in Runner :
        \A i \in Undecryptable(r) : rows[i].source # Source \/ Source = "env"

(* A runner's own variable overrides the project's of that name, in        *)
(* whatever order the two were created, deleted and rotated                *)
(* (resolve_for_runner).                                                   *)
OwnOverrides ==
    \A r \in Runner : \A i \in InScope(r) :
        rows[i].scope = r /\ Sole(i) => Resolved(r)[rows[i].key] = rows[i].value

(* A runner gets the environment it was given: readable, and overridden as *)
(* the spec says.                                                          *)
SecretsResolve == SecretsReadable /\ OwnOverrides
=============================================================================
