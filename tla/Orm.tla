-------------------------------- MODULE Orm --------------------------------
(***************************************************************************)
(* What the tables of Access, Catalog and EnvVars have in common: requests *)
(* read and write them, and save() has SQLAlchemy update a row by columns  *)
(* (adapters/output/persistence/repositories).                             *)
(***************************************************************************)

CONSTANTS
    Request,  \* bound: requests in flight at once
    None      \* no row, no key, no operation

(* The ORM writes the columns in which the entity differs from base. *)
Column(current, base, entity) == IF entity # base THEN entity ELSE current
=============================================================================
