------------------------------- MODULE OrmSave -------------------------------
(***************************************************************************)
(* TypeORM's Repository.save(entity) for an entity that carries its key,   *)
(* as the services of this back end use it (external library code).        *)
(*                                                                         *)
(* save() first SELECTs the row again, compares it column by column with   *)
(* the entity held in memory, and then UPDATEs only the columns found to   *)
(* differ.  The SELECT and the UPDATE are two statements with an await     *)
(* between them, so a handler that does findOne / change / save is three   *)
(* database steps: read, load, write.                                      *)
(***************************************************************************)

\* The columns an UPDATE must write for "entity" when the row loaded by save()
\* is "loaded".
Dirty(entity, loaded) == {c \in DOMAIN entity : entity[c] # loaded[c]}

\* The row after UPDATE ... SET of the columns "cols" to the entity's values.
Merge(row, entity, cols) ==
    [c \in DOMAIN row |-> IF c \in cols THEN entity[c] ELSE row[c]]
=============================================================================
