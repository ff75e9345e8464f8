----------------------------- MODULE Statements -----------------------------
(***************************************************************************)
(* What one DDL statement of a revision does to the catalog of a database, *)
(* when PostgreSQL refuses it, and what it locks; and what the revisions   *)
(* up to a version build.                                                  *)
(***************************************************************************)
EXTENDS Migrations

Tables(objects) == {o \in objects : o.kind = "table"}
Named(objects, name) == {o \in objects : o.name = name /\ o.kind # "index"}
Referring(objects, t) == {o \in Tables(objects) : t \in Range(o.def.refs)}
UsingType(objects, name) == {o \in Tables(objects) : \E e \in Range(o.def.enum) : e.name = name}

(* The objects a statement adds and removes.  Creating a table creates the *)
(* enum types of its columns; dropping one drops its indexes and leaves    *)
(* the types.                                                              *)
Adds(s) ==
  CASE s.op = "create_table" -> Objects(s.table, s.arg)
    [] s.op = "create_index" -> {IndexObject(s.table, s.arg)}
    [] OTHER -> {}

Removes(s, objects) ==
  CASE s.op = "drop_index" -> {IndexObject(s.table, s.arg)}
    [] s.op = "drop_table" -> {o \in objects : o.name = s.table /\ o.kind # "type"}
    [] s.op = "drop_type"  -> {o \in objects : o.name = s.table /\ o.kind = "type"}
    [] OTHER -> {}

(* The tables that the foreign keys a statement adds or drops refer to.    *)
ReferredBy(s, objects) ==
  CASE s.op = "create_table" -> Range(s.arg.refs)
    [] s.op = "drop_table" -> UNION {Range(o.def.refs) : o \in Named(Tables(objects), s.table)}
    [] OTHER -> {}

(* A statement fails when it creates what exists, refers to or drops what  *)
(* does not, or drops what another object depends on.  DropType checks     *)
(* first whether the type exists.                                          *)
Fails(s, objects) ==
  CASE s.op = "create_table" ->
         \/ \E o \in Adds(s) : Named(objects, o.name) # {}
         \/ \E t \in ReferredBy(s, objects) : Named(Tables(objects), t) = {}
    [] s.op = "create_index" -> Named(Tables(objects), s.table) = {} \/ Adds(s) \subseteq objects
    [] s.op = "drop_index" -> ~ (Removes(s, objects) \subseteq objects)
    [] s.op = "drop_table" -> Named(Tables(objects), s.table) = {} \/ Referring(objects, s.table) # {}
    [] OTHER -> UsingType(objects, s.table) # {}

(* The names a statement locks.                                            *)
Locks(s, objects) == {s.table} \cup {o.name : o \in Adds(s)} \cup ReferredBy(s, objects)

-----------------------------------------------------------------------------
(* What the first k statements of revision r create, what the whole        *)
(* revision creates, and what the revisions up to v create.                *)
Part(r, k) == UNION {Adds(Up[r][i]) : i \in 1..k}
Whole(r) == Part(r, Len(Up[r]))
SchemaAt(v) == UNION {Whole(r) : r \in 1..v}
=============================================================================
