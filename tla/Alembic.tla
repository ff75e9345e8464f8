------------------------------- MODULE Alembic -------------------------------
(***************************************************************************)
(* The commands `alembic upgrade` and `alembic downgrade` on one database. *)
(* A command reads the version, plans its revisions and runs all of them   *)
(* in one transaction (alembic/env.py): PostgreSQL rolls everything back   *)
(* when a statement fails or the process dies.  Nothing keeps two commands *)
(* from running at once; a statement that needs a table or type another    *)
(* transaction has created, dropped or referenced waits for that           *)
(* transaction to end.  The table alembic_version is there from the start: *)
(* the first command of all creates it.  Its key is the version, so two    *)
(* commands that write one version wait for each other, and nothing else   *)
(* keeps two rows out of it.                                               *)
(***************************************************************************)
EXTENDS Statements, FiniteSets

CONSTANTS Procs    \* the processes that may run a command

ASSUME ProcsAssumption == IsFiniteSet(Procs) /\ Procs # {}

VARIABLES
  db,    \* what is committed: the rows of alembic_version, the catalog objects
  run    \* for each process, its last or current command

alembicVars == <<db, run>>

Base == 0
Head_ == Len(Up)
Versions == Base..Head_

(* The rows of alembic_version at a version: none at the base.  The version *)
(* of the database is the newest recorded one.                             *)
RowOf(v) == {v} \ {Base}
Version == CHOOSE v \in db.rows \cup {Base} : \A w \in db.rows : w <= v

(* A command: the version it read, the one it is at and its target, the    *)
(* statements left of the current revision, what its transaction has added *)
(* to the catalog and removed from it, the names it has locked, and        *)
(* whether no other command has run beside it.                             *)
Idle == [state |-> "idle", from |-> Base, at |-> Base, target |-> Base, todo |-> << >>,
         added |-> {}, removed |-> {}, locks |-> {}, alone |-> TRUE]

Ended(state, alone) == [Idle EXCEPT !.state = state, !.alone = alone]

Running(p) == run[p].state = "running"

-----------------------------------------------------------------------------
(* The catalog as a transaction sees it.                                   *)
Catalog(p) == (db.objects \ run[p].removed) \cup run[p].added

Held(p) == UNION {run[q].locks : q \in Procs \ {p}}

(* The rows of alembic_version that a command has written: every version   *)
(* it has stamped, and the one it replaced first.  They are keys of the    *)
(* table, which no other transaction can write until this one ends.        *)
Keys(x) == IF x.at = x.from THEN {} ELSE ((x.from .. x.at) \cup (x.at .. x.from)) \ {Base}

Taken(p) == UNION {Keys(run[q]) : q \in Procs \ {p}}

-----------------------------------------------------------------------------
AlembicTypeOK ==
  /\ db \in [rows : SUBSET (Versions \ {Base}), objects : SUBSET UNION {Objects(t, Models[t]) : t \in DOMAIN Models}]
  /\ DOMAIN run = Procs
  /\ \A p \in Procs :
       /\ DOMAIN run[p] = DOMAIN Idle
       /\ run[p].state \in {"idle", "running", "failed"}
       /\ {run[p].from, run[p].at, run[p].target} \subseteq Versions
       /\ run[p].alone \in BOOLEAN
       /\ ~ Running(p) => run[p] = Ended(run[p].state, run[p].alone)

AlembicInit ==
  /\ db = [rows |-> {}, objects |-> {}]
  /\ run = [p \in Procs |-> Idle]

(* The statements of the revision that leads from version v towards target *)
Plan(v, target) == IF v < target THEN Up[v + 1] ELSE IF v > target THEN Down[v] ELSE << >>

Toward(v, target) == IF v < target THEN v + 1 ELSE v - 1

(* A command, `upgrade` or `downgrade` to some version, reads the version  *)
(* and opens its transaction.                                              *)
Start(p, target) ==
  /\ ~ Running(p)
  /\ Cardinality(db.rows) <= 1
  /\ target # Version
  /\ run' = [q \in Procs |->
               IF q = p THEN [Idle EXCEPT !.state = "running", !.from = Version,
                                          !.at = Version, !.target = target,
                                          !.todo = Plan(Version, target),
                                          !.alone = \A r \in Procs : ~ Running(r)]
               ELSE IF Running(q) THEN [run[q] EXCEPT !.alone = FALSE] ELSE run[q]]
  /\ UNCHANGED db

(* With two rows in alembic_version a command refuses: the revisions       *)
(* overlap.                                                                *)
Overlap(p) ==
  /\ ~ Running(p)
  /\ Cardinality(db.rows) > 1
  /\ run' = [run EXCEPT ![p] = Ended("failed", \A q \in Procs : ~ Running(q))]
  /\ UNCHANGED db

(* One DDL statement, executed by command x.                               *)
Executed(x, s, seen) ==
  [x EXCEPT !.todo = Tail(@),
            !.removed = (@ \cup (Removes(s, seen) \cap db.objects)),
            !.added = (@ \cup Adds(s)) \ Removes(s, seen),
            !.locks = @ \cup Locks(s, seen)]

Ddl(p) ==
  LET s == Head(run[p].todo)
      seen == Catalog(p)
  IN  /\ Running(p) /\ run[p].todo # << >>
      /\ Locks(s, seen) \cap Held(p) = {}
      /\ run' = [run EXCEPT ![p] =
           IF Fails(s, seen) THEN Ended("failed", @.alone) ELSE Executed(@, s, seen)]
      /\ UNCHANGED db

(* The rows of alembic_version as a transaction sees them.                 *)
SeenRows(p) ==
  IF run[p].at = run[p].from THEN db.rows
  ELSE (db.rows \ RowOf(run[p].from)) \cup RowOf(run[p].at)

NextVersion(p) == Toward(run[p].at, run[p].target)

(* The end of a revision: the row of the version is inserted (from the     *)
(* base), deleted (to the base) or updated.  Update and delete must match  *)
(* the row, and the new value must not be there: it is the primary key.    *)
(* An insert matches no row: nothing looks whether there is another one.   *)
Stampable(p) ==
  RowOf(run[p].at) \subseteq SeenRows(p) /\ RowOf(NextVersion(p)) \cap SeenRows(p) = {}

(* The rows the statement writes: none when it matches no row.             *)
Touches(p) ==
  IF RowOf(run[p].at) \subseteq SeenRows(p) THEN {run[p].at, NextVersion(p)} \ {Base} ELSE {}

Stamped(x, next) == [x EXCEPT !.at = next, !.todo = Plan(next, x.target)]

Stamp(p) ==
  /\ Running(p) /\ run[p].todo = << >> /\ run[p].at # run[p].target
  /\ Touches(p) \cap Taken(p) = {}
  /\ run' = [run EXCEPT ![p] =
       IF ~ Stampable(p) THEN Ended("failed", @.alone) ELSE Stamped(@, NextVersion(p))]
  /\ UNCHANGED db

Commit(p) ==
  /\ Running(p) /\ run[p].at = run[p].target
  /\ db' = [rows |-> SeenRows(p), objects |-> Catalog(p)]
  /\ run' = [run EXCEPT ![p] = Ended("idle", TRUE)]

\* Mutant: each revision is a transaction of its own, and those that have
\* ended stay.
DieKeepsRevisions(p) ==
  /\ Running(p)
  /\ db' = [rows |-> SeenRows(p),
            objects |-> UNION {UNION {Adds(Up[r][i]) : i \in DOMAIN Up[r]} : r \in 1..run[p].at}]
  /\ run' = [run EXCEPT ![p] = Idle]

(* The process is killed, or loses the database: rollback.                 *)
Die(p) ==
  /\ Running(p)
  /\ run' = [run EXCEPT ![p] = Idle]
  /\ UNCHANGED db

(* Two commands that wait for each other's locks: PostgreSQL's deadlock     *)
(* detector fails one of them, whichever.                                  *)
WaitsFor(p, q) ==
  /\ p # q /\ Running(p)
  /\ \/ run[p].todo # << >> /\ Locks(Head(run[p].todo), Catalog(p)) \cap run[q].locks # {}
     \/ /\ run[p].todo = << >> /\ run[p].at # run[p].target
        /\ Touches(p) \cap Keys(run[q]) # {}

DeadlockVictim(p) ==
  /\ \E q \in Procs : WaitsFor(p, q) /\ WaitsFor(q, p)
  /\ run' = [run EXCEPT ![p] = Ended("failed", @.alone)]
  /\ UNCHANGED db

AlembicNext ==
  \E p \in Procs :
    \/ \E target \in Versions : Start(p, target)
    \/ Overlap(p)
    \/ Ddl(p)
    \/ Stamp(p)
    \/ Commit(p)
    \/ DeadlockVictim(p)
    \/ Die(p)

AlembicSpec == AlembicInit /\ [][AlembicNext]_alembicVars

-----------------------------------------------------------------------------
(* However commands were run, killed or overlapped, the tables, indexes    *)
(* and types in the database are those that the revisions up to its        *)
(* version create: a downgrade leaves nothing behind (drop_table does not  *)
(* drop enum types) and no command leaves part of its work.  Beside the    *)
(* version at most the row of the empty first revision is recorded.        *)
(* Together with the types of the variables.                               *)
SchemaIsVersion ==
  /\ AlembicTypeOK
  /\ db.rows \subseteq {1, Version}
  /\ db.objects = SchemaAt(Version)

(* The revisions are written by hand to mirror app/models "column for      *)
(* column, constraint for constraint".  At the head version the schema is  *)
(* the one the models declare, also in what `revision --autogenerate`,     *)
(* which CI runs, does not compare: CHECK constraints and enum values.     *)
HeadMatchesModels ==
  Version = Head_ => db.objects = UNION {Objects(t, Models[t]) : t \in DOMAIN Models}

(* From any version, after any history of upgrades and downgrades, a       *)
(* command fails only if another one ran beside it: no statement finds a   *)
(* type left over, a table missing or still referred to.  Only where a     *)
(* second row has been recorded do commands refuse to start.               *)
FailsOnlyBesideAnother ==
  \A p \in Procs : run[p].state = "failed" => ~ run[p].alone \/ Cardinality(db.rows) > 1

(* The version moves from the one a command read to that command's target: *)
(* a command that is killed leaves the database where it was, and of two   *)
(* that overlap the second never overwrites the version the first wrote.   *)
(* Only the first revision, which is empty, can be recorded, or removed,   *)
(* beside a version that others have reached meanwhile.                    *)
VersionByOneRun ==
  [][db'.rows # db.rows =>
       \E p \in Procs :
         LET x == run[p]
         IN  /\ Running(p) /\ RowOf(x.from) \subseteq db.rows
             /\ db'.rows = (db.rows \ RowOf(x.from)) \cup RowOf(x.target)
             /\ \/ {x.from, x.target} = {Base, 1}
                \/ db.rows \subseteq RowOf(x.from) \cup ({1} \ RowOf(x.target))
    ]_alembicVars
=============================================================================
