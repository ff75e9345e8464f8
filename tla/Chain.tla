-------------------------------- MODULE Chain --------------------------------
(***************************************************************************)
(* What the revisions have to be like for the commands to be safe, however *)
(* they run.  The proof about Alembic knows the revisions by these facts   *)
(* only, so it holds for every chain of revisions that has them.  They     *)
(* speak of constants, and TLC evaluates them for the ten there are.       *)
(***************************************************************************)
EXTENDS Statements

Revisions == 1..Len(Up)
Ddls == UNION {Range(Up[r]) \cup Range(Down[r]) : r \in Revisions}
Everything == SchemaAt(Len(Up))

(* Statement s drops object o.                                             *)
Drops(s, o) ==
  CASE s.op = "drop_index" -> o = IndexObject(s.table, s.arg)
    [] s.op = "drop_table" -> o.name = s.table /\ o.kind # "type"
    [] s.op = "drop_type"  -> o.name = s.table /\ o.kind = "type"
    [] OTHER -> FALSE

(* What the first k statements of the downgrade of revision r drop.        *)
Gone(r, k) == {o \in Whole(r) : \E i \in 1..k : Drops(Down[r][i], o)}

(* Upgrades create and downgrades drop; the first revision is empty and    *)
(* the second begins with a table; no downgrade begins with a type.        *)
WellFormed ==
  /\ Len(Up) \in Nat /\ Len(Up) >= 2 /\ Len(Down) = Len(Up)
  /\ \A r \in Revisions :
       /\ Up[r] \in Seq(Ddls) /\ \A s \in Range(Up[r]) : s.op \in {"create_table", "create_index"}
       /\ Down[r] \in Seq(Ddls)
       /\ \A s \in Range(Down[r]) : s.op \in {"drop_index", "drop_table", "drop_type"}
       /\ Down[r] # << >> => Down[r][1].op # "drop_type"
  /\ Up[1] = << >> /\ Down[1] = << >> /\ Up[2] # << >> /\ Up[2][1].op = "create_table"

(* No two revisions create the same object.                                *)
Apart == \A r, q \in Revisions : r # q => Whole(r) \cap Whole(q) = {}

(* A downgrade drops what its upgrade created, types included, and nothing *)
(* else.                                                                   *)
Undoes ==
  \A r \in Revisions :
    /\ \A s \in Range(Down[r]), o \in Everything : Drops(s, o) => o \in Whole(r)
    /\ \A o \in Whole(r) : \E s \in Range(Down[r]) : Drops(s, o)

(* From the schema of its version no statement of a revision fails.        *)
Runs ==
  \A r \in Revisions :
    /\ \A i \in DOMAIN Up[r] : ~ Fails(Up[r][i], SchemaAt(r - 1) \cup Part(r, i - 1))
    /\ \A i \in DOMAIN Down[r] : ~ Fails(Down[r][i], SchemaAt(r) \ Gone(r, i - 1))

(* Together they build what the models declare.                            *)
Mirrored == Everything = UNION {Objects(t, Models[t]) : t \in DOMAIN Models}

ASSUME ChainAssumption == WellFormed /\ Apart /\ Undoes /\ Runs /\ Mirrored
=============================================================================
