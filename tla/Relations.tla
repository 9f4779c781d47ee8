------------------------------ MODULE Relations ------------------------------
(***************************************************************************)
(* Reading a tree of models: the main statement, one relation step after   *)
(* another that reads the children of the rows before it by their keys,    *)
(* and the assembly of each parent with its own children (selectStep(),    *)
(* relationSteps() and projection() of planner.ts, relations() of          *)
(* database.ts, Assembler and attachExternal() of model.ts).  A step whose *)
(* keys exceed the bind limit reads in chunks; other clients write between *)
(* any two statements.  A relation of another connection is external: the  *)
(* assembled parents are matched with what one load of the child returns.  *)
(***************************************************************************)
EXTENDS Integers, Sequences, FiniteSets, SequencesExt, FiniteSetsExt

CONSTANTS
  Limit,      \* driverLimit()
  Plans,      \* the requests: sequences of steps, the main step first
  Tables,     \* the contents of the database: for each entity a set of rows
  MaxWrites   \* bound on the writes of other clients

Null == 0

\* A step of a request: the entity it reads, its parent step, the key columns on
\* both sides, if_parent as a column with its value, the rows per parent (0: all),
\* the other bind parameters, the selected columns, and if it is external.
Step(entity, parent, left, right, ifp, per, binds, cols, external) ==
  [entity |-> entity, parent |-> parent, left |-> left, right |-> right, ifp |-> ifp, per |-> per,
   binds |-> binds, cols |-> cols, external |-> external]
NoIf == [column |-> "none", value |-> 0]

VARIABLES
  db,        \* the rows of each entity; a row maps its columns to values
  plan,      \* the steps of the request
  at,        \* the step that runs
  chunks,    \* the key lists that the step has still to read
  data,      \* for each step run, the rows read, in order
  bound,     \* the bind parameters of the last statement
  writes,    \* the writes of other clients
  stage,
  trees      \* the children assembled: step -> parent row index -> rows

vars == <<db, plan, at, chunks, data, bound, writes, stage, trees>>

Init ==
  /\ plan \in Plans /\ db \in Tables
  /\ at = 1 /\ chunks = <<>> /\ data = <<>> /\ bound = 0 /\ writes = 0
  /\ stage = "main" /\ trees = <<>>

Children(s) == {t \in DOMAIN plan : plan[t].parent = s}

\* A faulty projection() that selects what the request asks for only.
ProjectionPlain(s) == plan[s].cols \cup {"id"}

\* projection(): the selected columns, and always the primary key, the columns
\* that the relation matches, and those its own relations match or test.  An
\* external relation is no part of the request and adds no column on either side.
Projection(s) ==
  plan[s].cols \cup {"id"} \cup (IF plan[s].external THEN {} ELSE ToSet(plan[s].right))
    \cup UNION {ToSet(plan[t].left) \cup ({plan[t].ifp.column} \ {"none"}) : t \in {t \in Children(s) : ~plan[t].external}}

\* The row as the statement of step s returns it.
Selected(s, row) == [c \in Projection(s) \cap DOMAIN row |-> row[c]]

Keys(row, cols) == [i \in DOMAIN cols |-> IF cols[i] \in DOMAIN row THEN row[cols[i]] ELSE Null]
HasKey(row, cols) == Null \notin ToSet(Keys(row, cols))
IfParent(s, row) ==
  plan[s].ifp # NoIf => plan[s].ifp.column \in DOMAIN row /\ row[plan[s].ifp.column] = plan[s].ifp.value

\* parentValues(): the distinct keys of the parents, without those that have a
\* NULL part or fail if_parent.
ParentValues(s) ==
  FoldLeft(LAMBDA seen, row :
             IF ~IfParent(s, row) \/ ~HasKey(row, plan[s].left) \/ Contains(seen, Keys(row, plan[s].left))
             THEN seen ELSE Append(seen, Keys(row, plan[s].left)),
           <<>>, data[plan[s].parent])

PowerUpTo(n) == Max({b \in {2^i : i \in 0..n} : b <= n})
Bucket(n) == CHOOSE b \in {2^i : i \in 0..n} : b >= n /\ b < 2 * n

\* The key tuples that one statement of step s may bind.
MaxTuples(s) == (Limit - plan[s].binds) \div Len(plan[s].left)

ChunkSize(s) == PowerUpTo(MaxTuples(s))

\* relationChunks(): the keys in slices of a power of two.
RelationChunks(s, keys) ==
  LET size == ChunkSize(s) IN
  [k \in 1..((Len(keys) + size - 1) \div size) |-> SubSeq(keys, (k - 1) * size + 1, Min({k * size, Len(keys)}))]

\* expandParent(): the tuples that the statement binds for a chunk.
Expanded(keys) == [i \in 1..Bucket(Len(keys)) |-> keys[Min({i, Len(keys)})]]

ById(rows) == SetToSortSeq(rows, LAMBDA r, q : r.id < q.id)

\* The rows of a relation statement, at most per rows for each key; the load of
\* an external child reads them all.
Rows(s, keys) ==
  LET found == {r \in db[plan[s].entity] : HasKey(r, plan[s].right) /\ Keys(r, plan[s].right) \in ToSet(keys)}
      limit == IF plan[s].external THEN 0 ELSE plan[s].per
      rank(r) == Cardinality({q \in found : Keys(q, plan[s].right) = Keys(r, plan[s].right) /\ q.id <= r.id}) IN
  ById({r \in found : limit = 0 \/ rank(r) <= limit})

\* The main statement.
Main ==
  /\ stage = "main"
  /\ data' = <<[i \in DOMAIN ById(db[plan[1].entity]) |-> Selected(1, ById(db[plan[1].entity])[i])]>>
  /\ bound' = plan[1].binds
  /\ at' = 2
  /\ stage' = IF Len(plan) = 1 THEN "assemble" ELSE "begin"
  /\ UNCHANGED <<db, plan, chunks, writes, trees>>

\* relations() takes the next step: no keys, no statement.
Begin ==
  /\ stage = "begin"
  /\ LET keys == ParentValues(at) IN
     \/ /\ keys # <<>> /\ MaxTuples(at) < 1
        /\ stage' = "failed"
        /\ UNCHANGED <<chunks, data>>
     \/ /\ keys = <<>> \/ MaxTuples(at) >= 1
        /\ stage' = "read"
        /\ chunks' = IF keys = <<>> THEN <<>> ELSE RelationChunks(at, keys)
        /\ data' = Append(data, <<>>)
  /\ UNCHANGED <<db, plan, at, bound, writes, trees>>

\* The statement of the next chunk.
Read ==
  /\ stage = "read" /\ chunks # <<>>
  /\ LET keys == Expanded(Head(chunks))
         rows == Rows(at, keys) IN
     /\ data' = [data EXCEPT ![at] = @ \o [i \in DOMAIN rows |-> Selected(at, rows[i])]]
     /\ bound' = plan[at].binds + Len(keys) * Len(plan[at].left)
  /\ chunks' = Tail(chunks)
  /\ UNCHANGED <<db, plan, at, writes, stage, trees>>

EndStep ==
  /\ stage = "read" /\ chunks = <<>>
  /\ at' = at + 1
  /\ stage' = IF at = Len(plan) THEN "assemble" ELSE "begin"
  /\ UNCHANGED <<db, plan, chunks, data, bound, writes, trees>>

\* A faulty related() that does not test if_parent.
RelatedAny(s, parent) ==
  IF ~HasKey(parent, plan[s].left) THEN <<>>
  ELSE SelectSeq(data[s], LAMBDA r : HasKey(r, plan[s].right) /\ Keys(r, plan[s].right) = Keys(parent, plan[s].left))

\* Assembler.related() and the end of attachExternal(): the rows of step s whose
\* key is that of the parent; an external child is cut to its rows per parent here.
Related(s, parent) ==
  IF ~IfParent(s, parent) \/ ~HasKey(parent, plan[s].left) THEN <<>>
  ELSE LET own == SelectSeq(data[s], LAMBDA r : HasKey(r, plan[s].right) /\ Keys(r, plan[s].right) = Keys(parent, plan[s].left)) IN
       IF plan[s].external /\ plan[s].per > 0 THEN SubSeq(own, 1, Min({plan[s].per, Len(own)})) ELSE own

\* assemble(): the models are made from what the steps have read.
Assemble ==
  /\ stage = "assemble"
  /\ trees' = [s \in DOMAIN plan |->
                 IF s = 1 THEN <<>> ELSE [i \in DOMAIN data[plan[s].parent] |-> Related(s, data[plan[s].parent][i])]]
  /\ stage' = "done"
  /\ UNCHANGED <<db, plan, at, chunks, data, bound, writes>>

\* Another client gives a row of an entity another value, or deletes it.
Write(e, r, c, v) ==
  /\ stage \in {"begin", "read"} /\ writes < MaxWrites
  /\ writes' = writes + 1
  /\ \/ db' = [db EXCEPT ![e] = @ \ {r}]
     \/ db' = [db EXCEPT ![e] = (@ \ {r}) \cup {[r EXCEPT ![c] = v]}]
  /\ UNCHANGED <<plan, at, chunks, data, bound, stage, trees>>

Next ==
  \/ Main
  \/ Begin
  \/ Read
  \/ EndStep
  \/ Assemble
  \/ \E e \in DOMAIN db : \E r \in db[e] : \E c \in DOMAIN r \ {"id"} : \E v \in {1, 2} : Write(e, r, c, v)

Spec == Init /\ [][Next]_vars

-----------------------------------------------------------------------------
(* Properties.                                                             *)

\* Types.
TypeOK ==
  /\ stage \in {"main", "begin", "read", "assemble", "done", "failed"}
  /\ at \in 1..(Len(plan) + 1) /\ writes \in 0..MaxWrites
  /\ Len(data) <= Len(plan)

\* No statement of a relation binds more parameters than the driver permits,
\* whatever the number of parents, the width of the key and the padding.
WithinLimit == bound <= Limit

\* The children that a parent has in the database: same key, no part of it NULL,
\* if_parent true.
Meant(s, parent) ==
  {r \in db[plan[s].entity] : IfParent(s, parent) /\ HasKey(parent, plan[s].left) /\ Keys(r, plan[s].right) = Keys(parent, plan[s].left)}
Ids(rows) == {rows[i].id : i \in DOMAIN rows}

\* When nobody writes in between, each parent holds its children and no others,
\* up to the rows per parent that the relation asks for: whatever columns are
\* selected and however the keys fall into chunks.  docs/spec/protocol.md:64: "The
\* primary key and the keys that relations bind are always selected".
ChildrenExact ==
  stage = "done" /\ writes = 0 =>
    \A s \in 2..Len(plan) : \A i \in DOMAIN trees[s] :
      LET parent == CHOOSE r \in db[plan[plan[s].parent].entity] : r.id = data[plan[s].parent][i].id
          meant == Meant(s, parent) IN
      /\ Ids(trees[s][i]) \subseteq {r.id : r \in meant}
      /\ Len(trees[s][i]) = IF plan[s].per = 0 THEN Cardinality(meant) ELSE Min({plan[s].per, Cardinality(meant)})

\* Whatever other clients write between the statements, a child is held only by a
\* parent whose key it had when it was read, once by each such parent, and never
\* by more parents' rows than its relation permits.
ChildrenMatch ==
  stage = "done" =>
    \A s \in 2..Len(plan) : \A i \in DOMAIN trees[s] :
      /\ plan[s].per > 0 => Len(trees[s][i]) <= plan[s].per
      /\ Cardinality(Ids(trees[s][i])) = Len(trees[s][i])
      /\ \A j \in DOMAIN trees[s][i] :
           /\ IfParent(s, data[plan[s].parent][i])
           /\ Keys(trees[s][i][j], plan[s].right) = Keys(data[plan[s].parent][i], plan[s].left)
=============================================================================
