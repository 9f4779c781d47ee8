----------------------------- MODULE PlanSteps -----------------------------
(***************************************************************************)
(* The steps of one plan (planDiff() of plan_diff.ts, diffObjects() and    *)
(* diffTriggers() of plan_objects.ts, PlanWriter of plan_steps.ts) and     *)
(* what they do to a database.  The database is modelled by the rules of   *)
(* the three servers that the writer works around: which names collide,    *)
(* which key a foreign key needs, what a rename carries along.  A column   *)
(* holds a set of marks that tell where its values come from.              *)
(***************************************************************************)
EXTENDS Integers, Sequences, FiniteSets, SequencesExt, TLC

CONSTANTS
  Plans,         \* the plans, each with its source
  Dialects,      \* the dialects to check
  SourceOf(_),   \* the tables of the source by name
  TargetOf(_),   \* the tables of the target by name
  HeaderOf(_),   \* the renames and permissions of the plan
  Rank(_),       \* the place of a table name in name order
  MaxRounds      \* bound on the rollbacks of a walk

Names(t) == [i \in 1..Len(t.cols) |-> t.cols[i].name]
HasColumn(t, c) == c \in ToSet(Names(t))
ColumnOf(t, c) == CHOOSE x \in ToSet(t.cols) : x.name = c
Sorted(tables) == SetToSortSeq(tables, LAMBDA a, b : Rank(a) < Rank(b))
Each(s, Op(_)) == FlattenSeq([i \in 1..Len(s) |-> Op(s[i])])
Mapped(s, Op(_)) == [i \in 1..Len(s) |-> Op(s[i])]

-----------------------------------------------------------------------------
(* The diff.  A matching m holds both schemas and the renames that apply.  *)

\* The type changes that keep every value.
Widens(from, to) == <<from, to>> \in {<<"i32", "i64">>, <<"varchar", "text">>, <<"time0", "time3">>}
PrecisionGrows(from, to) == <<from, to>> = <<"time0", "time3">>

NewTable(rs, s) == IF \E r \in rs : r.old = s THEN (CHOOSE r \in rs : r.old = s).new ELSE s

TableRenames(S, T, H) == {r \in H.tables : r.old \in DOMAIN S /\ r.new \notin DOMAIN S /\ r.new \in DOMAIN T}

Matching(S, T, H) ==
  LET rs == TableRenames(S, T, H)
      both == {t \in DOMAIN T : \E s \in DOMAIN S : NewTable(rs, s) = t}
      from == [t \in both |-> CHOOSE s \in DOMAIN S : NewTable(rs, s) = t]
      crs == {r \in H.columns :
                /\ r.table \in both
                /\ HasColumn(S[from[r.table]], r.old) /\ ~HasColumn(S[from[r.table]], r.new)
                /\ HasColumn(T[r.table], r.new)}
  IN  [src |-> S, tgt |-> T, tables |-> rs, tableOf |-> from, columns |-> crs]

Matched(m) == Sorted(DOMAIN m.tableOf)
Created(m) == Sorted(DOMAIN m.tgt \ DOMAIN m.tableOf)
DroppedTables(m) == Sorted({s \in DOMAIN m.src : NewTable(m.tables, s) \notin DOMAIN m.tgt})
IsMatched(m, t) == t \in DOMAIN m.tableOf
Source(m, t) == m.src[m.tableOf[t]]

\* The target name of a source table, and of a column of the target table t.
TargetName(m, s) == IF \E t \in DOMAIN m.tableOf : m.tableOf[t] = s THEN CHOOSE t \in DOMAIN m.tableOf : m.tableOf[t] = s ELSE s
NewColumn(m, t, c) ==
  LET rs == {r \in m.columns : r.table = t /\ r.old = c} IN
  IF rs = {} THEN c ELSE (CHOOSE r \in rs : TRUE).new

Keeps(m, t, c) == \E s \in ToSet(Names(Source(m, t))) : NewColumn(m, t, s) = c
OldColumn(m, t, c) == CHOOSE s \in ToSet(Names(Source(m, t))) : NewColumn(m, t, s) = c

Removed(m, t) == SelectSeq(Names(Source(m, t)), LAMBDA c : ~HasColumn(m.tgt[t], NewColumn(m, t, c)))
Added(m, t) == SelectSeq(Names(m.tgt[t]), LAMBDA c : ~Keeps(m, t, c))

Changes(old, new) == old.type # new.type \/ old.null # new.null \/ old.def # new.def
Altered(m, t) ==
  SelectSeq(Names(m.tgt[t]), LAMBDA c :
    Keeps(m, t, c) /\ Changes(ColumnOf(Source(m, t), OldColumn(m, t, c)), ColumnOf(m.tgt[t], c)))
IsAltered(m, t, c) == IsMatched(m, t) /\ c \in ToSet(Altered(m, t))

\* The changes of a matched table that the plan cannot make.
ColumnDiags(m, t) ==
  LET new == m.tgt[t]
      old == Source(m, t)
      kept == SelectSeq(Names(new), LAMBDA c : Keeps(m, t, c))
      pairs == {<<ColumnOf(old, OldColumn(m, t, c)), ColumnOf(new, c)>> : c \in ToSet(kept)}
  IN  {"non-null" : c \in {c \in ToSet(Added(m, t)) : ~ColumnOf(new, c).null /\ ~ColumnOf(new, c).def}}
      \cup {"identity" : c \in {c \in ToSet(Added(m, t)) : ColumnOf(new, c).ident}}
      \cup {"identity" : p \in {p \in pairs : p[1].ident # p[2].ident}}
      \cup {"type" : p \in {p \in pairs : p[1].type # p[2].type /\ ~Widens(p[1].type, p[2].type)}}
      \cup (IF SelectSeq(Mapped(Names(old), LAMBDA c : NewColumn(m, t, c)), LAMBDA c : HasColumn(new, c)) = kept
            THEN {} ELSE {"order"})
      \cup (IF IsPrefix(kept, Names(new)) THEN {} ELSE {"order"})
      \cup (IF Mapped(old.key, LAMBDA c : NewColumn(m, t, c)) = new.key THEN {} ELSE {"key"})

\* planDiff(): the diagnostics; without one, the plan has a diff.
Diags(m, H) ==
  LET drops == UNION {{[table |-> m.tableOf[t], name |-> c] : c \in ToSet(Removed(m, t))} : t \in DOMAIN m.tableOf}
  IN  {"rename" : r \in H.tables \ m.tables}
      \cup {"rename" : r \in H.columns \ m.columns}
      \cup {"permission" : t \in SymDiff(H.dropTables, ToSet(DroppedTables(m)))}
      \cup {"permission" : c \in SymDiff(H.dropColumns, drops)}
      \cup UNION {ColumnDiags(m, t) : t \in DOMAIN m.tableOf}

-----------------------------------------------------------------------------
(* diffObjects(): uniques, indexes, foreign keys and checks.  An object    *)
(* has the columns it uses; a foreign key also its table and references.   *)

RenamedObject(m, t, o) ==
  LET parent == NewTable(m.tables, o.table) IN
  [o EXCEPT !.cols = Mapped(@, LAMBDA c : NewColumn(m, t, c)),
            !.table = parent,
            !.refs = Mapped(@, LAMBDA c : NewColumn(m, parent, c))]

IsKey(o) == o.kind \in {"unique", "index"}
DroppedKeys(m, t) ==
  {RenamedObject(m, t, o).cols : o \in {o \in Source(m, t).objs : IsKey(o) /\ RenamedObject(m, t, o) \notin m.tgt[t].objs}}

\* A faulty diff that keeps a foreign key whose index is dropped.
ForcedAltered(m, t, o) ==
  \/ /\ o.kind = "foreign key"
     /\ \/ \E c \in ToSet(o.cols) : IsAltered(m, t, c)
        \/ \E c \in ToSet(o.refs) : IsAltered(m, o.table, c)
  \/ /\ o.kind = "check"
     /\ \E c \in ToSet(o.cols) : IsAltered(m, t, c) \/ \E r \in m.columns : r.table = t /\ r.new = c

\* An object that is dropped and added again although its definition stays.
Forced(m, t, o) ==
  \/ /\ o.kind = "foreign key"
     /\ \/ \E c \in ToSet(o.cols) : IsAltered(m, t, c)
        \/ \E c \in ToSet(o.refs) : IsAltered(m, o.table, c)
        \/ \E k \in DroppedKeys(m, t) : IsPrefix(o.cols, k)
  \/ /\ o.kind = "check"
     /\ \E c \in ToSet(o.cols) : IsAltered(m, t, c) \/ \E r \in m.columns : r.table = t /\ r.new = c

Stays(m, t, o) == /\ o \in m.tgt[t].objs
                  /\ \E s \in Source(m, t).objs : RenamedObject(m, t, s) = o
                  /\ ~Forced(m, t, o)

\* The objects to drop of a source table, and to add to a matched table.
DropObjects(m, s) ==
  IF s \in ToSet(DroppedTables(m)) THEN {o \in m.src[s].objs : o.kind = "foreign key"}
  ELSE {o \in m.src[s].objs : ~Stays(m, TargetName(m, s), RenamedObject(m, TargetName(m, s), o))}
AddObjects(m, t) == IF IsMatched(m, t) THEN {o \in m.tgt[t].objs : ~Stays(m, t, o)} ELSE {}

\* The triggers of the immutable and audit settings, as the renderer writes them.
Triggers(name, t) ==
  LET trigger(event, cols) == [name |-> <<name, event>>, table |-> name, cols |-> cols] IN
  (IF "immutable" \in t.settings
   THEN <<trigger("immutable_update", <<>>), trigger("immutable_delete", <<>>)>> ELSE <<>>)
  \o (IF "audit" \in t.settings
      THEN <<trigger("audit_insert", Names(t)), trigger("audit_update", Names(t)), trigger("audit_delete", <<>>)>> ELSE <<>>)

ChangesTriggers(m, t) == Triggers(m.tableOf[t], Source(m, t)) # Triggers(t, m.tgt[t])

-----------------------------------------------------------------------------
(* Statements, effects and steps.  A name is a tuple, so that it never     *)
(* meets a name of another kind.                                           *)

None == [op |-> "none"]
Create(t, def) == [op |-> "create", table |-> t, def |-> def]
Drop(t) == [op |-> "drop", table |-> t]
Rename(t, to) == [op |-> "rename", table |-> t, to |-> to]
RenameColumn(t, c, to) == [op |-> "rename column", table |-> t, col |-> c, to |-> to]
AddColumn(t, c) == [op |-> "add column", table |-> t, def |-> c]
DropColumn(t, c) == [op |-> "drop column", table |-> t, col |-> c]
Modify(t, c) == [op |-> "modify", table |-> t, col |-> c.name, type |-> c.type, null |-> c.null, def |-> c.def]
AddObject(t, o) == [op |-> "add object", table |-> t, obj |-> o]
DropObject(t, o) == [op |-> "drop object", table |-> t, obj |-> o]
CreateTrigger(g) == [op |-> "create trigger", trigger |-> g]
DropTrigger(g) == [op |-> "drop trigger", trigger |-> g]
CreateFunction(g) == [op |-> "create function", trigger |-> g]
DropFunction(g) == [op |-> "drop function", trigger |-> g]
Copy(to, from, pairs) == [op |-> "copy", table |-> to, from |-> from, pairs |-> pairs]
Clear(t) == [op |-> "clear", table |-> t]
Sequence(to, from) == [op |-> "sequence", table |-> to, from |-> from]
Unsequence(t) == [op |-> "unsequence", table |-> t]

Effect(kind, t, name, present) == [kind |-> kind, table |-> t, name |-> name, present |-> present]
Present(kind, t, name) == Effect(kind, t, name, TRUE)
Absent(kind, t, name) == Effect(kind, t, name, FALSE)
Repeat == Effect("repeat", "", <<>>, TRUE)

\* do, its rollback, its effect; the statements that run instead when cond
\* holds; the columns that the rollback makes non-null.
Step(do, undo, effect) ==
  [do |-> do, undo |-> undo, effect |-> effect, restore |-> None, back |-> None,
   cond |-> Repeat, nulls |-> {}, final |-> FALSE]
NullCheck(t, c, col) == [table |-> t, col |-> c, def |-> col.def]

-----------------------------------------------------------------------------
(* The renderer.                                                           *)

HasTypeCheck(d, c) ==
  /\ ~c.ident
  /\ c.type \in CASE d = "mysql" -> {"bool", "time0", "time3"}
                  [] d = "postgres" -> {"time0", "time3"}
                  [] d = "sqlite" -> {"i32", "i64", "bool", "varchar", "time0", "time3"}

TypeCheck(d, name, c) ==
  [kind |-> "type check", name |-> name, cols |-> <<c.name>>, table |-> "", refs |-> <<>>,
   def |-> IF d # "sqlite" /\ c.type \in {"time0", "time3"} THEN "time" ELSE c.type]

Stored(c, val) == [name |-> c.name, type |-> c.type, null |-> c.null, def |-> c.def, ident |-> c.ident, val |-> val]
Hidden(c, h) == [c EXCEPT !.name = h, !.null = TRUE, !.ident = FALSE]

TypeChecks(d, t, CheckName(_)) == {TypeCheck(d, CheckName(c.name), c) : c \in {c \in ToSet(t.cols) : HasTypeCheck(d, c)}}

\* createTable(): a table without rows.  SQLite has its foreign keys in it and its
\* unique keys as indexes of their own.
TableDef(d, t, checks, hidden) ==
  [cols |-> Mapped(t.cols \o hidden, LAMBDA c : Stored(c, {})),
   key |-> t.key,
   objs |-> {o \in t.objs : o.kind \in {"check", IF d = "sqlite" THEN "foreign key" ELSE "unique"}}
            \cup checks,
   rows |-> FALSE]

RendererChecks(d, name, t) == TypeChecks(d, t, LAMBDA c : <<name, c>>)

\* Object statements in the order of their kind and name, which decides nothing
\* here but the place in the list.
KindRank(k) == CASE k = "check" -> 1 [] k = "foreign key" -> 2 [] k = "index" -> 3 [] k = "type check" -> 4 [] k = "unique" -> 5
Listed(objs) == SetToSortSeq(objs, LAMBDA a, b :
                  \/ KindRank(a.kind) < KindRank(b.kind)
                  \/ a.kind = b.kind /\ Rank(a.name[Len(a.name)]) < Rank(b.name[Len(b.name)]))

\* A faulty step whose effect is the one of its rollback.
DropObjectStepPresent(t, o) == Step(DropObject(t, o), AddObject(t, o), Present("object", t, o.name))
DropObjectStep(t, o) == Step(DropObject(t, o), AddObject(t, o), Absent("object", t, o.name))
AddObjectStep(t, o) == Step(AddObject(t, o), DropObject(t, o), Present("object", t, o.name))

\* The indexes that follow CREATE TABLE.
Indexes(d, t) == Listed({o \in t.objs : o.kind = "index" \/ (d = "sqlite" /\ o.kind = "unique")})
CreateIndexes(d, name, t) == Mapped(Indexes(d, t), LAMBDA o : AddObjectStep(name, o))

DropTriggers(d, name, t) ==
  Each(Triggers(name, t), LAMBDA g :
    <<Step(DropTrigger(g), CreateTrigger(g), Absent("trigger", name, g.name))>>
    \o (IF d = "postgres" THEN <<Step(DropFunction(g), CreateFunction(g), Absent("function", "", g.name))>> ELSE <<>>))
CreateTriggers(d, name, t) ==
  Each(Triggers(name, t), LAMBDA g :
    (IF d = "postgres" THEN <<Step(CreateFunction(g), DropFunction(g), Present("function", "", g.name))>> ELSE <<>>)
    \o <<Step(CreateTrigger(g), DropTrigger(g), Present("trigger", name, g.name))>>)

-----------------------------------------------------------------------------
(* PlanWriter.                                                             *)

RebuildTable == "rebuild"
HoldNames == <<"hold1", "hold2", "hold3", "hold4", "hold5", "hold6", "hold7", "hold8">>
IsHidden(name) == name \in ToSet(HoldNames) \cup {RebuildTable}

\* numberHolds(): what is hidden, in the order of its numbers.
HoldOrder(m) ==
  Each(Matched(m), LAMBDA t : Mapped(Removed(m, t), LAMBDA c : <<"column", m.tableOf[t], c>>))
  \o Mapped(DroppedTables(m), LAMBDA s : <<"table", s>>)
  \o Each(Matched(m), LAMBDA t : Mapped(Added(m, t), LAMBDA c : <<"added", t, c>>))
\* A faulty writer that uses one holding name.
HoldFirst(m, key) == HoldNames[1]
Hold(m, key) == HoldNames[CHOOSE i \in 1..Len(HoldOrder(m)) : HoldOrder(m)[i] = key]
HoldOfRemoved(m, t, c) == Hold(m, <<"column", m.tableOf[t], c>>)
HoldOfAdded(m, t, c) == Hold(m, <<"added", t, c>>)

\* A faulty writer that does not rebuild a table that only changes its name.
RebuildsChanged(m, t) ==
  \/ Added(m, t) # <<>> \/ Removed(m, t) # <<>> \/ Altered(m, t) # <<>>
  \/ \E r \in m.columns : r.table = t
  \/ \E o \in DropObjects(m, m.tableOf[t]) \cup AddObjects(m, t) : o.kind \in {"foreign key", "check"}

\* sqliteRebuilds().
Rebuilds(m, t) ==
  \/ m.tableOf[t] # t
  \/ Added(m, t) # <<>> \/ Removed(m, t) # <<>> \/ Altered(m, t) # <<>>
  \/ \E r \in m.columns : r.table = t
  \/ \E o \in DropObjects(m, m.tableOf[t]) \cup AddObjects(m, t) : o.kind \in {"foreign key", "check"}

HideColumn(d, m, t, c) ==
  LET col == ColumnOf(Source(m, t), c)
      h == HoldOfRemoved(m, t, c)
  IN  (IF col.null THEN <<>>
       ELSE <<[Step(Modify(t, [col EXCEPT !.null = TRUE]), Modify(t, col), Repeat)
                 EXCEPT !.nulls = {NullCheck(t, h, col)}]>>)
      \o <<Step(RenameColumn(t, c, h), RenameColumn(t, h, c), Present("column", t, <<h>>))>>

AddColumnStep(m, t, c) ==
  LET h == HoldOfAdded(m, t, c) IN
  [Step(AddColumn(t, ColumnOf(m.tgt[t], c)), RenameColumn(t, c, h), Present("column", t, <<c>>))
     EXCEPT !.restore = RenameColumn(t, h, c), !.cond = Present("column", t, <<h>>)]

\* MySQL alters the whole column, PostgreSQL its type, null and default one by one.
AlterColumn(d, m, t, c) ==
  LET new == ColumnOf(m.tgt[t], c)
      old == [ColumnOf(Source(m, t), OldColumn(m, t, c)) EXCEPT !.name = c]
      checks == IF ~old.null /\ new.null THEN {NullCheck(t, c, old)} ELSE {}
      typed == [old EXCEPT !.type = new.type]
      nulled == [typed EXCEPT !.null = new.null]
      undone(col) == IF PrecisionGrows(old.type, new.type) THEN None ELSE Modify(t, col)
  IN  IF d = "mysql" THEN <<[Step(Modify(t, new), undone(old), Repeat) EXCEPT !.nulls = checks]>>
      ELSE (IF old.type = new.type THEN <<>> ELSE <<Step(Modify(t, typed), undone(old), Repeat)>>)
           \o (IF old.null = new.null THEN <<>>
               ELSE <<[Step(Modify(t, nulled), Modify(t, typed), Repeat) EXCEPT !.nulls = checks]>>)
           \o (IF old.def = new.def /\ ~(new.def /\ old.type # new.type) THEN <<>>
               ELSE <<Step(Modify(t, new), Modify(t, nulled), Repeat)>>)

\* renamedSource(): the source table as the renames leave it.
RenamedSource(m, t) ==
  [Source(m, t) EXCEPT !.cols = Mapped(@, LAMBDA c : [c EXCEPT !.name = NewColumn(m, t, @)]),
                       !.key = Mapped(@, LAMBDA c : NewColumn(m, t, c)),
                       !.objs = {RenamedObject(m, t, o) : o \in @}]

Pair(to, from) == [to |-> to, from |-> from, form |-> ""]
Padded(to, form) == [to |-> to, from |-> to, form |-> form]

\* The copies of a rebuild: into the new definition, and back into the old one.
CopyKept(m, t) ==
  Each(Names(m.tgt[t]), LAMBDA c :
    IF ~Keeps(m, t, c) THEN <<>>
    ELSE IF PrecisionGrows(ColumnOf(Source(m, t), OldColumn(m, t, c)).type, ColumnOf(m.tgt[t], c).type)
    THEN <<Padded(c, ColumnOf(m.tgt[t], c).type)>>
    ELSE <<Pair(c, c)>>)
CopyIn(m, t) == CopyKept(m, t) \o Mapped(Removed(m, t), LAMBDA c : Pair(HoldOfRemoved(m, t, c), c))
CopyBack(m, t) ==
  Mapped(Names(Source(m, t)), LAMBDA s :
    LET c == NewColumn(m, t, s) IN
    Pair(c, IF s \in ToSet(Removed(m, t)) THEN HoldOfRemoved(m, t, s) ELSE c))
RebuildNulls(m, t) ==
  LET old == {c \in ToSet(Source(m, t).cols) : ~c.null}
      removed == {c \in old : c.name \in ToSet(Removed(m, t))}
      kept == {c \in old \ removed : ColumnOf(m.tgt[t], NewColumn(m, t, c.name)).null}
  IN  {NullCheck(t, HoldOfRemoved(m, t, c.name), c) : c \in removed}
      \cup {NullCheck(t, NewColumn(m, t, c.name), c) : c \in kept}

\* The definitions of a rebuild; the old one has the CHECK names that SQLite
\* leaves after a rename.
NewDef(m, t) ==
  TableDef("sqlite", m.tgt[t], RendererChecks("sqlite", t, m.tgt[t]),
           Mapped(Removed(m, t), LAMBDA c : Hidden(ColumnOf(Source(m, t), c), HoldOfRemoved(m, t, c))))

\* A faulty old definition with the CHECK names of the target.
OldDefNewNames(m, t) ==
  TableDef("sqlite", RenamedSource(m, t), RendererChecks("sqlite", t, RenamedSource(m, t)),
           Mapped(Added(m, t), LAMBDA c : Hidden(ColumnOf(m.tgt[t], c), HoldOfAdded(m, t, c))))

OldDef(m, t) ==
  TableDef("sqlite", RenamedSource(m, t),
           TypeChecks("sqlite", RenamedSource(m, t),
                      LAMBDA c : <<m.tableOf[t], IF Keeps(m, t, c) THEN OldColumn(m, t, c) ELSE c>>),
           Mapped(Added(m, t), LAMBDA c : Hidden(ColumnOf(m.tgt[t], c), HoldOfAdded(m, t, c))))

\* rebuild(): through the work table, each statement with a rollback.
Rebuild(m, t) ==
  LET added == Added(m, t)
      def == NewDef(m, t)
      all == Mapped(def.cols, LAMBDA c : Pair(c.name, c.name))
      fills == Mapped(added, LAMBDA c : Pair(c, HoldOfAdded(m, t, c)))
      saves == Mapped(added, LAMBDA c : Pair(HoldOfAdded(m, t, c), c))
      cond == IF added = <<>> THEN Repeat ELSE Present("column", t, <<HoldOfAdded(m, t, Head(added))>>)
      grows == \E c \in ToSet(CopyIn(m, t)) : c.form # ""
      ifIdentity(s) == IF \E c \in ToSet(def.cols) : c.ident THEN <<s>> ELSE <<>>
      W == RebuildTable
  IN  <<Step(Create(W, def), Drop(W), Present("table", W, <<>>))>>
      \o ifIdentity(Step(Sequence(W, t), Unsequence(W), Present("sequence", W, <<>>)))
      \o <<[Step(Copy(W, t, CopyIn(m, t)), Clear(W), Present("rows", W, <<>>)) EXCEPT
              !.restore = IF added = <<>> THEN None ELSE Copy(W, t, CopyIn(m, t) \o fills), !.cond = cond]>>
      \o Mapped(Indexes("sqlite", RenamedSource(m, t)), LAMBDA o : DropObjectStep(t, o))
      \o <<[Step(Clear(t), IF grows THEN None ELSE Copy(t, W, CopyBack(m, t)), Absent("rows", t, <<>>)) EXCEPT
              !.back = IF grows \/ added = <<>> THEN None ELSE Copy(t, W, CopyBack(m, t) \o saves),
              !.cond = cond,
              !.nulls = RebuildNulls(m, t)]>>
      \o ifIdentity(Step(Unsequence(t), Sequence(t, W), Absent("sequence", t, <<>>)))
      \o <<Step(Drop(t), Create(t, OldDef(m, t)), Absent("table", t, <<>>)),
           Step(Create(t, def), Drop(t), Present("table", t, <<>>))>>
      \o ifIdentity(Step(Sequence(t, W), Unsequence(t), Present("sequence", t, <<>>)))
      \o <<Step(Copy(t, W, all), Clear(t), Present("rows", t, <<>>)),
           Step(Clear(W), Copy(W, t, all), Absent("rows", W, <<>>))>>
      \o ifIdentity(Step(Unsequence(W), Sequence(W, t), Absent("sequence", W, <<>>)))
      \o <<Step(Drop(W), Create(W, def), Absent("table", W, <<>>))>>
      \o CreateIndexes("sqlite", t, m.tgt[t])

\* steps(), group by group.
Rebuilt(d, m, t) == d = "sqlite" /\ IsMatched(m, t) /\ Rebuilds(m, t)

TriggerDrops(d, m) ==
  Each(Matched(m), LAMBDA t :
    IF ChangesTriggers(m, t) \/ Rebuilt(d, m, t) THEN DropTriggers(d, m.tableOf[t], Source(m, t)) ELSE <<>>)
  \o Each(DroppedTables(m), LAMBDA s : DropTriggers(d, s, m.src[s]))

ForeignKeyDrops(d, m) ==
  IF d = "sqlite" THEN <<>>
  ELSE Each(Sorted(DOMAIN m.src), LAMBDA s :
         Mapped(Listed({o \in DropObjects(m, s) : o.kind = "foreign key"}), LAMBDA o : DropObjectStep(s, o)))

\* Group 3 of a source table: what changes, or all of a dropped table.
ObjectsToDrop(d, m, s) ==
  {o \in IF s \in ToSet(DroppedTables(m)) THEN m.src[s].objs
         ELSE IF Rebuilt(d, m, TargetName(m, s)) THEN {}
         ELSE DropObjects(m, s) : o.kind # "foreign key" /\ ~(d = "sqlite" /\ o.kind = "check")}
ObjectDrops(d, m) ==
  Each(Sorted(DOMAIN m.src), LAMBDA s : Mapped(Listed(ObjectsToDrop(d, m, s)), LAMBDA o : DropObjectStep(s, o)))

CheckDrops(d, m) ==
  IF d = "sqlite" THEN <<>>
  ELSE Each(Matched(m) \o DroppedTables(m), LAMBDA t :
         LET s == IF IsMatched(m, t) THEN m.tableOf[t] ELSE t
             after == IF IsMatched(m, t) THEN RendererChecks(d, t, m.tgt[t]) ELSE {}
         IN  Mapped(Listed(RendererChecks(d, s, m.src[s]) \ after), LAMBDA o : DropObjectStep(s, o)))

Renames(m) ==
  Mapped(SetToSortSeq(m.tables, LAMBDA a, b : Rank(a.old) < Rank(b.old)),
         LAMBDA r : Step(Rename(r.old, r.new), Rename(r.new, r.old), Present("table", r.new, <<>>)))
  \o Mapped(SetToSortSeq(m.columns, LAMBDA a, b : Rank(a.table) < Rank(b.table) \/ (a.table = b.table /\ Rank(a.old) < Rank(b.old))),
            LAMBDA r : Step(RenameColumn(r.table, r.old, r.new), RenameColumn(r.table, r.new, r.old),
                            Present("column", r.table, <<r.new>>)))

Hides(d, m) ==
  (IF d = "sqlite" THEN <<>> ELSE Each(Matched(m), LAMBDA t : Each(Removed(m, t), LAMBDA c : HideColumn(d, m, t, c))))
  \o Mapped(DroppedTables(m), LAMBDA s :
       LET h == Hold(m, <<"table", s>>) IN Step(Rename(s, h), Rename(h, s), Present("table", h, <<>>)))

Creates(d, m) ==
  Each(Created(m), LAMBDA t :
    <<Step(Create(t, TableDef(d, m.tgt[t], RendererChecks(d, t, m.tgt[t]), <<>>)), Drop(t), Present("table", t, <<>>))>>
    \o CreateIndexes(d, t, m.tgt[t]))

ColumnSteps(d, m) ==
  Each(Matched(m), LAMBDA t :
    IF d = "sqlite" THEN IF Rebuilds(m, t) THEN Rebuild(m, t) ELSE <<>>
    ELSE Mapped(Added(m, t), LAMBDA c : AddColumnStep(m, t, c)) \o Each(Altered(m, t), LAMBDA c : AlterColumn(d, m, t, c)))

ObjectAdds(d, m) ==
  Each(Matched(m), LAMBDA t :
    IF Rebuilt(d, m, t) THEN <<>>
    ELSE Mapped(Listed({o \in AddObjects(m, t) : o.kind # "foreign key" /\ ~(d = "sqlite" /\ o.kind = "check")}),
                LAMBDA o : AddObjectStep(t, o)))

CheckAdds(d, m) ==
  IF d = "sqlite" THEN <<>>
  ELSE Each(Matched(m), LAMBDA t :
         Mapped(Listed(RendererChecks(d, t, m.tgt[t]) \ RendererChecks(d, m.tableOf[t], Source(m, t))),
                LAMBDA o : AddObjectStep(t, o)))

ForeignKeyAdds(d, m) ==
  IF d = "sqlite" THEN <<>>
  ELSE Each(Created(m) \o Matched(m), LAMBDA t :
         LET objs == IF IsMatched(m, t) THEN AddObjects(m, t) ELSE m.tgt[t].objs IN
         Mapped(Listed({o \in objs : o.kind = "foreign key"}), LAMBDA o : AddObjectStep(t, o)))

TriggerCreates(d, m) ==
  Each(Created(m), LAMBDA t : CreateTriggers(d, t, m.tgt[t]))
  \o Each(Matched(m), LAMBDA t :
       IF ChangesTriggers(m, t) \/ Rebuilt(d, m, t) THEN CreateTriggers(d, t, m.tgt[t]) ELSE <<>>)

Finalizes(m) ==
  LET final(do, effect) == [Step(do, None, effect) EXCEPT !.final = TRUE] IN
  Each(HoldOrder(m), LAMBDA k :
    LET h == Hold(m, k) IN
    CASE k[1] = "column" -> <<final(DropColumn(TargetName(m, k[2]), h), Absent("column", TargetName(m, k[2]), <<h>>))>>
      [] k[1] = "table" -> <<final(Drop(h), Absent("table", h, <<>>))>>
      [] k[1] = "added" -> <<>>)

WrittenSteps(d, m) ==
  TriggerDrops(d, m) \o ForeignKeyDrops(d, m) \o ObjectDrops(d, m) \o CheckDrops(d, m) \o Renames(m) \o Hides(d, m)
  \o Creates(d, m) \o ColumnSteps(d, m) \o ObjectAdds(d, m) \o CheckAdds(d, m) \o ForeignKeyAdds(d, m)
  \o TriggerCreates(d, m) \o Finalizes(m)

-----------------------------------------------------------------------------
(* The database.  A value mark is <<from, column, form>>; the form tells   *)
(* the SQLite text of a time, whose CHECK wants the digits of the type.    *)

NullMark == <<"", "null", "">>
DefaultMark(c) == <<"", "default", c.type>>
Unset(c) == IF c.def THEN DefaultMark(c) ELSE NullMark

Timed(type) == type \in {"time0", "time3"}
FitsColumn(d, c, v) ==
  /\ v = NullMark => c.null
  /\ d = "sqlite" /\ Timed(c.type) /\ v # NullMark => v[3] = c.type

Tables(db) == DOMAIN db.tables
Objects(db) == UNION {{[table |-> t, obj |-> o] : o \in db.tables[t].objs} : t \in Tables(db)}
WithTable(db, t, def) == [db EXCEPT !.tables = (t :> def) @@ @]
WithoutTable(db, t) == [db EXCEPT !.tables = [u \in Tables(db) \ {t} |-> db.tables[u]]]
WithColumns(db, t, Op(_)) == [db EXCEPT !.tables[t].cols = Mapped(@, Op)]

\* Where a second object of the kind and name would collide.
Scope(d, t, kind) ==
  CASE kind \in {"unique", "index"} -> IF d = "mysql" THEN "table" ELSE "schema"
    [] OTHER -> IF d = "mysql" THEN "schema" ELSE IF d = "postgres" THEN "table" ELSE "none"
SameSpace(a, b) == a = b \/ {a, b} \subseteq {"unique", "index"} \/ {a, b} \subseteq {"check", "type check"}
NameFree(d, db, t, o) ==
  \A x \in Objects(db) :
    x.obj.name = o.name /\ SameSpace(x.obj.kind, o.kind) =>
      CASE Scope(d, t, o.kind) = "schema" -> FALSE
        [] Scope(d, t, o.kind) = "table" -> x.table # t
        [] OTHER -> TRUE

\* The keys of a table, without the object o.
KeysBut(db, t, o) == {db.tables[t].key} \cup {x.cols : x \in {x \in db.tables[t].objs \ {o} : IsKey(x)}}
Leads(cols, keys) == \E k \in keys : IsPrefix(cols, k)
ForeignKeys(db) == {x \in Objects(db) : x.obj.kind = "foreign key"}

\* MySQL keeps an index that a foreign key needs on either side, PostgreSQL a
\* unique key that one references.
Needed(d, db, t, o) ==
  \/ /\ d = "mysql"
     /\ \E f \in ForeignKeys(db) :
          \/ f.table = t /\ IsPrefix(f.obj.cols, o.cols) /\ ~Leads(f.obj.cols, KeysBut(db, t, o))
          \/ f.obj.table = t /\ IsPrefix(f.obj.refs, o.cols) /\ ~Leads(f.obj.refs, KeysBut(db, t, o))
  \/ /\ d = "postgres" /\ o.kind = "unique"
     /\ \E f \in ForeignKeys(db) :
          f.obj.table = t /\ f.obj.refs = o.cols
          /\ f.obj.refs \notin {db.tables[t].key} \cup {x.cols : x \in {x \in db.tables[t].objs \ {o} : x.kind = "unique"}}

UsesColumn(db, t, c, kinds) ==
  \E x \in Objects(db) : x.obj.kind \in kinds /\ (\/ x.table = t /\ c \in ToSet(x.obj.cols)
                                                  \/ x.obj.table = t /\ c \in ToSet(x.obj.refs))

\* The rows of table from as the copy writes them into table t.
CopiedValues(db, s, c) ==
  LET rows == db.tables[s.from].rows
      p == {p \in ToSet(s.pairs) : p.to = c.name}
  IN  IF ~rows THEN {}
      ELSE IF p = {} THEN {Unset(c)}
      ELSE LET q == CHOOSE q \in p : TRUE
               vals == ColumnOf(db.tables[s.from], q.from).val
           IN  IF q.form = "" THEN vals
               ELSE {IF v = NullMark THEN v ELSE <<v[1], v[2], q.form>> : v \in vals}

Accepts(d, s, db) ==
  LET t == IF s.op \in {"create trigger", "drop trigger", "create function", "drop function"} THEN s.trigger.table ELSE s.table
      there == t \in Tables(db)
      T == db.tables[t]
  IN
  CASE s.op = "create" -> ~there /\ \A o \in s.def.objs : NameFree(d, db, t, o)
    [] s.op = "drop" -> there /\ (d # "sqlite" => ~\E f \in ForeignKeys(db) : f.table # t /\ f.obj.table = t)
    [] s.op = "rename" -> there /\ s.to \notin Tables(db)
    [] s.op = "rename column" ->
         /\ there /\ HasColumn(T, s.col) /\ ~HasColumn(T, s.to)
         /\ d = "mysql" => ~UsesColumn(db, t, s.col, {"check", "type check"})
    [] s.op = "add column" -> there /\ ~HasColumn(T, s.def.name) /\ (T.rows => FitsColumn(d, s.def, Unset(s.def)))
    [] s.op = "drop column" -> there /\ HasColumn(T, s.col) /\ ~UsesColumn(db, t, s.col, {"unique", "index", "foreign key", "check", "type check"})
    [] s.op = "modify" ->
         /\ there /\ HasColumn(T, s.col)
         /\ NullMark \in ColumnOf(T, s.col).val => s.null
         /\ d = "mysql" /\ ColumnOf(T, s.col).type # s.type => ~UsesColumn(db, t, s.col, {"foreign key"})
    [] s.op = "add object" ->
         /\ there /\ NameFree(d, db, t, s.obj) /\ \A c \in ToSet(s.obj.cols) : HasColumn(T, c)
         /\ s.obj.kind = "foreign key" =>
              /\ s.obj.table \in Tables(db)
              /\ Leads(s.obj.refs, KeysBut(db, s.obj.table, s.obj))
              /\ d = "mysql" => Leads(s.obj.cols, KeysBut(db, t, s.obj))
    [] s.op = "drop object" -> there /\ s.obj.name \in {o.name : o \in T.objs} /\ ~(IsKey(s.obj) /\ Needed(d, db, t, s.obj))
    [] s.op = "create trigger" -> there /\ s.trigger.name \notin {g.name : g \in db.triggers} /\ (d = "postgres" => s.trigger.name \in db.functions)
    [] s.op = "drop trigger" -> s.trigger.name \in {g.name : g \in db.triggers}
    [] s.op = "create function" -> s.trigger.name \notin db.functions
    [] s.op = "drop function" -> s.trigger.name \in db.functions /\ s.trigger.name \notin {g.name : g \in db.triggers}
    [] s.op = "copy" -> there /\ ~T.rows /\ s.from \in Tables(db) /\ (\A p \in ToSet(s.pairs) : HasColumn(db.tables[s.from], p.from) /\ HasColumn(T, p.to))
                        /\ \A c \in ToSet(T.cols) : \A v \in CopiedValues(db, s, c) : FitsColumn(d, c, v)
    [] s.op \in {"clear", "sequence", "unsequence"} -> TRUE

\* A rename carries the foreign keys of other tables along.
Renaming(db, t, to) ==
  LET named(u) == IF u = t THEN to ELSE u
      moved(u) == IF u = to THEN t ELSE u
      renamed(o) == [o EXCEPT !.table = named(@)]
  IN  [db EXCEPT !.tables = [u \in {named(v) : v \in Tables(db)} |->
                               [db.tables[moved(u)] EXCEPT !.objs = {renamed(o) : o \in @}]],
                 !.triggers = {[g EXCEPT !.table = named(@)] : g \in @},
                 !.counters = [u \in {named(v) : v \in DOMAIN @} |-> @[moved(u)]]]
RenamingColumn(db, t, c, to) ==
  LET named(x) == IF x = c THEN to ELSE x
      renamed(u, o) == [o EXCEPT !.cols = IF u = t THEN Mapped(@, named) ELSE @,
                                 !.refs = IF o.table = t THEN Mapped(@, named) ELSE @]
  IN  [db EXCEPT !.tables = [u \in Tables(db) |->
         [db.tables[u] EXCEPT !.objs = {renamed(u, o) : o \in @},
                              !.key = IF u = t THEN Mapped(@, named) ELSE @,
                              !.cols = IF u = t THEN Mapped(@, LAMBDA x : [x EXCEPT !.name = named(@)]) ELSE @]]]

\* The counter of SQLite's automatic keys: a copy gives a table without one only
\* the largest key of its rows.
Counted(db, t) ==
  IF db.tables[t].rows /\ (\E c \in ToSet(db.tables[t].cols) : c.ident) /\ t \notin DOMAIN db.counters
  THEN [db EXCEPT !.counters = (t :> "low") @@ @] ELSE db

Without(f, x) == [y \in DOMAIN f \ {x} |-> f[y]]

Exec(s, db) ==
  CASE s.op = "create" -> WithTable(db, s.table, s.def)
    [] s.op = "drop" -> [WithoutTable(db, s.table) EXCEPT !.counters = Without(@, s.table), !.triggers = {g \in @ : g.table # s.table}]
    [] s.op = "rename" -> Renaming(db, s.table, s.to)
    [] s.op = "rename column" -> RenamingColumn(db, s.table, s.col, s.to)
    [] s.op = "add column" ->
         [db EXCEPT !.tables[s.table].cols = Append(@, Stored(s.def, IF db.tables[s.table].rows THEN {Unset(s.def)} ELSE {}))]
    [] s.op = "drop column" -> [db EXCEPT !.tables[s.table].cols = SelectSeq(@, LAMBDA c : c.name # s.col)]
    [] s.op = "modify" ->
         WithColumns(db, s.table, LAMBDA c :
           IF c.name = s.col THEN [c EXCEPT !.type = s.type, !.null = s.null, !.def = s.def] ELSE c)
    [] s.op = "add object" -> [db EXCEPT !.tables[s.table].objs = @ \cup {s.obj}]
    [] s.op = "drop object" -> [db EXCEPT !.tables[s.table].objs = {o \in @ : o.name # s.obj.name}]
    [] s.op = "create trigger" -> [db EXCEPT !.triggers = @ \cup {s.trigger}]
    [] s.op = "drop trigger" -> [db EXCEPT !.triggers = {g \in @ : g.name # s.trigger.name}]
    [] s.op = "create function" -> [db EXCEPT !.functions = @ \cup {s.trigger.name}]
    [] s.op = "drop function" -> [db EXCEPT !.functions = @ \ {s.trigger.name}]
    [] s.op = "copy" ->
         Counted([db EXCEPT !.tables[s.table].cols = Mapped(@, LAMBDA c : [c EXCEPT !.val = CopiedValues(db, s, c)]),
                            !.tables[s.table].rows = db.tables[s.from].rows], s.table)
    [] s.op = "clear" ->
         [WithColumns(db, s.table, LAMBDA c : [c EXCEPT !.val = {}]) EXCEPT !.tables[s.table].rows = FALSE]
    [] s.op = "sequence" ->
         IF s.from \in DOMAIN db.counters THEN [db EXCEPT !.counters = (s.table :> @[s.from]) @@ @] ELSE db
    [] s.op = "unsequence" -> [db EXCEPT !.counters = Without(@, s.table)]

\* The queries for an effect.
Holds(e, db) ==
  LET there == e.table \in Tables(db)
      found == CASE e.kind = "table" -> there
                 [] e.kind = "column" -> there /\ HasColumn(db.tables[e.table], e.name[1])
                 [] e.kind = "object" -> there /\ e.name \in {o.name : o \in db.tables[e.table].objs}
                 [] e.kind = "trigger" -> e.name \in {g.name : g \in db.triggers}
                 [] e.kind = "function" -> e.name \in db.functions
                 [] e.kind = "sequence" -> e.table \in DOMAIN db.counters
                 [] e.kind = "rows" -> there /\ db.tables[e.table].rows
                 [] e.kind = "repeat" -> TRUE
  IN  found = e.present

\* The database of a schema whose tables have rows, with the marks of its columns.
Installed(d, S, nulls) ==
  LET marks(t, c) == {<<t, c.name, c.type>>} \cup (IF nulls /\ c.null THEN {NullMark} ELSE {})
      all(t) == S[t].objs \cup RendererChecks(d, t, S[t])
      gs == UNION {ToSet(Triggers(t, S[t])) : t \in DOMAIN S}
  IN  [tables |-> [t \in DOMAIN S |->
                     [cols |-> Mapped(S[t].cols, LAMBDA c : Stored(c, marks(t, c))), key |-> S[t].key, objs |-> all(t), rows |-> TRUE]],
       triggers |-> gs,
       functions |-> IF d = "postgres" THEN {g.name : g \in gs} ELSE {},
       counters |-> IF d = "sqlite" THEN [t \in {t \in DOMAIN S : \E c \in ToSet(S[t].cols) : c.ident} |-> "high"] ELSE <<>>]

-----------------------------------------------------------------------------
(* A plan applied, interrupted, rolled back, applied again and finalized.  *)
(* What runs when is the commands' part (PlanApply); here is the plan's.   *)

VARIABLES
  plan, dialect,
  nulls,     \* the nullable columns of the source hold NULLs
  db,
  steps,     \* the steps of the plan
  k,         \* the number of steps in effect
  mode,      \* what the commands do
  rounds,    \* the rollbacks that ended
  wrote      \* the application wrote rows under the target schema

vars == <<plan, dialect, nulls, db, steps, k, mode, rounds, wrote>>

Init ==
  /\ plan \in Plans /\ dialect \in Dialects /\ nulls \in BOOLEAN
  /\ db = Installed(dialect, SourceOf(plan), nulls)
  /\ steps = <<>> /\ k = 0 /\ mode = "new" /\ rounds = 0 /\ wrote = FALSE

Match == Matching(SourceOf(plan), TargetOf(plan), HeaderOf(plan))
FinalizeStart == Cardinality({i \in 1..Len(steps) : ~steps[i].final})

\* planSteps().
PlanStepsMade ==
  /\ mode = "new"
  /\ LET m == Match IN
     IF Diags(m, HeaderOf(plan)) # {} THEN mode' = "invalid" /\ UNCHANGED steps
     ELSE mode' = "up" /\ steps' = WrittenSteps(dialect, m)
  /\ UNCHANGED <<plan, dialect, nulls, db, k, rounds, wrote>>

Run(s, next, to) ==
  IF Accepts(dialect, s, db) THEN db' = Exec(s, db) /\ k' = next /\ mode' = to
  ELSE UNCHANGED <<db, k>> /\ mode' = "refused"

\* forward(): the restore statement of a step runs instead when its column is there.
Forward ==
  /\ mode = "up" /\ k < FinalizeStart
  /\ LET s == steps[k + 1] IN
     Run(IF s.restore # None /\ Holds(s.cond, db) THEN s.restore ELSE s.do, k + 1, "up")
  /\ UNCHANGED <<plan, dialect, nulls, steps, rounds, wrote>>

Apply ==
  /\ mode = "up" /\ k = FinalizeStart
  /\ mode' = "applied"
  /\ UNCHANGED <<plan, dialect, nulls, db, steps, k, rounds, wrote>>

\* The application writes rows: a hidden column gets its default or NULL.
Write ==
  /\ mode = "applied" /\ ~wrote
  /\ wrote' = TRUE
  /\ db' = [db EXCEPT !.tables = [t \in Tables(db) |->
       IF IsHidden(t) THEN db.tables[t]
       ELSE [db.tables[t] EXCEPT !.rows = TRUE,
               !.cols = Mapped(@, LAMBDA c :
                 [c EXCEPT !.val = @ \cup {IF IsHidden(c.name) THEN Unset(c) ELSE <<"written", c.name, c.type>>}])]]]
  /\ UNCHANGED <<plan, dialect, nulls, steps, k, mode, rounds>>

HasNulls(c) == NullMark \in ColumnOf(db.tables[c.table], c.col).val
NullChecks == UNION {steps[i].nulls : i \in 1..Len(steps)}

\* nullChecks(): before an applied plan is rolled back, the columns that become
\* non-null get their default, or the rollback does not start.
Fill(c) == [c EXCEPT !.val = {IF v = NullMark THEN DefaultMark(c) ELSE v : v \in @}]
RollBackApplied ==
  /\ mode = "applied" /\ rounds < MaxRounds
  /\ \A c \in NullChecks : HasNulls(c) => c.def
  /\ db' = [db EXCEPT !.tables = [t \in Tables(db) |->
              [db.tables[t] EXCEPT !.cols = Mapped(@, LAMBDA x :
                 IF \E c \in NullChecks : c.table = t /\ c.col = x.name THEN Fill(x) ELSE x)]]]
  /\ mode' = "down"
  /\ UNCHANGED <<plan, dialect, nulls, steps, k, rounds, wrote>>

\* An interrupted plan is rolled back where it stopped.
RollBackInterrupted ==
  /\ mode \in {"up", "refused"} /\ k > 0 /\ rounds < MaxRounds
  /\ mode' = "down"
  /\ UNCHANGED <<plan, dialect, nulls, db, steps, k, rounds, wrote>>

Back ==
  /\ mode = "down" /\ k > 0
  /\ LET s == steps[k] IN
     IF s.undo = None THEN mode' = "irreversible" /\ UNCHANGED <<db, k>>
     ELSE Run(IF s.back # None /\ Holds(s.cond, db) THEN s.back ELSE s.undo, k - 1, "down")
  /\ UNCHANGED <<plan, dialect, nulls, steps, rounds, wrote>>

\* A rollback that ended: the chain may be applied again.
RolledBack ==
  /\ mode = "down" /\ k = 0
  /\ mode' = "up" /\ rounds' = rounds + 1
  /\ UNCHANGED <<plan, dialect, nulls, db, steps, k, wrote>>

Finalize ==
  /\ mode \in {"applied", "finalizing"} /\ k < Len(steps)
  /\ Run(steps[k + 1].do, k + 1, "finalizing")
  /\ UNCHANGED <<plan, dialect, nulls, steps, rounds, wrote>>

Next ==
  \/ PlanStepsMade
  \/ Forward
  \/ Apply
  \/ Write
  \/ RollBackApplied
  \/ RollBackInterrupted
  \/ Back
  \/ RolledBack
  \/ Finalize

Spec == Init /\ [][Next]_vars

-----------------------------------------------------------------------------
(* Properties.                                                             *)

Shown(cols) == SelectSeq(Mapped(cols, LAMBDA c : Stored(c, {})), LAMBDA c : ~IsHidden(c.name))
Schema(x) ==
  [tables |-> [t \in {t \in Tables(x) : ~IsHidden(t)} |->
                 [cols |-> Shown(x.tables[t].cols), key |-> x.tables[t].key, objs |-> x.tables[t].objs]],
   triggers |-> x.triggers, functions |-> x.functions]
Rendered(S) == Schema(Installed(dialect, S, FALSE))

\* The column c of table t holds the values of the source's column.
Holding(t, c, s, sc) == \E v \in ColumnOf(db.tables[t], c).val : v[1] = s /\ v[2] = sc
CounterKept(t) == dialect = "sqlite" /\ (\E c \in ToSet(db.tables[t].cols) : c.ident) => t \in DOMAIN db.counters /\ db.counters[t] = "high"

\* Types of a walk: no table has two columns of one name, and no more steps are in
\* effect than there are.
TypeOK ==
  /\ \A t \in Tables(db) : IsInjective(Names(db.tables[t]))
  /\ plan \in Plans /\ dialect \in Dialects /\ {nulls, wrote} \subseteq BOOLEAN
  /\ k \in 0..Len(steps) /\ rounds \in 0..MaxRounds
  /\ mode \in {"new", "invalid", "up", "refused", "applied", "down", "irreversible", "finalizing"}

\* docs/spec/plans.md:28: the plan's to hash is the schemaHash of its target.  The
\* steps lead to exactly the target schema, each kept column with the values of
\* its source column, and SQLite's key counters do not fall back; after finalize
\* nothing hidden is left.
AppliedIsTarget ==
  mode \in {"applied", "finalizing"} =>
    /\ Schema(db) = Rendered(TargetOf(plan))
    /\ LET m == Match IN
       \A t \in DOMAIN m.tableOf :
         /\ CounterKept(t)
         /\ \A c \in ToSet(Names(m.tgt[t])) : Keeps(m, t, c) => Holding(t, c, m.tableOf[t], OldColumn(m, t, c))
    /\ k = Len(steps) => \A t \in Tables(db) : ~IsHidden(t) /\ \A c \in ToSet(Names(db.tables[t])) : ~IsHidden(c)

\* docs/spec/plans.md:81: a rollback statement "undoes exactly what the statement
\* did".  A plan that is rolled back from any step leaves the source schema and
\* its values.
RolledBackIsSource ==
  mode \in {"down", "up"} /\ k = 0 =>
    /\ Schema(db) = Rendered(SourceOf(plan))
    /\ \A t \in DOMAIN SourceOf(plan) :
         /\ CounterKept(t)
         /\ \A c \in ToSet(Names(SourceOf(plan)[t])) : Holding(t, c, t, c)

\* docs/spec/plans.md:101: "A plan never destroys data before its finalize steps".
\* At every step some column holds the values of each source column, and the
\* values written to each column of the target, also after a rollback.
NothingDestroyed ==
  LET marks == UNION {UNION {{<<v[1], v[2]>> : v \in c.val} : c \in ToSet(db.tables[t].cols)} : t \in Tables(db)}
      kept(t) == IF t \in DOMAIN SourceOf(plan) THEN ToSet(Names(SourceOf(plan)[t])) ELSE {}
      m == Match
  IN  mode # "finalizing" =>
        /\ \A t \in DOMAIN SourceOf(plan) : \A c \in kept(t) : <<t, c>> \in marks
        /\ wrote => \A t \in DOMAIN m.tableOf : \A c \in ToSet(Names(m.tgt[t])) : <<"written", c>> \in marks

\* docs/spec/plans.md:81: the effect "tells whether the statement took effect".
\* Recovery reads it after a crash: the effect of the last step is there and the
\* effect of the next one is not.
EffectsTell ==
  mode \in {"up", "down"} =>
    /\ k > 0 /\ steps[k].effect # Repeat => Holds(steps[k].effect, db)
    /\ k < FinalizeStart /\ steps[k + 1].effect # Repeat => ~Holds(steps[k + 1].effect, db)

\* The plans whose statements a server may refuse: one that makes a column with
\* NULLs non-null, one that replaces a unique key that a foreign key references,
\* and one that moves the name of an index to another table.
Tightens(m) ==
  \E t \in DOMAIN m.tableOf : \E c \in ToSet(Altered(m, t)) :
    ColumnOf(Source(m, t), OldColumn(m, t, c)).null /\ ~ColumnOf(m.tgt[t], c).null
ReplacesReferencedKey(m) ==
  \E t \in DOMAIN m.tableOf, s \in DOMAIN m.src : \E o \in DropObjects(m, m.tableOf[t]), f \in m.src[s].objs :
    o.kind = "unique" /\ f.kind = "foreign key" /\ f.table = m.tableOf[t] /\ f.refs = o.cols
MovesIndex(m) ==
  \E s \in DOMAIN m.src, t \in DOMAIN m.tgt : \E o \in m.src[s].objs, n \in m.tgt[t].objs :
    IsKey(o) /\ IsKey(n) /\ o.name = n.name /\ t # TargetName(m, s)

\* A server accepts every statement of the steps and of their rollbacks where the
\* walk runs them: names are free, keys that foreign keys need are there, columns
\* that become non-null hold no NULL.
StatementsAccepted ==
  mode = "refused" => (nulls /\ Tightens(Match)) \/ ReplacesReferencedKey(Match) \/ MovesIndex(Match)

=============================================================================
