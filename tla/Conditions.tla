----------------------------- MODULE Conditions -----------------------------
(***************************************************************************)
(* The conditions of a query, from the calls on a model to the rows of its *)
(* statement.  Core and CondGroup of core.ts collect conditions, groups    *)
(* and the place of a joined model's conditions; BuiltRequest makes the    *)
(* request; the Validator of validate.ts checks it; the Planner of         *)
(* planner.ts renders it.  SQL text is a list of terms with connectors,    *)
(* where a group in parentheses is one term and a group without them is    *)
(* part of the list around it; AND binds tighter than OR.                  *)
(***************************************************************************)
EXTENDS Integers, Sequences, FiniteSets, SequencesExt

CONSTANTS
  Atoms,       \* the conditions on a column, whose truth a row decides
  MaxCalls,    \* bound on the calls on the model
  Queries      \* the queries: their kind ("root", "relation", "sub"), their join
               \* ("none", "inner", "left"), and the ON and WHERE of the joined model

Pred(c, a) == [conn |-> c, kind |-> "pred", atom |-> a, not |-> FALSE, items |-> <<>>]
Nested(c, n, is) == [conn |-> c, kind |-> "group", atom |-> "", not |-> n, items |-> is]
Joined(c) == [conn |-> c, kind |-> "joined", atom |-> "", not |-> FALSE, items |-> <<>>]

VARIABLES
  query,     \* the query
  stack,     \* the model and the open group callbacks, innermost last
  calls,
  failed,    \* a call has failed
  request    \* what the terminal built

vars == <<query, stack, calls, failed, request>>

kind == query.kind
join == query.join
on == query.on
childWhere == query.where

\* A Core with its CondGroup; conn and not are those of the callback's group.
Frame(c, n) == [items |-> <<>>, pending |-> "", error |-> FALSE, conn |-> c, not |-> n]
NoRequest == [built |-> FALSE, where |-> <<>>]

Init ==
  /\ query \in Queries
  /\ stack = <<Frame("", FALSE)>>
  /\ calls = 0 /\ failed = FALSE /\ request = NoRequest

Top == Last(stack)
Fail(f) == [f EXCEPT !.error = TRUE]

\* A faulty add() that keeps the connector of the first condition.
AddKeeping(f, c, node) ==
  IF f.pending # "" /\ c # "" THEN Fail(f)
  ELSE LET conn == IF f.pending # "" THEN f.pending ELSE c IN
       IF f.items # <<>> /\ conn = "" THEN Fail([f EXCEPT !.pending = ""])
       ELSE [f EXCEPT !.pending = "", !.items = Append(@, [node EXCEPT !.conn = conn])]

\* CondGroup.add(): a pending connector takes the place of an empty one, the first
\* condition has none, and any other condition needs one.
Add(f, c, node) ==
  IF f.pending # "" /\ c # "" THEN Fail(f)
  ELSE LET conn == IF f.items = <<>> THEN "" ELSE IF f.pending # "" THEN f.pending ELSE c IN
       IF f.items # <<>> /\ conn = "" THEN Fail([f EXCEPT !.pending = ""])
       ELSE [f EXCEPT !.pending = "", !.items = Append(@, [node EXCEPT !.conn = conn])]

Call(s, bad) ==
  /\ ~request.built /\ calls < MaxCalls
  /\ calls' = calls + 1
  /\ stack' = s
  /\ failed' = (failed \/ bad)
  /\ UNCHANGED <<query, request>>

Replace(f) == Call(Append(Front(stack), f), f.error)

\* and() or or() without an argument.
Connector(c) == Replace(IF Top.pending # "" THEN Fail(Top) ELSE [Top EXCEPT !.pending = c])

\* A condition method: whereChain(), whose predicate() may refuse its value.
Where(c, a) == Replace(Add(Top, c, Pred(c, a)))
RefusedWhere == Replace(Fail(Top))

\* and(model) or or(model): places the conditions of the joined model.
Place(c) == Replace(Add(Top, c, Joined(c)))

\* and(fn), or(fn), not(fn), andNot(fn), orNot(fn): the callback starts.
Open(c, n) ==
  /\ c # "" \/ n
  /\ Call(Append(stack, Frame(c, n)), FALSE)

\* A faulty addGroup() that drops the error of the callback's model.
AddGroupDropping(f, g) ==
  IF g.items = <<>> \/ g.pending # "" THEN Fail(f) ELSE Add(f, g.conn, Nested(g.conn, g.not, g.items))

\* addGroup(), with the CondGroup of the callback.
AddGroup(f, g) ==
  IF g.error \/ g.items = <<>> \/ g.pending # "" THEN Fail(f) ELSE Add(f, g.conn, Nested(g.conn, g.not, g.items))

\* The callback returns.
Close ==
  /\ Len(stack) > 1 /\ ~request.built
  /\ LET f == AddGroup(stack[Len(stack) - 1], Top) IN
     /\ stack' = Append(SubSeq(stack, 1, Len(stack) - 2), f)
     /\ failed' = (failed \/ f.error)
  /\ UNCHANGED <<query, calls, request>>

-----------------------------------------------------------------------------
(* The request and its checks.                                             *)

RECURSIVE Placed(_)
\* How often a group places the joined model's conditions (placedJoins).
Placed(items) ==
  IF items = <<>> THEN 0
  ELSE LET it == Head(items) IN
       (IF it.kind = "joined" THEN 1 ELSE Placed(it.items)) + Placed(Tail(items))

\* BuiltRequest.query() and group() refuse an unfinished connector and a place of
\* conditions that no joined model has, or a second place.
Builds(f) ==
  /\ ~f.error /\ f.pending = ""
  /\ Placed(f.items) > 0 => join # "none" /\ childWhere # <<>> /\ Placed(f.items) = 1

\* gets() and its like, and getBy() with a further condition on a copy (by()).
Build(by) ==
  /\ Len(stack) = 1 /\ ~request.built
  /\ LET f == IF by = "" THEN Top ELSE Add(Top, IF Top.items # <<>> THEN "and" ELSE "", Pred("", by)) IN
     /\ Builds(f)
     /\ request' = [built |-> TRUE, where |-> f.items]
  /\ UNCHANGED <<query, stack, calls, failed>>

Next ==
  \/ \E c \in {"and", "or"} : Connector(c) \/ Place(c)
  \/ \E c \in {"", "and", "or"}, a \in Atoms : Where(c, a)
  \/ RefusedWhere
  \/ \E c \in {"", "and", "or"}, n \in BOOLEAN : Open(c, n)
  \/ Close
  \/ \E by \in Atoms \cup {""} : Build(by)

Spec == Init /\ [][Next]_vars

RECURSIVE Accepts(_)
\* Validator.group(): the first item has no connector and a group has items.
Accepts(items) ==
  \A i \in DOMAIN items :
    /\ items[i].conn \in {"", "and", "or"}
    /\ i = 1 => items[i].conn = ""
    /\ items[i].kind = "joined" => join # "none" /\ childWhere # <<>>
    /\ items[i].kind = "group" => items[i].items # <<>> /\ Accepts(items[i].items)

-----------------------------------------------------------------------------
(* The statement.  A term is a condition on a row of the query's table or  *)
(* of the joined one, or a group in parentheses.                           *)

Term(c, of, a) == [conn |-> c, of |-> of, atom |-> a, not |-> FALSE, list |-> <<>>]
Paren(c, n, l) == [conn |-> c, of |-> "paren", atom |-> "", not |-> n, list |-> l]

RECURSIVE RenderItems(_, _)
\* A faulty renderGroup() that writes no parentheses around a nested group.
RenderItemsBare(of, items) ==
  FlattenSeq([i \in DOMAIN items |->
    LET it == items[i] c == IF it.conn = "or" THEN "or" ELSE "and" IN
    IF it.kind = "pred" THEN <<Term(c, of, it.atom)>>
    ELSE LET l == IF it.kind = "joined" THEN RenderItems("child", childWhere) ELSE RenderItems(of, it.items) IN
         <<[Head(l) EXCEPT !.conn = c]>> \o Tail(l)])

\* renderGroup() without its outer parentheses.
RenderItems(of, items) ==
  [i \in DOMAIN items |->
    LET it == items[i] c == IF it.conn = "or" THEN "or" ELSE "and" IN
    IF it.kind = "pred" THEN Term(c, of, it.atom)
    ELSE IF it.kind = "joined" THEN Paren(c, FALSE, RenderItems("child", childWhere))
    ELSE Paren(c, it.not, RenderItems(of, it.items))]

RenderGroup(of, items, top) ==
  IF top THEN RenderItems(of, items) ELSE <<Paren("and", FALSE, RenderItems(of, items))>>

\* where.join(' AND ')
JoinAnd(lists) ==
  FlattenSeq([i \in DOMAIN lists |->
    IF lists[i] = <<>> THEN <<>> ELSE <<[Head(lists[i]) EXCEPT !.conn = "and"]>> \o Tail(lists[i])])

\* The ON of the join (renderJoins).
OnList == JoinAnd(<< <<Term("and", "child", "meets")>>, <<Term("and", "child", "alive")>>, RenderGroup("child", on, TRUE) >>)

\* The WHERE of selectStep() and subSelect(), with collectJoinWhere().
WhereList ==
  LET where == request.where IN
  JoinAnd(<<
    IF kind = "relation" THEN <<Term("and", "root", "parent")>> ELSE <<>>,
    <<Term("and", "root", "alive")>>,
    IF where = <<>> THEN <<>> ELSE RenderGroup("root", where, kind # "relation"),
    IF childWhere = <<>> \/ Placed(where) > 0 THEN <<>> ELSE RenderGroup("child", childWhere, FALSE) >>)

RECURSIVE Holds(_, _, _)
\* SQL's meaning of a list: one of the runs between OR holds in all its terms.
Holds(list, root, child) ==
  LET is(t) == CASE t.of = "root" -> root[t.atom]
                 [] t.of = "child" -> child[t.atom]
                 [] OTHER -> (Holds(t.list, root, child) # t.not) IN
  \E i \in DOMAIN list :
    /\ i = 1 \/ list[i].conn = "or"
    /\ \A j \in i..Len(list) : (\A k \in (i + 1)..j : list[k].conn = "and") => is(list[j])

RowsOf(more) == [Atoms \cup {"alive", more} -> BOOLEAN]
NullChild == [a \in Atoms \cup {"alive", "meets"} |-> FALSE]

\* Whether the statement returns a root row when the joined table has one row.
Returned(whereHolds(_, _), onHolds(_), root, child) ==
  CASE join = "none" -> whereHolds(root, NullChild)
    [] join = "inner" -> onHolds(child) /\ whereHolds(root, child)
    [] OTHER -> whereHolds(root, IF onHolds(child) THEN child ELSE NullChild)

Selected(root, child) ==
  LET w(r, c) == Holds(WhereList, r, c)
      o(c) == Holds(OnList, root, c) IN
  Returned(w, o, root, child)

-----------------------------------------------------------------------------
(* The meaning of the calls, and the properties.                           *)

\* What the calls say: the row is not deleted, belongs to the parent of a relation
\* step, and satisfies the model's conditions and the joined model's.
Meant(root, child) ==
  LET w(r, c) ==
        /\ r["alive"] /\ (kind = "relation" => r["parent"])
        /\ request.where = <<>> \/ Holds(RenderItems("root", request.where), r, c)
        /\ childWhere = <<>> \/ Placed(request.where) > 0 \/ Holds(RenderItems("child", childWhere), r, c)
      o(c) == c["meets"] /\ c["alive"] /\ (on = <<>> \/ Holds(RenderItems("child", on), root, c)) IN
  Returned(w, o, root, child)

HasOr(items) == \E i \in DOMAIN items : items[i].conn = "or"

\* Types; each open callback is a group, and the model itself is none.
TypeOK ==
  /\ Len(stack) >= 1 /\ Head(stack).conn = "" /\ ~Head(stack).not
  /\ \A i \in DOMAIN stack : stack[i].pending \in {"", "and", "or"} /\ stack[i].error \in BOOLEAN
  /\ calls \in 0..MaxCalls /\ failed \in BOOLEAN /\ request.built \in BOOLEAN

\* The validator accepts the groups of every request that core.ts builds: whatever
\* the order of connectors, groups and placed joins, no item lacks or has a
\* connector against its rules.
BuiltIsAccepted == request.built => Accepts(request.where)

\* A call that failed, in whatever group callback, is never followed by a request:
\* the terminal reports its error.
NoErrorLost == request.built => ~failed

\* The rows of the statement are those that the calls mean, for a relation step
\* and for a query whose own conditions and ON conditions are joined by AND
\* outside groups.
ReadsAsMeant ==
  request.built /\ (kind = "relation" \/ ~HasOr(request.where)) /\ ~HasOr(on) =>
    \A root \in RowsOf("parent"), child \in RowsOf("meets") : Selected(root, child) = Meant(root, child)

\* docs/spec/dbspec.md:222: "Reads exclude rows whose nullable `datetime` column is
\* not null, in the root, each join child".
ReadsExcludeDeleted ==
  request.built => \A root \in RowsOf("parent"), child \in RowsOf("meets") :
    Selected(root, child) => root["alive"]
=============================================================================
