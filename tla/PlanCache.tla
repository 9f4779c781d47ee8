------------------------------ MODULE PlanCache ------------------------------
(***************************************************************************)
(* The plan cache of a connection (plan(), hooked() and args() of          *)
(* database.ts, canonicalize() of engine/canonical.ts, Engine.compile()).  *)
(* A request is brought into its canonical form, which gives each          *)
(* parameter reference a slot of its own and pads IN lists; the plan of    *)
(* that form is kept and serves every later request with the same form,    *)
(* whose values are bound through the slots of the plan.                   *)
(***************************************************************************)
EXTENDS Integers, Sequences, FiniteSets, SequencesExt, FiniteSetsExt

CONSTANTS
  Calls,       \* calls that run at the same time on handles of the connection
  Requests,    \* the requests of the application, with their parameters
  CacheSize,   \* planCacheSize
  Dialect      \* "mysql" binds the offset of a page before its count

\* A request: its document set, its predicates (an operator and the parameter
\* indices it names), and its page as given: none, literal or parameter indices.
\* NoPage, and the page of a canonical request, are slots <<offset, count>>.
NoPage == [form |-> "none", offset |-> 0, count |-> 0]

VARIABLES
  engines,   \* the document sets registered on the connection
  closed,
  plans,     \* the cached plans, oldest first: key and bind slots
  pc,        \* where each call is
  given,     \* its request and parameters as the application and the hook gave them
  canon,     \* the canonical request and parameters
  plan,      \* the bind slots of the plan it got
  binds      \* the values bound, in placeholder order

vars == <<engines, closed, plans, pc, given, canon, plan, binds>>

Unset == [set |-> "none", preds |-> <<>>, page |-> NoPage, params |-> <<>>]

Init ==
  /\ engines = {} /\ closed = FALSE /\ plans = <<>>
  /\ pc = [c \in Calls |-> "out"]
  /\ given = [c \in Calls |-> Unset] /\ canon = [c \in Calls |-> Unset]
  /\ plan = [c \in Calls |-> <<>>] /\ binds = [c \in Calls |-> <<>>]

\* REGISTER: a set is registered once.
Register(s) ==
  /\ ~closed
  /\ engines' = engines \cup {s}
  /\ UNCHANGED <<closed, plans, pc, given, canon, plan, binds>>

-----------------------------------------------------------------------------
(* canonicalize()                                                          *)

\* list(): an IN list repeats its last index up to a power of two.
Bucket(n) == CHOOSE b \in {2^i : i \in 0..n} : b >= n /\ b < 2 * n

\* A faulty list() that leaves the list as it is.
PaddedNot(ps) == ps

Padded(ps) == [i \in 1..Bucket(Len(ps)) |-> ps[Min({i, Len(ps)})]]
Indices(pred) == IF pred.op = "in" THEN Padded(pred.ps) ELSE pred.ps

\* The references of the walk, each of which index() gives the next slot: the
\* predicates, then the page.  A literal page
\* value is a parameter of its own, which index 0 stands for.
References(r) ==
  FlattenSeq([i \in DOMAIN r.preds |-> Indices(r.preds[i])])
    \o (CASE r.page.form = "none" -> <<>>
          [] r.page.form = "literal" -> <<0, 0>>
          [] OTHER -> <<r.page.offset, r.page.count>>)

Before(r, i) == FoldFunction(+, 0, [k \in 1..(i - 1) |-> Len(Indices(r.preds[k]))])

\* The value of reference i; the unnamed parameters follow the slots.
Canonical(r) ==
  LET refs == References(r)
      n == Len(refs)
      value(i) == IF refs[i] # 0 THEN r.params[refs[i]] ELSE IF i = n THEN r.page.count ELSE r.page.offset
      unused == SelectSeq([i \in DOMAIN r.params |-> i], LAMBDA i : ~Contains(refs, i)) IN
  [set |-> r.set,
   preds |-> [i \in DOMAIN r.preds |->
                [op |-> r.preds[i].op, ps |-> [k \in DOMAIN Indices(r.preds[i]) |-> Before(r, i) + k]]],
   page |-> IF r.page.form = "none" THEN NoPage ELSE [form |-> "indexed", offset |-> n - 1, count |-> n],
   params |-> [i \in 1..n |-> value(i)] \o [i \in DOMAIN unused |-> r.params[unused[i]]]]

\* A page with a negative offset or no rows is refused before the cache is read.
PageValid(r) ==
  \/ r.page.form = "none"
  \/ r.page.form = "literal" /\ r.page.offset >= 0 /\ r.page.count > 0
  \/ r.page.form = "indexed" /\ r.params[r.page.offset] >= 0 /\ r.params[r.page.count] > 0

\* hooked(): the hook may add a predicate with a parameter of its own.
AddedByHook(r) ==
  [r EXCEPT !.preds = Append(@, [op |-> "eq", ps |-> <<Len(r.params) + 1>>]), !.params = Append(@, 9)]

Hooked(c, r, hook) ==
  /\ pc[c] = "out"
  /\ LET left == IF hook THEN AddedByHook(r) ELSE r IN
     /\ given' = [given EXCEPT ![c] = left]
     /\ IF PageValid(left)
        THEN canon' = [canon EXCEPT ![c] = Canonical(left)] /\ pc' = [pc EXCEPT ![c] = "plan"]
        ELSE canon' = canon /\ pc' = [pc EXCEPT ![c] = "failed"]
  /\ plan' = [plan EXCEPT ![c] = <<>>] /\ binds' = [binds EXCEPT ![c] = <<>>]
  /\ UNCHANGED <<engines, closed, plans>>

-----------------------------------------------------------------------------
(* plan() and args()                                                       *)

\* The cache key: the text of the canonical request and its number of parameters.
Key(r) == [set |-> r.set, ops |-> r.preds, page |-> r.page, n |-> Len(r.params)]

\* A faulty selectStep() that binds the page in one order for every dialect.
PageSlotsFixed(r) == IF r.page = NoPage THEN <<>> ELSE <<r.page.offset, r.page.count>>

PageSlots(r) ==
  IF r.page = NoPage THEN <<>>
  ELSE IF Dialect = "mysql" THEN <<r.page.offset, r.page.count>> ELSE <<r.page.count, r.page.offset>>

\* The bind slots of the compiled statement, in the order of its placeholders.
Compiled(r) == FlattenSeq([i \in DOMAIN r.preds |-> r.preds[i].ps]) \o PageSlots(r)

Cached(k) == {e \in ToSet(plans) : e.key = k}

\* A faulty plan() that never takes an entry out.
EvictedNever(ps) == ps

\* The entry that came first leaves a cache that is over its size.
Evicted(ps) == IF Len(ps) > CacheSize THEN Tail(ps) ELSE ps

\* plan(): a closed connection and an unregistered set are refused first.
Plan(c) ==
  /\ pc[c] = "plan"
  /\ LET k == Key(canon[c])
         new == [key |-> k, slots |-> Compiled(canon[c])] IN
     \/ /\ closed \/ canon[c].set \notin engines
        /\ pc' = [pc EXCEPT ![c] = "failed"]
        /\ UNCHANGED <<plans, plan>>
     \/ /\ ~closed /\ canon[c].set \in engines
        /\ Cached(k) # {}
        /\ plan' = [plan EXCEPT ![c] = (CHOOSE e \in Cached(k) : TRUE).slots]
        /\ pc' = [pc EXCEPT ![c] = "run"]
        /\ UNCHANGED plans
     \/ /\ ~closed /\ canon[c].set \in engines
        /\ Cached(k) = {}
        /\ plans' = Evicted(Append(plans, new))
        /\ plan' = [plan EXCEPT ![c] = new.slots]
        /\ pc' = [pc EXCEPT ![c] = "run"]
  /\ UNCHANGED <<engines, closed, given, canon, binds>>

\* args(): the value of each slot, when the statement is sent.
Run(c) ==
  /\ pc[c] = "run"
  /\ binds' = [binds EXCEPT ![c] = [i \in DOMAIN plan[c] |-> canon[c].params[plan[c][i]]]]
  /\ pc' = [pc EXCEPT ![c] = "bound"]
  /\ UNCHANGED <<engines, closed, plans, given, canon, plan>>

Return(c) ==
  /\ pc[c] \in {"bound", "failed"}
  /\ pc' = [pc EXCEPT ![c] = "out"]
  /\ given' = [given EXCEPT ![c] = Unset] /\ canon' = [canon EXCEPT ![c] = Unset]
  /\ plan' = [plan EXCEPT ![c] = <<>>] /\ binds' = [binds EXCEPT ![c] = <<>>]
  /\ UNCHANGED <<engines, closed, plans>>

\* close()
Close ==
  /\ ~closed
  /\ closed' = TRUE /\ plans' = <<>>
  /\ UNCHANGED <<engines, pc, given, canon, plan, binds>>

Next ==
  \/ \E r \in Requests : Register(r.set)
  \/ \E c \in Calls :
       \/ \E r \in Requests, hook \in BOOLEAN : Hooked(c, r, hook)
       \/ Plan(c)
       \/ Run(c)
       \/ Return(c)
  \/ Close

Spec == Init /\ [][Next]_vars

-----------------------------------------------------------------------------
(* Properties.                                                             *)

\* Types; the cache holds at most CacheSize plans, one for a key, and none once
\* the connection is closed.
TypeOK ==
  /\ Len(plans) <= CacheSize
  /\ \A i, j \in DOMAIN plans : plans[i].key = plans[j].key => i = j
  /\ closed => plans = <<>>
  /\ pc \in [Calls -> {"out", "plan", "run", "bound", "failed"}]

\* The values that predicate i of the application's request names.
Named(r, i) == [k \in DOMAIN r.preds[i].ps |-> r.params[r.preds[i].ps[k]]]
PageOf(r) == IF r.page.form = "literal" THEN <<r.page.offset, r.page.count>> ELSE <<r.params[r.page.offset], r.params[r.page.count]>>

\* Each placeholder of a statement gets the value that its own request names
\* there, whichever request the plan was made for: a list the same set of values,
\* another predicate the same sequence, the page its offset and its count.
BindsOwnValues ==
  \A c \in Calls : pc[c] = "bound" =>
    LET r == given[c]
        bound(i) == SubSeq(binds[c], Before(r, i) + 1, Before(r, i + 1))
        page == SubSeq(binds[c], Before(r, Len(r.preds) + 1) + 1, Len(binds[c])) IN
    /\ \A i \in DOMAIN r.preds :
         IF r.preds[i].op = "in" THEN ToSet(bound(i)) = ToSet(Named(r, i)) ELSE bound(i) = Named(r, i)
    /\ r.page.form = "none" => page = <<>>
    /\ r.page.form # "none" => page = IF Dialect = "mysql" THEN PageOf(r) ELSE Reverse(PageOf(r))

\* What the application wrote apart from values: the operators, the size class of
\* each list, the presence of a page, and the parameters that nothing names.
Shape(r) ==
  [set |-> r.set, ops |-> [i \in DOMAIN r.preds |-> <<r.preds[i].op, IF r.preds[i].op = "in" THEN Bucket(Len(r.preds[i].ps)) ELSE Len(r.preds[i].ps)>>],
   page |-> r.page.form # "none",
   unused |-> Cardinality({i \in DOMAIN r.params : ~Contains(References(r), i)})]

\* The comment of engine/canonical.ts: "the slots and the key depend only on the
\* statement and the bucket of each list".  Two calls with statements of one shape
\* share a plan.
ShapeSharesPlan ==
  \A c, d \in Calls :
    pc[c] = "run" /\ pc[d] = "run" /\ Shape(given[c]) = Shape(given[d]) => Key(canon[c]) = Key(canon[d])
=============================================================================
