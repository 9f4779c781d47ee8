----------------------------- MODULE PlanChain -----------------------------
(***************************************************************************)
(* Reading plan documents and ordering them (parsePlan() and chainPlans()  *)
(* of plan.ts).  A document is its header, its from line, the lines of its *)
(* header as records and its target; the first line that is wrong ends the *)
(* reading with one diagnostic.  A header line holds a form and names.     *)
(***************************************************************************)
EXTENDS Integers, Sequences, FiniteSets, SequencesExt

CONSTANTS
  Sets,      \* sequences of plan documents
  Reserved,  \* the names that no plan may use
  Empty      \* the from of the first plan

VARIABLES
  docs,     \* the documents
  d,        \* the document that is read
  line,     \* the header line that is read
  given,    \* the new names of the renames so far, with their kind
  plans,    \* the plans that were read
  chain,    \* the chain so far
  result    \* "read", "walk", "chained" or the diagnostic

vars == <<docs, d, line, given, plans, chain, result>>

Init ==
  /\ docs \in Sets
  /\ d = 1 /\ line = 1 /\ given = {} /\ plans = <<>> /\ chain = <<>>
  /\ result = "read"

Doc == docs[d]
ValidName(n) == n \notin Reserved

\* What a rename gives: a table name, or a column name of its table.
Gives(l) == CASE l.form = "rename table" -> {<<"table", l.names[2]>>}
              [] l.form = "rename column" -> {<<"column", l.names[1], l.names[3]>>}
              [] OTHER -> {}
Forms == {"rename table", "rename column", "allow drop table", "allow drop column"}

\* A faulty reader that lets two renames give one name.
LineDiagFree(l) ==
  IF \E j \in 1..line - 1 : Doc.lines[j] = l THEN "repeats"
  ELSE IF l.form \notin Forms THEN "form"
  ELSE IF \E n \in ToSet(l.names) : ~ValidName(n) THEN "name"
  ELSE "none"

\* The checks of one header line, in their order.
LineDiag(l) ==
  IF \E j \in 1..line - 1 : Doc.lines[j] = l THEN "repeats"
  ELSE IF l.form \notin Forms THEN "form"
  ELSE IF \E n \in ToSet(l.names) : ~ValidName(n) THEN "name"
  ELSE IF Gives(l) \cap given # {} THEN "given"
  ELSE "none"

\* The first and the second line come before the header lines.
HeadDiag == IF ~Doc.header THEN "header" ELSE IF Doc.from = "bad" THEN "from" ELSE "none"

ReadLine ==
  /\ result = "read" /\ d <= Len(docs) /\ line <= Len(Doc.lines)
  /\ LET diag == IF HeadDiag # "none" THEN HeadDiag ELSE LineDiag(Doc.lines[line]) IN
     IF diag = "none"
     THEN line' = line + 1 /\ given' = given \cup Gives(Doc.lines[line]) /\ UNCHANGED result
     ELSE result' = diag /\ UNCHANGED <<line, given>>
  /\ UNCHANGED <<docs, d, plans, chain>>

\* After the blank line comes the target, which uses no external document, is a
\* schema text and is not the schema the plan starts from.
TargetDiag ==
  IF HeadDiag # "none" THEN HeadDiag
  ELSE IF Doc.target # "schema" THEN Doc.target
  ELSE IF Doc.to = Doc.from THEN "own target"
  ELSE "none"

ReadTarget ==
  /\ result = "read" /\ d <= Len(docs) /\ line > Len(Doc.lines)
  /\ IF TargetDiag = "none"
     THEN /\ plans' = Append(plans, [id |-> d, from |-> Doc.from, to |-> Doc.to])
          /\ d' = d + 1 /\ line' = 1 /\ given' = {}
          /\ UNCHANGED result
     ELSE result' = TargetDiag /\ UNCHANGED <<plans, d, line, given>>
  /\ UNCHANGED <<docs, chain>>

From(h) == {p \in ToSet(plans) : p.from = h}

StartDiag ==
  IF \E p \in ToSet(plans) : Cardinality(From(p.from)) > 1 THEN "same from"
  ELSE IF From(Empty) = {} THEN "no start"
  ELSE "none"

\* chainPlans(): no plan is the empty chain; the chain starts from empty.
ChainStart ==
  /\ result = "read" /\ d > Len(docs)
  /\ IF plans = <<>> THEN result' = "chained" /\ UNCHANGED chain
     ELSE IF StartDiag # "none" THEN result' = StartDiag /\ UNCHANGED chain
     ELSE result' = "walk" /\ chain' = <<CHOOSE p \in From(Empty) : TRUE>>
  /\ UNCHANGED <<docs, d, line, given, plans>>

\* A faulty walk that leaves out the plans it does not reach.
ChainNextPartial ==
  /\ result = "walk"
  /\ LET after == From(chain[Len(chain)].to) IN
     IF after = {}
     THEN result' = "chained" /\ UNCHANGED chain
     ELSE LET p == CHOOSE p \in after : TRUE IN
          IF p \in ToSet(chain) THEN result' = "cycle" /\ UNCHANGED chain
          ELSE chain' = Append(chain, p) /\ UNCHANGED result
  /\ UNCHANGED <<docs, d, line, given, plans>>

\* A faulty walk that passes over a plan it has seen.
ChainNextSkipping ==
  /\ result = "walk"
  /\ LET after == From(chain[Len(chain)].to) IN
     IF after = {}
     THEN /\ result' = IF ToSet(plans) = ToSet(chain) THEN "chained" ELSE "unreached"
          /\ UNCHANGED chain
     ELSE /\ chain' = chain \o SetToSeq(after \ ToSet(chain))
          /\ UNCHANGED result
  /\ UNCHANGED <<docs, d, line, given, plans>>

\* The next plan starts from the target of the last one.
ChainNext ==
  /\ result = "walk"
  /\ LET after == From(chain[Len(chain)].to) IN
     IF after = {}
     THEN /\ result' = IF ToSet(plans) = ToSet(chain) THEN "chained" ELSE "unreached"
          /\ UNCHANGED chain
     ELSE LET p == CHOOSE p \in after : TRUE IN
          IF p \in ToSet(chain) THEN result' = "cycle" /\ UNCHANGED chain
          ELSE chain' = Append(chain, p) /\ UNCHANGED result
  /\ UNCHANGED <<docs, d, line, given, plans>>

Next == ReadLine \/ ReadTarget \/ ChainStart \/ ChainNext
Spec == Init /\ [][Next]_vars /\ WF_vars(Next)

-----------------------------------------------------------------------------
(* Properties.                                                             *)

\* A chain under way holds each plan once.
TypeOK ==
  /\ IsInjective(chain) /\ ToSet(chain) \subseteq ToSet(plans)
  /\ d \in 1..Len(docs) + 1
  /\ result \in {"read", "walk", "chained", "repeats", "form", "name", "given", "header", "from", "use", "text",
                 "own target", "same from", "no start", "unreached", "cycle", "blank"}

\* docs/spec/plans.md:34: the plan from empty comes first and each next plan starts
\* from the to hash of the one before; a set has a chain exactly when one order of
\* all its plans is so linked, and then it has only that one.
Linked(s) ==
  /\ s # <<>> => s[1].from = Empty
  /\ \A i \in 1..Len(s) - 1 : s[i + 1].from = s[i].to
  /\ \A i, j \in 1..Len(s) : s[i].from = s[j].from => i = j
Orders == {s \in [1..Len(plans) -> ToSet(plans)] : IsInjective(s) /\ Linked(s)}
ChainIsTheOrder ==
  /\ result = "chained" => Orders = {chain}
  /\ result \in {"same from", "no start", "unreached", "cycle"} =>
       \A s \in Orders : \E i \in 1..Len(s) : s[Len(s)].to = s[i].from

\* docs/spec/plans.md:30: in a plan that was read no line repeats and no two
\* renames give one name.
ReadOnce ==
  \A p \in ToSet(plans) :
    LET ls == docs[p.id].lines IN
    \A i, j \in 1..Len(ls) : i # j => ls[i] # ls[j] /\ Gives(ls[i]) \cap Gives(ls[j]) = {}

\* Reading and chaining end, also when the plans close a cycle.
Ended == result \notin {"read", "walk"}
ChainEnds == <>Ended
=============================================================================
