----------------------------- MODULE Conditions -----------------------------
(***************************************************************************)
(* The tree of a WHERE condition and its evaluation on a row: ConditionNode *)
(* and its subclasses in Statements.h.                                     *)
(*                                                                         *)
(* A tree is the sequence of its nodes, the children of a node before it;  *)
(* the empty sequence is a statement without WHERE.  Evaluating it on a row *)
(* yields "true" or "false", or throws.                                    *)
(***************************************************************************)
EXTENDS Values, SequencesExt

Outcome == {"true", "false", "throws"}

Comparison == [node : {"compare"}, name : ColumnName, op : CompareOp, value : Value]
Connective == [node : {"and", "or", "not"}]

Leaf(name, op, value) == [node |-> "compare", name |-> name, op |-> op, value |-> value]
And == [node |-> "and"]
Or  == [node |-> "or"]
Not == [node |-> "not"]

-----------------------------------------------------------------------------

\* A row that is too short matches nothing.
Compare(leaf, row, schema) ==
    LET c == ColumnIndex(leaf.name, schema)
    IN  IF c = 0 THEN "throws"
        ELSE IF c \in DOMAIN row /\ compareValues(row[c], leaf.op, leaf.value)
             THEN "true"
             ELSE "false"

\* Mutant: both sides are evaluated first.
OrOfBoth(left, right) ==
    IF "throws" \in {left, right} THEN "throws" ELSE IF left = "false" THEN right ELSE left

\* The right side is evaluated only when the left does not decide.
AndOf(left, right) == IF left = "true"  THEN right ELSE left
OrOf(left, right)  == IF left = "false" THEN right ELSE left
NotOf(inner) ==
    CASE inner = "true" -> "false" [] inner = "false" -> "true" [] inner = "throws" -> "throws"

\* The outcomes of the subtrees seen so far, then those with one node more.
Reduce(seen, node, row, schema) ==
    LET n == Len(seen)
    IN  CASE node.node = "compare" -> Append(seen, Compare(node, row, schema))
          [] node.node = "not"     -> [seen EXCEPT ![n] = NotOf(seen[n])]
          [] node.node = "and"     -> Append(SubSeq(seen, 1, n - 2), AndOf(seen[n - 1], seen[n]))
          [] node.node = "or"      -> Append(SubSeq(seen, 1, n - 2), OrOf(seen[n - 1], seen[n]))

evaluate(cond, row, schema) ==
    IF cond = <<>> THEN "true"
    ELSE LET Step(seen, node) == Reduce(seen, node, row, schema)
         IN  Last(FoldLeft(Step, <<>>, cond))

\* How many trees the first k nodes are; AND and OR make one of two.
Trees(cond, k) ==
    Cardinality({i \in 1 .. k : cond[i].node = "compare"})
    - Cardinality({i \in 1 .. k : cond[i].node \in {"and", "or"}})

\* One tree, in which every node finds its children.
IsTree(cond) ==
    /\ Trees(cond, Len(cond)) = 1
    /\ \A k \in DOMAIN cond : /\ cond[k].node = "not" => Trees(cond, k - 1) >= 1
                              /\ cond[k].node \in {"and", "or"} => Trees(cond, k - 1) >= 2

(* The rows that match, and whether evaluating any row throws. *)
Matching(rows, cond, schema) ==
    Keep(rows, {i \in DOMAIN rows : evaluate(cond, rows[i], schema) = "true"})
Throwing(rows, cond, schema) ==
    \E i \in DOMAIN rows : evaluate(cond, rows[i], schema) = "throws"
=============================================================================
