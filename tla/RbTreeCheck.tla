----------------------------- MODULE RbTreeCheck -----------------------------
(***************************************************************************)
(* rbtree_check_balance, which the container tests trust to say whether the *)
(* red-black tree behind a set or a map is balanced, beside the definition  *)
(* of a red-black tree by its paths.                                        *)
(***************************************************************************)
EXTENDS Integers, Sequences, FiniteSets

CONSTANT MaxNodes   \* bound: nodes of a tree

ASSUME NodesAssumption == MaxNodes \in Nat

Colors == {"red", "black"}
Null == [color |-> "none"]

\* All coloured trees of n nodes.
Trees[n \in 0 .. MaxNodes] ==
  IF n = 0 THEN {Null}
  ELSE UNION {[color : Colors, left : Trees[k], right : Trees[n - 1 - k]] : k \in 0 .. n - 1}

Tree == UNION {Trees[n] : n \in 0 .. MaxNodes}

-----------------------------------------------------------------------------
(* The arguments of a call beside the node: the number of black nodes on a   *)
(* path, 0 if not known yet, those above the node, the colour of its parent.  *)
(* A call gives its result and what is left in the reference parameter black. *)

Calls == [black : Nat, cur_black : Nat, color : Colors]

\* Mutants: every path that ends sets the number anew, for FaultsNoticed; nodes
\* are counted whatever their colour, for NoFalseAlarm.
AtEndResets(call) == [ok |-> TRUE, black |-> call.cur_black]
CountedAll(color, cur_black) == cur_black + 1

\* No child: the first path that ends gives the number, others agree with it.
AtEnd(call) ==
  IF call.black > 0 THEN [ok |-> call.cur_black = call.black, black |-> call.black]
  ELSE [ok |-> TRUE, black |-> call.cur_black]

Counted(color, cur_black) == cur_black + (IF color = "black" THEN 1 ELSE 0)

\* A node, left and right being what the checker makes of its children.
AtNode(color, left, right, call) ==
  IF call.color # "black" /\ color # "black" THEN [ok |-> FALSE, black |-> call.black]
  ELSE LET below(black) == [black |-> black, cur_black |-> Counted(color, call.cur_black), color |-> color]
           first == left[below(call.black)]
       IN  IF first.ok THEN right[below(first.black)] ELSE first

rbtree_check_balance[node \in Tree] ==
  IF node = Null THEN [call \in Calls |-> AtEnd(call)]
  ELSE [call \in Calls |->
         AtNode(node.color, rbtree_check_balance[node.left], rbtree_check_balance[node.right], call)]

\* Of the whole tree, whose root's parent is taken for red.
Balanced(root) == rbtree_check_balance[root][[black |-> 0, cur_black |-> 0, color |-> "red"]].ok

-----------------------------------------------------------------------------
\* The colours on each way from the root to an absent child.
Paths[node \in Tree] ==
  IF node = Null THEN {<< >>}
  ELSE {<<node.color>> \o p : p \in Paths[node.left] \cup Paths[node.right]}

Blacks(p) == Cardinality({i \in DOMAIN p : p[i] = "black"})

\* A red-black tree: the root is black, no two reds in succession, as many
\* blacks on every path.
IsRedBlack(t) ==
  /\ \A p \in Paths[t] : \A i \in 1..Len(p) :
       p[i] = "red" => i > 1 /\ p[i - 1] = "black"
  /\ \A p, q \in Paths[t] : Blacks(p) = Blacks(q)
=============================================================================
