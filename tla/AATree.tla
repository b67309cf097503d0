------------------------------- MODULE AATree -------------------------------
(***************************************************************************)
(* The address tree of src/generic/slab.cpp: an AA tree whose nodes are    *)
(* the capability slots themselves.                                        *)
(*                                                                         *)
(* A tree heap t holds the fields of the slots: t.Left, t.Right, t.Level   *)
(* and t.Cap, the capability stored in the slot, of which the tree reads   *)
(* the key Object.  A tree is named by its root slot or NULL.              *)
(***************************************************************************)
EXTENDS Naturals

CONSTANT NULL

Key(t, n) == t.Cap[n].Object

Skew(t, tree) ==
    LET left == t.Left[tree]
    IN  IF tree = NULL \/ left = NULL \/ t.Level[left] # t.Level[tree]
        THEN [heap |-> t, root |-> tree]
        ELSE [heap |-> [t EXCEPT !.Left[tree] = t.Right[left], !.Right[left] = tree],
              root |-> left]

(* Mutation: the new root stays on its level.                              *)
SplitLevel(t, tree) ==
    LET right == t.Right[tree]
    IN  IF \/ tree = NULL \/ right = NULL \/ t.Right[right] = NULL
           \/ t.Level[tree] # t.Level[t.Right[right]]
        THEN [heap |-> t, root |-> tree]
        ELSE [heap |-> [t EXCEPT !.Right[tree] = t.Left[right], !.Left[right] = tree],
              root |-> right]

(* Mutation: the old root is not linked under the new one.                 *)
SplitUnlinked(t, tree) ==
    LET right == t.Right[tree]
    IN  IF \/ tree = NULL \/ right = NULL \/ t.Right[right] = NULL
           \/ t.Level[tree] # t.Level[t.Right[right]]
        THEN [heap |-> t, root |-> tree]
        ELSE [heap |-> [t EXCEPT !.Right[tree] = t.Left[right],
                                 !.Level[right] = @ + 1],
              root |-> right]

Split(t, tree) ==
    LET right == t.Right[tree]
    IN  IF \/ tree = NULL \/ right = NULL \/ t.Right[right] = NULL
           \/ t.Level[tree] # t.Level[t.Right[right]]
        THEN [heap |-> t, root |-> tree]
        ELSE [heap |-> [t EXCEPT !.Right[tree] = t.Left[right],
                                 !.Left[right] = tree,
                                 !.Level[right] = @ + 1],
              root |-> right]

(* A slot with the key of a slot of the tree is not linked: the tree's     *)
(* slot receives a copy of its capability.                                 *)
RECURSIVE Insert(_, _, _)
Insert(t, tree, node) ==
    LET below == Insert(t, IF Key(t, node) < Key(t, tree) THEN t.Left[tree]
                           ELSE t.Right[tree], node)
        changed == CASE Key(t, node) < Key(t, tree) ->
                          [below.heap EXCEPT !.Left[tree] = below.root]
                     [] Key(t, node) > Key(t, tree) ->
                          [below.heap EXCEPT !.Right[tree] = below.root]
                     [] OTHER -> [t EXCEPT !.Cap[tree] = t.Cap[node]]
        skewed == Skew(changed, tree)
    IN  IF tree = NULL
        THEN [heap |-> [t EXCEPT !.Level[node] = 1, !.Left[node] = NULL,
                                 !.Right[node] = NULL],
              root |-> node]
        ELSE Split(skewed.heap, skewed.root)

RECURSIVE Search(_, _, _)
Search(t, tree, key) ==
    IF tree = NULL \/ Key(t, tree) = key THEN tree
    ELSE Search(t, IF key > Key(t, tree) THEN t.Right[tree] ELSE t.Left[tree], key)

(* Mutation: the key itself is not stopped at.                             *)
RECURSIVE SearchLeaf(_, _, _)
SearchLeaf(t, tree, key) ==
    IF tree = NULL \/ (t.Left[tree] = NULL /\ t.Right[tree] = NULL)
    THEN tree
    ELSE SearchLeaf(t, IF key > Key(t, tree) THEN t.Right[tree] ELSE t.Left[tree], key)

(* For a key that is not in the tree: the leaf its path ends at, or NULL   *)
(* when the path leaves a slot that has a child on the other side only.    *)
RECURSIVE SearchClose(_, _, _)
SearchClose(t, tree, key) ==
    IF \/ tree = NULL
       \/ t.Left[tree] = NULL /\ t.Right[tree] = NULL
       \/ Key(t, tree) = key
    THEN tree
    ELSE SearchClose(t, IF key > Key(t, tree) THEN t.Right[tree] ELSE t.Left[tree], key)

=============================================================================
