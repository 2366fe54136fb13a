--------------------------- MODULE MembershipTree ---------------------------
(***************************************************************************)
(* The membership-tree contract: one incremental Merkle tree of identity   *)
(* commitments per DAO.                                                    *)
(*                                                                         *)
(* A node hash is represented by the vector of the leaves below it:        *)
(* hash_pair is concatenation, the zero of a level is a vector of zeros    *)
(* and a root is the vector of all leaves.  For a collision-free hash this *)
(* loses nothing, equal vectors being equal hashes, and it makes visible   *)
(* which leaves a root vouches for.                                        *)
(***************************************************************************)
EXTENDS MembershipSbt, TLC

CONSTANTS
  Leaf,            \* U256 values passed as commitments; may contain Zero
  Zero,            \* zero_value: the empty leaf
  Depth,           \* tree depths passed to init_tree
  MaxTreeDepth,    \* MAX_TREE_DEPTH, 18 in the code and in vote.circom
  MaxRootHistory,  \* MAX_ROOT_HISTORY, 30 in the code
  MaxRoots         \* bound of the model: roots pushed per tree

ASSUME TreeAssumption ==
  /\ Depth \subseteq Nat
  /\ MaxTreeDepth \in Nat
  /\ MaxRootHistory \in Nat \ {0}
  /\ MaxRoots \in Nat

VARIABLES
  tree,        \* tree[d]: the storage of DAO d's tree, or NoTree
  registrant   \* history: registrant[d][c] is the member who registered c

tree_vars == <<tree, registrant>>

(***************************************************************************)
(* Nodes.  Level 0 is the leaves; node i of level k covers the 2^k leaves  *)
(* from i * 2^k on.  Storage keys never written read as zero.              *)
(***************************************************************************)
capacity[k \in 0 .. MaxTreeDepth] == IF k = 0 THEN 1 ELSE 2 * capacity[k - 1]

\* The indices, level by level, of the nodes above leaf i.
ancestors(i) ==
  LET up[k \in 0 .. MaxTreeDepth] == IF k = 0 THEN i ELSE up[k - 1] \div 2
  IN  up

hash_pair(left, right) == left \o right
zero_at_level(k) == [i \in 1 .. capacity[k] |-> Zero]

Positions(depth) == 0 .. capacity[depth] - 1
Nodes(depth) == {n \in (1 .. depth) \X Positions(depth) : n[2] < capacity[depth - n[1]]}

\* Storage set of key x to v.
put(f, x, v) == [y \in DOMAIN f \cup {x} |-> IF y = x THEN v ELSE f[y]]

node(t, k, i) == IF k = 0 THEN <<t.leaf_value[i]>> ELSE t.node_hash[<<k, i>>]
is_left(i) == i % 2 = 0

current_root(t) == t.roots[Len(t.roots)]
root_ok(t, root) == \E i \in DOMAIN t.roots : t.roots[i] = root
root_idx(t, root) == t.root_index[root]
curr_idx(t) == root_idx(t, current_root(t))

\* What MerkleTreeInclusionProof accepts: some path of the circuit's depth
\* folds the leaf to the root.
Included(root, c) ==
  /\ Len(root) = capacity[MaxTreeDepth]
  /\ \E i \in DOMAIN root : root[i] = c

\* No TreeDepth is stored; init_tree refuses depth 0.
NoTree == [depth |-> 0]

empty_tree(depth) ==
  LET empty_root == zero_at_level(depth)
  IN  [ depth               |-> depth,
        next_leaf_index     |-> 0,
        filled_subtrees     |-> [k \in 1 .. depth |-> zero_at_level(k - 1)],
        roots               |-> <<empty_root>>,
        leaf_index          |-> << >>,
        member_leaf_index   |-> << >>,
        leaf_value          |-> [i \in Positions(depth) |-> Zero],
        next_root_index     |-> 0,
        root_index          |-> [r \in {empty_root} |-> 0],
        node_hash           |-> [n \in Nodes(depth) |-> zero_at_level(n[1])],
        min_valid_root_idx  |-> 0 ]

\* Mutant of push_root: a root that recurs keeps its first index.
PushKeepsFirstIndex(t, root) ==
  LET roots == Append(t.roots, root)
  IN  [t EXCEPT !.roots = IF Len(roots) > MaxRootHistory THEN Tail(roots) ELSE roots,
                !.root_index = IF root \in DOMAIN @ THEN @ ELSE put(@, root, t.next_root_index),
                !.next_root_index = @ + 1]

\* Mutant of push_root: eviction is off by one.
PushKeepsOneMore(t, root) ==
  LET roots == Append(t.roots, root)
  IN  [t EXCEPT !.roots = IF Len(roots) > MaxRootHistory + 1 THEN Tail(roots) ELSE roots,
                !.root_index = put(@, root, t.next_root_index),
                !.next_root_index = @ + 1]

\* Append to the FIFO history and give the root the next index; a root that
\* recurs has its index overwritten.
push_root(t, root) ==
  LET roots == Append(t.roots, root)
  IN  [t EXCEPT !.roots = IF Len(roots) > MaxRootHistory THEN Tail(roots) ELSE roots,
                !.root_index = put(@, root, t.next_root_index),
                !.next_root_index = @ + 1]

\* Mutant of write_path: nodes are stored at the index of the level below.
WritePathChildIndex(t, i, h) ==
  [t EXCEPT !.node_hash =
     [n \in DOMAIN @ |-> IF n[2] = ancestors(i)[n[1] - 1] THEN h[n[1]] ELSE @[n]]]

\* Mutant of write_path: only the root's node is stored.
WritePathTopOnly(t, i, h) ==
  [t EXCEPT !.node_hash =
     [n \in DOMAIN @ |-> IF n[1] = t.depth THEN h[n[1]] ELSE @[n]]]

\* Store the hashes h[1] .. h[depth] on the path of leaf i.
write_path(t, i, h) ==
  [t EXCEPT !.node_hash =
     [n \in DOMAIN @ |-> IF n[2] = ancestors(i)[n[1]] THEN h[n[1]] ELSE @[n]]]

\* The hashes h[0] .. h[depth] from a leaf to the root along a path of pairs
\* <<is_left, sibling>>: the loop of insert_leaf, of update_leaf and of the
\* circuit (merkle_tree.circom).
path_hashes(leaf, path) ==
  LET h[k \in 0 .. Len(path)] ==
        IF k = 0 THEN <<leaf>>
        ELSE IF path[k][1] THEN hash_pair(h[k - 1], path[k][2])
        ELSE hash_pair(path[k][2], h[k - 1])
  IN  h

fold_path(leaf, path) == path_hashes(leaf, path)[Len(path)]

\* The siblings insert_leaf uses: to the left filled_subtrees, to the right zeros.
insertion_path(t, index) ==
  [k \in 1 .. t.depth |->
     LET at == ancestors(index)[k - 1]
     IN  <<is_left(at), IF is_left(at) THEN zero_at_level(k - 1) ELSE t.filled_subtrees[k]>>]

\* The siblings update_leaf uses, which get_merkle_path also returns: the stored
\* nodes.
get_merkle_path(t, i) ==
  [k \in 1 .. t.depth |->
     LET at == ancestors(i)[k - 1]
     IN  <<is_left(at), node(t, k - 1, IF is_left(at) THEN at + 1 ELSE at - 1)>>]

\* Mutant of insert_leaf: filled_subtrees is also written on right turns.
InsertFillsAlways(t, leaf, index) ==
  LET h == path_hashes(leaf, insertion_path(t, index))
  IN  push_root([write_path(t, index, h) EXCEPT
                   !.filled_subtrees = [k \in 1 .. t.depth |-> h[k - 1]]], h[t.depth])

(***************************************************************************)
(* Insertion takes the left siblings from filled_subtrees and assumes that *)
(* everything to the right is empty.  The first insertion (fast path)      *)
(* writes filled_subtrees only at level 0.                                 *)
(***************************************************************************)
insert_leaf(t, leaf, index) ==
  LET h == path_hashes(leaf, insertion_path(t, index))
      filled == [k \in 1 .. t.depth |->
                   IF is_left(ancestors(index)[k - 1]) /\ (index = 0 => k = 1)
                   THEN h[k - 1] ELSE t.filled_subtrees[k]]
  IN  push_root([write_path(t, index, h) EXCEPT !.filled_subtrees = filled], h[t.depth])

\* Overwrite leaf i and recompute its path from the stored nodes.
update_leaf(t, i, value) ==
  LET h == path_hashes(value, get_merkle_path(t, i))
  IN  push_root([write_path(t, i, h) EXCEPT !.leaf_value[i] = value], h[t.depth])

(***************************************************************************)
(* Entry points.                                                           *)
(***************************************************************************)
tree_initialized(d) == tree[d] # NoTree

\* Mutant of can_register: the member's earlier registration is not looked up.
CanRegisterTwice(t, c, m) ==
  /\ c \notin DOMAIN t.leaf_index
  /\ t.next_leaf_index < capacity[t.depth]

can_register(t, c, m) ==
  /\ c \notin DOMAIN t.leaf_index
  /\ m \notin DOMAIN t.member_leaf_index
  /\ t.next_leaf_index < capacity[t.depth]

registered(t, c, m) ==
  LET index == t.next_leaf_index
  IN  [insert_leaf(t, c, index) EXCEPT
         !.next_leaf_index = @ + 1,
         !.leaf_index = put(@, c, index),
         !.member_leaf_index = put(@, m, index),
         !.leaf_value[index] = c]

register(d, c, m) ==
  /\ tree_initialized(d)
  /\ can_register(tree[d], c, m)
  /\ tree[d].next_root_index < MaxRoots
  /\ tree' = [tree EXCEPT ![d] = registered(tree[d], c, m)]
  /\ registrant' = [registrant EXCEPT ![d] = put(registrant[d], c, m)]

\* The registry's two entry points below check neither the caller nor that the
\* DAO exists: anyone may call them, for any id.
init_tree_from_registry(d, depth) ==
  /\ depth \in 1 .. MaxTreeDepth
  /\ ~tree_initialized(d)
  /\ tree' = [tree EXCEPT ![d] = empty_tree(depth)]
  /\ UNCHANGED registrant

\* "The registry is trusted to have already verified SBT ownership": no token is
\* asked for, and no authorisation of the member.
register_from_registry(d, c, m) == register(d, c, m)

\* Both, one after the other, as the registry calls them in one transaction.
init_and_register_from_registry(d, depth, c, m) ==
  /\ depth \in 1 .. MaxTreeDepth
  /\ ~tree_initialized(d)
  /\ can_register(empty_tree(depth), c, m)
  /\ tree' = [tree EXCEPT ![d] = registered(empty_tree(depth), c, m)]
  /\ registrant' = [registrant EXCEPT ![d] = put(registrant[d], c, m)]

init_tree(d, depth, admin) ==
  /\ assert_admin(d, admin)
  /\ init_tree_from_registry(d, depth)

register_with_caller(d, c, caller) ==
  /\ has(d, caller)
  /\ register(d, c, caller)

self_register(d, c, member) ==
  /\ has(d, member)
  /\ dao_exists(d)
  /\ is_membership_open(d)
  /\ register(d, c, member)

\* Mutant of remove_member: earlier roots stay valid.
RemoveKeepsOldRoots(d, member, admin) ==
  /\ assert_admin(d, admin)
  /\ tree_initialized(d)
  /\ member \in DOMAIN tree[d].member_leaf_index
  /\ tree[d].next_root_index < MaxRoots
  /\ LET i == tree[d].member_leaf_index[member]
     IN  /\ tree[d].leaf_value[i] # Zero
         /\ tree' = [tree EXCEPT ![d] = update_leaf(tree[d], i, Zero)]
  /\ revoke(d, member, admin)
  /\ UNCHANGED registrant

\* Mutant of remove_member: the token is left to a revoke that came before.
RemoveKeepsToken(d, member, admin) ==
  /\ assert_admin(d, admin)
  /\ tree_initialized(d)
  /\ member \in DOMAIN tree[d].member_leaf_index
  /\ tree[d].next_root_index < MaxRoots
  /\ LET i == tree[d].member_leaf_index[member]
     IN  /\ tree[d].leaf_value[i] # Zero
         /\ tree' = [tree EXCEPT ![d] =
                       [update_leaf(tree[d], i, Zero) EXCEPT
                          !.min_valid_root_idx = tree[d].next_root_index]]
  /\ UNCHANGED <<sbt_vars, registrant>>

\* Zero the leaf, invalidate every earlier root for Trailing proposals and
\* revoke the token, in one transaction.
remove_member(d, member, admin) ==
  /\ assert_admin(d, admin)
  /\ tree_initialized(d)
  /\ member \in DOMAIN tree[d].member_leaf_index
  /\ tree[d].next_root_index < MaxRoots
  /\ LET i == tree[d].member_leaf_index[member]
     IN  /\ tree[d].leaf_value[i] # Zero
         /\ tree' = [tree EXCEPT ![d] =
                       [update_leaf(tree[d], i, Zero) EXCEPT
                          !.min_valid_root_idx = tree[d].next_root_index]]
  /\ revoke(d, member, admin)
  /\ UNCHANGED registrant

\* Mutant of reinstate_member: the commitment's index is dropped as well.
ReinstateForgetsCommitment(d, member, admin) ==
  /\ assert_admin(d, admin)
  /\ tree_initialized(d)
  /\ member \in DOMAIN tree[d].member_leaf_index
  /\ tree[d].leaf_value[tree[d].member_leaf_index[member]] = Zero
  /\ LET i == tree[d].member_leaf_index[member]
     IN  tree' = [tree EXCEPT
           ![d].member_leaf_index = [m \in DOMAIN @ \ {member} |-> @[m]],
           ![d].leaf_index = [c \in {x \in DOMAIN @ : @[x] # i} |-> @[c]]]
  /\ UNCHANGED registrant

\* Only the member's own index mapping is dropped: the commitment's LeafIndex
\* stays, so the same commitment can never be registered again.
reinstate_member(d, member, admin) ==
  /\ assert_admin(d, admin)
  /\ tree_initialized(d)
  /\ member \in DOMAIN tree[d].member_leaf_index
  /\ tree[d].leaf_value[tree[d].member_leaf_index[member]] = Zero
  /\ tree' = [tree EXCEPT ![d].member_leaf_index =
                [m \in DOMAIN @ \ {member} |-> @[m]]]
  /\ UNCHANGED registrant

TreeInit ==
  /\ tree = [d \in DaoId |-> NoTree]
  /\ registrant = [d \in DaoId |-> << >>]

TreeTransaction ==
  \E d \in DaoId, a \in Address :
    \/ \E depth \in Depth : init_tree(d, depth, a) /\ UNCHANGED sbt_vars
    \/ \E depth \in Depth : init_tree_from_registry(d, depth) /\ UNCHANGED sbt_vars
    \/ \E c \in Leaf : register_from_registry(d, c, a) /\ UNCHANGED sbt_vars
    \/ \E c \in Leaf : register_with_caller(d, c, a) /\ UNCHANGED sbt_vars
    \/ \E c \in Leaf : self_register(d, c, a) /\ UNCHANGED sbt_vars
    \/ \E admin \in Address : remove_member(d, a, admin)
    \/ \E admin \in Address : reinstate_member(d, a, admin) /\ UNCHANGED sbt_vars

TreeNext ==
  \/ SbtNext /\ UNCHANGED tree_vars
  \/ TreeTransaction /\ UNCHANGED registry_vars

tree_spec_vars == <<registry_vars, sbt_vars, tree_vars>>

LowerInit == MembershipInit /\ TreeInit

TreeSpec == LowerInit /\ [][TreeNext]_tree_spec_vars

(***************************************************************************)
(* Properties.                                                             *)
(***************************************************************************)
Trees == {d \in DaoId : tree_initialized(d)}
Accepted(t, root) == root_ok(t, root) /\ root_idx(t, root) >= t.min_valid_root_idx

LeafValues == Leaf \cup {Zero}
NodeValues(k) == [1 .. capacity[k] -> LeafValues]

TreeOK(t) ==
  /\ t.depth \in 1 .. MaxTreeDepth
  /\ t.next_leaf_index \in 0 .. capacity[t.depth]
  /\ Len(t.filled_subtrees) = t.depth
  /\ \A k \in 1 .. t.depth : t.filled_subtrees[k] \in NodeValues(k - 1)
  /\ Len(t.roots) \in 1 .. MaxRootHistory
  /\ \A i \in DOMAIN t.roots : t.roots[i] \in DOMAIN t.root_index
  /\ DOMAIN t.leaf_index \subseteq Leaf
  /\ DOMAIN t.member_leaf_index \subseteq Address
  /\ \A c \in DOMAIN t.leaf_index : t.leaf_index[c] \in 0 .. t.next_leaf_index - 1
  /\ \A m \in DOMAIN t.member_leaf_index :
       t.member_leaf_index[m] \in 0 .. t.next_leaf_index - 1
  /\ t.leaf_value \in [Positions(t.depth) -> LeafValues]
  /\ t.next_root_index \in Nat
  /\ \A r \in DOMAIN t.root_index :
       r \in NodeValues(t.depth) /\ t.root_index[r] \in Nat
  /\ DOMAIN t.node_hash = Nodes(t.depth)
  /\ \A n \in Nodes(t.depth) : t.node_hash[n] \in NodeValues(n[1])
  /\ t.min_valid_root_idx \in Nat

TreeTypeOK ==
  /\ SbtTypeOK
  /\ DOMAIN tree = DaoId
  /\ \A d \in Trees : TreeOK(tree[d])
  /\ DOMAIN registrant = DaoId
  /\ \A d \in DaoId : \A c \in DOMAIN registrant[d] : registrant[d][c] \in Address

\* One vote per member starts here: a live leaf belongs to exactly one member,
\* a member maps to one leaf, and a position holds the commitment that was
\* registered there or zero, through any sequence of registrations, removals
\* and reinstatements.
OneMemberPerLeaf ==
  \A d \in Trees :
    LET t == tree[d]
    IN  /\ \A m, n \in DOMAIN t.member_leaf_index :
             t.member_leaf_index[m] = t.member_leaf_index[n] => m = n
        /\ \A i \in 0 .. t.next_leaf_index - 1 : t.leaf_value[i] # Zero =>
             /\ \E m \in DOMAIN t.member_leaf_index : t.member_leaf_index[m] = i
             /\ t.leaf_value[i] \in DOMAIN t.leaf_index
             /\ t.leaf_index[t.leaf_value[i]] = i

\* Whatever mix of insertions (which read filled_subtrees) and removals (which
\* read the stored nodes) produced it, the current root includes every live
\* leaf, and every root in the history has at each position zero or the
\* commitment registered there: no root vouches for a commitment that was never
\* registered.
RootsVouchForRegistered ==
  \A d \in Trees :
    LET t == tree[d]
    IN  \A r \in DOMAIN t.roots : \A i \in Positions(t.depth) :
          LET c == t.roots[r][i + 1]
          IN  c = Zero \/ (c \in DOMAIN t.leaf_index /\ t.leaf_index[c] = i)

LiveLeavesInCurrentRoot ==
  \A d \in Trees :
    LET t == tree[d]
    IN  \A i \in Positions(t.depth) :
          t.leaf_value[i] # Zero => current_root(t)[i + 1] = t.leaf_value[i]

\* The current root is always accepted and has the newest index, even when its
\* value occurred before, was evicted, or predates a removal: otherwise members
\* holding an up-to-date proof would be turned away.
CurrentRootIsNewest ==
  \A d \in Trees :
    LET t == tree[d]
    IN  /\ Accepted(t, current_root(t))
        /\ \A r \in DOMAIN t.root_index : t.root_index[r] <= curr_idx(t)
        /\ t.next_root_index > 0 => curr_idx(t) = t.next_root_index - 1

\* While nobody was removed, the path get_merkle_path serves for any
\* registered position folds to the current root, the incremental insertion
\* (with its fast path) agreeing with the nodes it stored.
PathsVerifyUntilRemoval ==
  \A d \in Trees :
    LET t == tree[d]
    IN  t.min_valid_root_idx = 0 =>
          \A i \in 0 .. t.next_leaf_index - 1 :
            fold_path(t.leaf_value[i], get_merkle_path(t, i)) = current_root(t)

RemovalLeavesNoRoot ==
  \A d \in Trees : \A i \in Positions(tree[d].depth) :
    tree[d].leaf_value[i] # Zero /\ tree'[d].leaf_value[i] = Zero =>
      \A r \in DOMAIN tree'[d].roots :
        Accepted(tree'[d], tree'[d].roots[r]) => tree'[d].roots[r][i + 1] = Zero

\* The step that zeroes a leaf leaves no accepted root with the removed
\* commitment in it.
RemovalTakesEffect == [][RemovalLeavesNoRoot]_tree_spec_vars

NoCommitmentReturns ==
  \A d \in Trees : \A c \in DOMAIN tree[d].leaf_index \ {Zero} :
    /\ c \in DOMAIN tree'[d].leaf_index
    /\ tree[d].leaf_value[tree[d].leaf_index[c]] = Zero =>
         \A i \in Positions(tree[d].depth) : tree'[d].leaf_value[i] # c

\* A commitment is registered at one position once and for all: after its
\* removal it is never live again, not even when its member is reinstated.
RemovedCommitmentStaysOut == [][NoCommitmentReturns]_tree_spec_vars

\* get_merkle_path's documentation: it returns "the sibling hash at level i" and
\* "reads stored node hashes directly instead of reconstructing subtrees".  Claimed
\* here: the path of a live leaf leads to the current root.  The code refutes it:
\* insert_leaf rebuilds the left siblings from filled_subtrees, which update_leaf
\* never touches, so a registration after a removal hashes the removed leaf in again,
\* and no proof can be made from the path served to the new member.
ServedPathsLeadToRoot ==
  \A d \in Trees :
    LET t == tree[d]
    IN  \A i \in Positions(t.depth) :
          t.leaf_value[i] # Zero =>
            fold_path(t.leaf_value[i], get_merkle_path(t, i)) = current_root(t)
=============================================================================
