--------------------------------- MODULE Art ---------------------------------
(***************************************************************************)
(* The adaptive radix tree of art.c.  A node is a leaf with a whole key,   *)
(* or an inner node (module ArtNode) whose children differ in one byte.    *)
(* The bytes that all keys below a node share before that one are its      *)
(* prefix: the node has its length and only its first bytes, so that the   *)
(* rest has to be read from a leaf.                                        *)
(*                                                                         *)
(* A tree is a value: what the code writes through "ref" is the subtree    *)
(* that an operator returns.  Every call is one step.                      *)
(***************************************************************************)
EXTENDS ArtNode, Sequences

CONSTANTS MAX_PREFIX_LEN,     \* 10 in the code
          Key,                \* keys, none the beginning of another
          Value,
          ValuesOf,           \* the values that a key is inserted with
          Prefix,             \* the prefixes asked for
          Behind,             \* bytes that may lie behind the end of a key
          NoValue             \* the NULL that a call returns for a value

Begins(key, prefix) == Len(prefix) <= Len(key) /\ SubSeq(key, 1, Len(prefix)) = prefix

ASSUME KeysAssumption ==
    /\ MAX_PREFIX_LEN \in Nat
    /\ IsFiniteSet(Key) /\ Key \union Prefix \subseteq Seq(Byte)
    /\ \A j, k \in Key : Begins(k, j) => j = k
    /\ Behind \subseteq Byte /\ Behind # {}
    /\ ValuesOf \in [Key -> SUBSET Value] /\ NoValue \notin Value

\* A pointer to memory that has been freed.
Dangling == [type |-> "DANGLING"]

VARIABLES root, size,     \* the art_tree
          call,           \* the last call, as the abstract map names it
          answer,         \* what it returned
          blocks          \* what has been allocated and not freed

vars == <<root, size, call, answer, blocks>>

min(a, b) == IF a < b THEN a ELSE b

\* The bytes of a key from a depth on, and how many two such lists share.
From(key, depth) == SubSeq(key, depth + 1, Len(key))
Agree(s, t) ==
    LET differ == {i \in 1..min(Len(s), Len(t)) : s[i] # t[i]}
    IN  IF differ = {} THEN min(Len(s), Len(t)) ELSE Least(differ) - 1

make_leaf(key, value) == [type |-> "LEAF", key |-> key, value |-> value]
IS_LEAF(n) == n.type = "LEAF"

\* The stored bytes of a prefix.
Stored(prefix) == SubSeq(prefix, 1, min(MAX_PREFIX_LEN, Len(prefix)))

check_prefix(n, key, depth) == Agree(n.partial, From(key, depth))

-----------------------------------------------------------------------------
(* Ways down the tree.                                                      *)

AtEnd(n) == n = NULL \/ IS_LEAF(n)

\* No way has more nodes below the root than the longest key has bytes.
Longest == CHOOSE m \in {0} \union {Len(k) : k \in Key} : \A k \in Key : Len(k) <= m

LeastChild(n) == IF Listed(n) THEN n.children[1] ELSE find_child(n, Least(Present(n)))

\* The way down to the first leaf: at each step the one node it has come to.
minimum(n) ==
    LET at[i \in 0..Longest] ==
            IF i = 0 THEN {n} ELSE {IF AtEnd(m) THEN m ELSE LeastChild(m) : m \in at[i - 1]}
    IN  CHOOSE m \in at[Longest] : TRUE

-----------------------------------------------------------------------------
(* What the calls look at in a node.                                        *)

\* How far a key agrees with the prefix of a node, beyond the stored bytes with
\* that of the node's first leaf and perhaps further than the prefix.
prefix_mismatch(n, key, depth) ==
    LET idx == check_prefix(n, key, depth)
    IN  IF n.partial_len > MAX_PREFIX_LEN /\ idx = min(MAX_PREFIX_LEN, Len(key) - depth)
        THEN Agree(From(minimum(n).key, depth), From(key, depth))
        ELSE idx

leaf_prefix_matches(l, prefix) == Begins(l.key, prefix)

Matched(n, prefix, depth) == min(prefix_mismatch(n, prefix, depth), n.partial_len)

\* A mutant of PrefixEnds: the prefix asked for ends where the node's does.
PrefixEndsWithNodes(n, prefix, depth, matched) == depth + n.partial_len = Len(prefix)

\* Whether the prefix asked for ends in that of a node or with it.
PrefixEnds(n, prefix, depth, matched) == depth + matched = Len(prefix)

\* A byte of a key; behind its end any may be read.
ByteAt(key, depth, behind) == IF depth < Len(key) THEN key[depth + 1] ELSE behind

\* Whether a call ends at a node: a search and a delete where the stored bytes differ from
\* the key's, an insert where the prefix does, and the two at the node that gets or has
\* the leaf.
Ends(op, n, depth, key, byte) ==
    \/ AtEnd(n)
    \/ /\ op \in {"search", "delete"}
       /\ check_prefix(n, key, depth) # min(MAX_PREFIX_LEN, n.partial_len)
    \/ op = "delete" /\ AtEnd(find_child(n, byte))
    \/ /\ op = "insert"
       /\ prefix_mismatch(n, key, depth) < n.partial_len \/ find_child(n, byte) = NULL
    \/ /\ op = "iter_prefix"
       /\ \/ depth = Len(key)
          \/ /\ n.partial_len > 0
             /\ \/ Matched(n, key, depth) = 0
                \/ PrefixEnds(n, key, depth, Matched(n, key, depth))

\* A place on the way down: a node and its depth, the byte of the key behind its prefix,
\* the nodes above it with such bytes, and whether the call ends there.
Place(op, n, depth, above, key, behind) ==
    LET byte == IF AtEnd(n) THEN 0 ELSE ByteAt(key, depth + n.partial_len, behind)
    IN  [node |-> n, depth |-> depth, byte |-> byte, above |-> above,
         ends |-> Ends(op, n, depth, key, byte)]

Deeper(op, e, key, behind) ==
    Place(op, find_child(e.node, e.byte), e.depth + e.node.partial_len + 1,
          Append(e.above, [node |-> e.node, byte |-> e.byte]), key, behind)

\* Where a call ends that goes down from the root: at each step the one place it has come to.
End(op, t, key, behind) ==
    LET at[i \in 0..Longest] ==
            IF i = 0 THEN {Place(op, t, 0, <<>>, key, behind)}
            ELSE {IF e.ends THEN e ELSE Deeper(op, e, key, behind) : e \in at[i - 1]}
    IN  CHOOSE e \in at[Longest] : TRUE

\* The tree when a call has written to the pointer to the node where it has ended.
Written(above, node) ==
    LET up[i \in 0..Len(above)] ==
            IF i = 0 THEN node
            ELSE LET p == above[Len(above) - i + 1] IN SetChild(p.node, p.byte, up[i - 1])
    IN  up[Len(above)]

-----------------------------------------------------------------------------
(* art_insert and art_insert_no_replace.                                    *)

\* The new NODE4 above an old leaf and a new one.
SplitLeaf(l, l2, depth) ==
    LET shared == Agree(From(l.key, depth), From(l2.key, depth))
        node == alloc_node4(shared, Stored(SubSeq(l2.key, depth + 1, depth + shared)))
    IN  add_child4(add_child4(node, l.key[depth + shared + 1], l),
                   l2.key[depth + shared + 1], l2)

\* A mutant of WithoutPrefix: the rest of the stored bytes is kept, although
\* there are more.
OnlyStored(n, diff, depth) ==
    [n EXCEPT !.partial_len = @ - (diff + 1),
              !.partial = SubSeq(@, diff + 2, Len(@))]

\* An inner node without the first diff + 1 bytes of its prefix.
WithoutPrefix(n, diff, depth) ==
    LET len == n.partial_len - (diff + 1)
        key == minimum(n).key
    IN  [n EXCEPT !.partial_len = len,
                  !.partial = IF n.partial_len <= MAX_PREFIX_LEN THEN SubSeq(@, diff + 2, Len(@))
                              ELSE Stored(SubSeq(key, depth + diff + 2, depth + diff + 1 + len))]

\* The new NODE4 above an inner node, whose prefix is split, and a new leaf.
SplitPrefix(n, leaf, diff, depth) ==
    LET node == alloc_node4(diff, SubSeq(n.partial, 1, min(MAX_PREFIX_LEN, diff)))
        byte == IF n.partial_len <= MAX_PREFIX_LEN THEN n.partial[diff + 1]
                ELSE minimum(n).key[depth + diff + 1]
    IN  add_child4(add_child4(node, byte, WithoutPrefix(n, diff, depth)),
                   leaf.key[depth + diff + 1], leaf)

\* What an insert makes of a subtree: the new one, the value found, and how
\* many leaves and nodes it has allocated.
Inserted(node, old, count) == [node |-> node, old |-> old, blocks |-> count]

\* What an insert makes of the node where it ends.
InsertAtEnd(n, leaf, depth, byte, replace) ==
    IF n = NULL THEN Inserted(leaf, NoValue, 1)
    ELSE IF IS_LEAF(n) THEN
        IF n.key = leaf.key THEN Inserted(IF replace THEN leaf ELSE n, n.value, 0)
        ELSE Inserted(SplitLeaf(n, leaf, depth), NoValue, 2)
    ELSE IF prefix_mismatch(n, leaf.key, depth) < n.partial_len
    THEN Inserted(SplitPrefix(n, leaf, prefix_mismatch(n, leaf.key, depth), depth), NoValue, 2)
    ELSE Inserted(add_child(n, byte, leaf), NoValue, 1)

InsertOf(k, v, replace) == [op |-> "insert", key |-> k, value |-> v, replace |-> replace]

Insert(k, v, replace) ==
    /\ root # Dangling
    /\ \E e \in {End("insert", root, k, behind) : behind \in Behind} :
       \E r \in {InsertAtEnd(e.node, make_leaf(k, v), e.depth, e.byte, replace)} :
          /\ root' = Written(e.above, r.node)
          /\ size' = IF r.old = NoValue THEN size + 1 ELSE size
          /\ answer' = r.old
          /\ blocks' = blocks + r.blocks

art_insert(k, v) == call' = InsertOf(k, v, TRUE) /\ Insert(k, v, TRUE)

\* A mutant of art_insert_no_replace: it replaces.
insert_anyway(k, v) == call' = InsertOf(k, v, FALSE) /\ Insert(k, v, TRUE)

art_insert_no_replace(k, v) == call' = InsertOf(k, v, FALSE) /\ Insert(k, v, FALSE)

-----------------------------------------------------------------------------
(* art_delete.                                                              *)

\* A mutant of MergePrefix: the byte between the two prefixes is left out.
MergeWithoutByte(n, byte, child) ==
    [child EXCEPT !.partial_len = @ + n.partial_len,
                  !.partial = Stored(n.partial \o @)]

\* A child that takes the place of its parent gets the parent's prefix and its
\* own byte in front of its prefix; of all that the first bytes are stored.
MergePrefix(n, byte, child) ==
    [child EXCEPT !.partial_len = @ + n.partial_len + 1,
                  !.partial = IF n.partial_len < MAX_PREFIX_LEN
                              THEN Stored(n.partial \o <<byte>> \o @) ELSE n.partial]

remove_child4(n, pos) ==
    LET left == RemoveAt(n, pos)
        child == left.children[1]
    IN  IF left.num_children > 1 THEN left
        ELSE IF IS_LEAF(child) THEN child ELSE MergePrefix(left, left.keys[1], child)

remove_child(n, c) ==
    CASE n.type = "NODE4" -> remove_child4(n, Least(SlotsOf(n, c)))
      [] n.type = "NODE16" -> remove_child16(n, Least(SlotsOf(n, c)))
      [] n.type = "NODE48" -> remove_child48(n, c)
      [] n.type = "NODE256" -> remove_child256(n, c)

\* A mutant of Deleted: the memory is kept.
DeletedNotFreed(node, old, count) == [node |-> node, old |-> old, blocks |-> 0]

\* What a delete makes of a subtree: the new one, the value taken out, and how
\* many leaves and nodes it has freed.
Deleted(node, old, count) == [node |-> node, old |-> old, blocks |-> count]

\* What a delete makes of the node where it ends.
DeleteAtEnd(n, key, depth, byte) ==
    LET child == find_child(n, byte)
    IN  IF n = NULL THEN Deleted(n, NoValue, 0)
        ELSE IF IS_LEAF(n) THEN
            IF n.key = key THEN Deleted(NULL, n.value, 1) ELSE Deleted(n, NoValue, 0)
        ELSE IF check_prefix(n, key, depth) # min(MAX_PREFIX_LEN, n.partial_len) \/ child = NULL
        THEN Deleted(n, NoValue, 0)
        ELSE IF child.key # key THEN Deleted(n, NoValue, 0)
        ELSE Deleted(remove_child(n, byte), child.value,
                     IF n.type = "NODE4" /\ n.num_children = 2 THEN 2 ELSE 1)

art_delete(k) ==
    /\ root # Dangling
    /\ call' = [op |-> "delete", key |-> k]
    /\ \E e \in {End("delete", root, k, behind) : behind \in Behind} :
       \E r \in {DeleteAtEnd(e.node, k, e.depth, e.byte)} :
          /\ root' = Written(e.above, r.node)
          /\ size' = IF r.old # NoValue THEN size - 1 ELSE size
          /\ answer' = r.old
          /\ blocks' = blocks - r.blocks

-----------------------------------------------------------------------------
(* art_tree_init and art_tree_destroy.                                      *)

\* A mutant of Visits: of a NODE256 only the first num_children places are looked at.
VisitsByCount(n) ==
    IF Listed(n) THEN 1..n.num_children
    ELSE IF n.type = "NODE256" THEN {b \in Present(n) : b < n.num_children}
    ELSE Present(n)

\* The places of the children that destroy_node goes to, and recursive_iter: of the
\* two lists the first num_children, of the others the bytes with a child.
Visits(n) == IF Listed(n) THEN 1..n.num_children ELSE Present(n)

\* What is next to a visited node: its place, by the places on the way to it, and its depth.
NextTo(e) ==
    IF AtEnd(e.node) THEN {}
    ELSE {[node |-> IF Listed(e.node) THEN e.node.children[c] ELSE find_child(e.node, c),
           depth |-> e.depth + e.node.partial_len + 1,
           way |-> Append(e.way, c)] : c \in Visits(e.node)}

\* All that is visited in a subtree.
Visited(n) ==
    LET upTo[i \in 0..Longest] ==
            IF i = 0 THEN {[node |-> n, depth |-> 0, way |-> <<>>]}
            ELSE UNION {{e} \union IF Len(e.way) = i - 1 THEN NextTo(e) ELSE {} : e \in upTo[i - 1]}
    IN  {e \in upTo[Longest] : e.node # NULL}

\* How many leaves and nodes destroy_node frees.
Freed(n) == Cardinality(Visited(n))

NoArguments == [op |-> "clear"]

art_tree_init ==
    /\ root = Dangling
    /\ root' = NULL /\ size' = 0 /\ call' = NoArguments /\ answer' = NoValue
    /\ UNCHANGED blocks

\* The pointer to the root stays; the tree may only be made again.
art_tree_destroy ==
    /\ root # Dangling
    /\ root' = Dangling
    /\ blocks' = blocks - Freed(root)
    /\ call' = NoArguments /\ answer' = NoValue
    /\ UNCHANGED size

Init == root = Dangling /\ size = 0 /\ call = NoArguments /\ answer = NoValue /\ blocks = 0

Next ==
    \/ art_tree_init \/ art_tree_destroy
    \/ \E k \in Key : \E v \in ValuesOf[k] : art_insert(k, v) \/ art_insert_no_replace(k, v)
    \/ \E k \in Key : art_delete(k)

Spec == Init /\ [][Next]_vars

-----------------------------------------------------------------------------
(* The searches.                                                            *)

art_search(key, behind) ==
    LET n == End("search", root, key, behind).node
    IN  IF n # NULL /\ IS_LEAF(n) THEN IF n.key = key THEN n.value ELSE NoValue
        ELSE NoValue

\* The node that art_iter_prefix passes to recursive_iter, or the one leaf it reports,
\* or NULL.
IterNode(prefix, behind) ==
    LET end == End("iter_prefix", root, prefix, behind)
        n == end.node
        reported == IF AtEnd(n) \/ end.depth = Len(prefix)
                    THEN leaf_prefix_matches(minimum(n), prefix)
                    ELSE Matched(n, prefix, end.depth) # 0
    IN  IF n # NULL THEN IF reported THEN n ELSE NULL
        ELSE NULL

-----------------------------------------------------------------------------
(* Properties.                                                              *)

InnerVisited(n) == {e \in Visited(n) : ~IS_LEAF(e.node)}
LeavesBelow(n) == {e.node : e \in {f \in Visited(n) : IS_LEAF(f.node)}}

TypeOK ==
    /\ root = Dangling \/ size \in 0..Cardinality(Key)
    /\ call.op \in {"insert", "delete", "clear"} /\ answer \in Value \union {NoValue}
    /\ blocks \in 0..(2 * Cardinality(Key))

\* Each layout has as many children as it is made for: those of one layout more
\* than the one below shrinks at, and never one child alone.  The count that the
\* code grows and shrinks by is their number, as far as a byte can hold it, and
\* no place of a NODE48 is taken without being found.
NodesFit ==
    root # Dangling => \A n \in {e.node : e \in InnerVisited(root)} :
        LET count == Cardinality(Present(n))
        IN  /\ n.num_children = count % ByteCount
            /\ count \in CASE n.type = "NODE4" -> 2..Max4
                           [] n.type = "NODE16" -> (Min16 + 1)..Max16
                           [] n.type = "NODE48" -> (Min48 + 1)..Max48
                           [] n.type = "NODE256" -> (Min256 + 1)..ByteCount
            /\ n.type = "NODE48" =>
                  Cardinality({p \in 1..Max48 : n.children[p] # NULL}) = count

\* Below a child come only keys that have its byte at its place, before that all the
\* same bytes, and in them, from the depth of the node on, what is stored of the prefix.
PathsSpellKeys ==
    root # Dangling => \A e \in InnerVisited(root) : \A b \in Present(e.node) :
        \A l \in LeavesBelow(find_child(e.node, b)) :
            LET deeper == e.depth + e.node.partial_len
            IN  /\ deeper < Len(l.key) /\ l.key[deeper + 1] = b
                /\ e.node.partial = Stored(SubSeq(l.key, e.depth + 1, deeper))
                /\ SubSeq(l.key, 1, deeper) = SubSeq(minimum(e.node).key, 1, deeper)

\* Everything allocated is in the tree where destroy_node finds it, and after it
\* nothing is left.
NothingLeaks == blocks = IF root = Dangling THEN 0 ELSE Freed(root)

Entries ==
    IF root = Dangling THEN {} ELSE {[key |-> l.key, value |-> l.value] : l \in LeavesBelow(root)}

\* art_search finds what is stored and nothing else, although it skips the bytes
\* of prefixes that are not stored.
SearchExact ==
    root # Dangling => \E entries \in {Entries} : \A k \in Key, behind \in Behind :
        {v \in {art_search(k, behind)} : v # NoValue} =
            {e.value : e \in {f \in entries : f.key = k}}

\* The leaves that art_iter_prefix reports, and those it should.
Reported(prefix, behind) == LeavesBelow(IterNode(prefix, behind))
WithPrefix(leaves, prefix) == {l \in leaves : leaf_prefix_matches(l, prefix)}

\* art_iter_prefix misses no key with the prefix, whatever lies behind it.
IterPrefixComplete ==
    root # Dangling => \E leaves \in {LeavesBelow(root)} : \A p \in Prefix, behind \in Behind :
        WithPrefix(leaves, p) \subseteq Reported(p, behind)

\* art.c: art_iter_prefix invokes the callback "for each that matches a given
\* prefix".
IterPrefixExact ==
    root # Dangling => \E leaves \in {LeavesBelow(root)} : \A p \in Prefix, behind \in Behind :
        Reported(p, behind) \subseteq WithPrefix(leaves, p)

Map == INSTANCE ReplaceMap WITH
           entries <- Entries, size <- IF root = Dangling THEN 0 ELSE size, NULL <- NoValue

\* The tree is a map: each call changes its own key only and returns the value
\* the key had, and the size counts the keys.
ImplementsMap == Map!Spec
=============================================================================
