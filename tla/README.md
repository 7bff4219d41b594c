# Radix-bench in TLA+

Radix-bench compares five ordered containers for 64-bit keys. It is sequential C:
there are no threads, no messages and nothing is stored on disk. What is hard about it
is what long sequences of legal calls do to linked and bit-packed structures: arrays
and nodes that are freed, handed out again with their old contents and relinked;
memory that runs out half way through an update; searches that rely on what earlier
removals left behind; arithmetic at the borders of words, levels and key ranges.

## Inventory

| component | source | state | operations |
|---|---|---|---|
| Object pool | `radix_new.c` 6-199 | list of blocks, each with a stack of free objects and a counter; the block used last; the initial capacity | `objectPoolInit`, `objectPoolAlloc`, `objectPoolFree`, `objectPoolDestroy` |
| Word search | `radix_new.c` 275-309 | none | `getFirstSetBit`, `getFirstSetBitInRange` |
| Radix New tree | `radix_new.c` 213-448 | root node, number of levels, two object pools; per node four words of bits and four child arrays | `treeInit`, `treeInsertOrReturnExisting`, `treeFind`, `treeFindGEQ`, `treeRemove`, `treeDestroy` |
| Wide Radix Tree | `wide_radix.c` | eight levels of nodes with 256 child pointers | `wide_radix_insert`, `_lookup`, `_find_geq`, `_delete`, `_empty`, init and destroy |
| CUDA Radix Tree | `radix.c` | trie over the key's bits whose nodes are in heap order, ring lists of nodes with equal keys | `radixTreeInsert`, `radixTreeFindGEQ`, `radixTreeRemove` |
| AVL tree | `avl.c` | binary tree with parent pointers and heights | insert-or-return-existing, remove, find, GEQ, LEQ, predecessor, successor |
| Adaptive Radix Tree | `art.c` | nodes of 4, 16, 48 and 256 children with compressed prefixes; the number of keys | init, insert with and without replacement, delete, destroy, search, minimum, maximum, iteration, iteration below a prefix |
| Benchmarks, tests | `benchmark*.c*`, `test_*.c` | none of their own | drive the trees with keys 1..10^6 or fixed lists |

How they interact: the Radix New tree calls its two object pools (one for arrays of 64
nodes, one for arrays of 64 values) for every word that gets its first or loses its
last child, and the word search for every ordered search. The other trees stand alone;
the benchmarks call all of them.

What makes each correct: the pool never hands out an object twice and loses none; the
word search returns the lowest bit; each tree is a map whose ordered search returns
the least key from the one asked for, whatever was inserted and removed before; memory
is owned by the tree or by the pool and never by both. The hazards, each at its line,
are in `PROJECT.json`.

## Modules

| module | models | uses |
|---|---|---|
| `ObjectAllocator` | what an object pool promises: an object is handed out while no one has it | |
| `ObjectPool` | the pool of `radix_new.c`, block by block | implements `ObjectAllocator` |
| `ObjectPoolProofs` | proofs about `ObjectPool` | |
| `BitScan` | `getFirstSetBit` on the sets of bits of 64-bit words, `getFirstSetBitInRange` word by word | |
| `BitScanProofs` | proofs about `BitScan` | |
| `OrderedMap` | what the Radix New tree promises: insert-or-return-existing, remove, next key | |
| `RadixNew` | the Radix New tree | two `ObjectAllocator`s as its pools; implements `OrderedMap` |
| `RadixNewHistory` | `RadixNew` with a record of whether memory has run out | `RadixNew` |
| `RadixNewProofs` | proofs about both | |
| `MultiMap` | what the CUDA tree promises: queues of nodes by key | |
| `CURadix` | the CUDA radix tree | implements `MultiMap` |
| `CURadixProofs` | proofs about `CURadix` | |
| `PutMap` | what the Wide Radix Tree promises: put and delete | |
| `WideRadix` | the Wide Radix Tree | implements `PutMap` |
| `WideRadixProofs` | proofs about `WideRadix` | |
| `NodeMap` | what the AVL tree promises: a map from keys to the caller's nodes | |
| `AVL` | the AVL tree | implements `NodeMap` |
| `AVLProofs` | proofs about `AVL` | |
| `ArtNode` | the inner nodes of the adaptive radix tree: find, add and remove a child in each layout | |
| `ReplaceMap` | what the adaptive radix tree promises: a counted map, with and without replacement | |
| `Art` | the adaptive radix tree | `ArtNode`; implements `ReplaceMap` |
| `ArtOrder` | its minimum and maximum, and the order in which it is iterated | `Art` |
| `ArtNodeProofs` | proofs about `ArtNode`, and what the steps of `Art` do to a node | |
| `ArtProofs` | proofs about `Art` and `ArtOrder` | `ArtNodeProofs` |
| `MC...` | the small instances TLC checks, with the history variables some properties need | |

A definition whose comment calls it a *mutant of* another is not part of the
specification: it is that definition with a plausible mistake, kept to show that some
property notices it.

### How the code is represented

**Calls.** The code is sequential, so one call runs at a time and the caller may make
any legal call next. Calls that change state in a loop are split at the iterations of
the loop (or at the recursive calls), because that is where allocation can fail and
where the structure is between two shapes; `pc` says which loop is running. Searches
change nothing and are functions of the state, evaluated by the invariants in every
state between calls, for every key.

**ObjectPool.** A block of the list is a record with its capacity, its `used` counter
and its free list, a stack; an object is a pair of a block and an index, for its
address. `held` is the callers' side: the objects handed out and not given back.
`currentPool` is an index in the list, 0 for NULL. `objectPoolFree` is enabled for
held objects only: freeing anything else is a caller's error.

**BitScan.** A 64-bit word is the set of its set bits, so `&` is intersection and the
six masks are sets; only two's complement negation needs a definition. The code has a
manual `getFirstSetBit` and one with `__builtin_ctzll`; the manual one is what is
compiled (`#if 1` at `radix_new.c:274`; `benchmark_results.md:108` says otherwise) and
modelled. `ScanWord` is one iteration of `getFirstSetBitInRange`.

**RadixNew.** A node is the root or one of the 64 slots of an array from
`nonLeafPool`, a value one of the slots of an array from `leafPool`; `bits`,
`children` and `leaf` are what these hold. They keep it when the array goes back to
the pool, as the code's memory does: the pool does not clear. `path` is the code's
`nodes[]`. Only what `objectPoolAlloc` promises is used of the pools: any free array
may come. `Words` x `WordBits` stands for 4 x 64.

**CURadix.** The nodes are the caller's. All links are there: `child`, `parent`,
`selfPtr` (the code's `parent_to_self_ptr`, a pointer to a pointer, represented by the
root or a node and a side), `next` and `prev`. `slot` and `bit` are where an insert
has come to. One step is one iteration of the insert's loop or one recursive call of
`radixTreeRemove`.

**WideRadix.** `heap` maps the address of every allocated node to its contents;
freeing removes an address. The address of a node is the path of bytes on which it was
made. Nothing is lost by that as long as no node is made on a path where an older one
still is; that such a node cannot exist (it would have been lost) is part of what
`TreeOwnsNodes` says. `free_node`'s recursion is one step per child entered and one
per node freed; its stack is the path of the node at hand.

**AVL.** `tree` holds the root and, for every node, its children, parent and height.
What the code writes once for the left and once for the right is written once for a
side. `Path` is a loop from node to node: the sequence of nodes it comes to, those of a
search in `Way` and those up to the root in `Climb`. The search of an insert and the
relinking of a remove are one step, since
nothing in them can fail or be seen from outside; the walk that follows,
`cuAvlTreeNodeRebalance`, is one node a step (`RotateOnce`, `RotateTwice`,
`KeepShape`), so that the invariants also say what the tree is like half way up. The
heights above the walk may be wrong then, by more than one where a successor has moved
up with the height it had as a leaf.

**ArtNode** and **Art**. A subtree is a value, a leaf or a record of an inner node
whose `children` are subtrees: no two pointers in the code lead to one node, so
nothing is lost.
The two lists of a NODE4 or NODE16 are as long as the node has children, `keys` of a
NODE48 is its index of 256 bytes (0 for none, as in the code) and a NODE256 has a
child or `NULL` for every byte. `SlotsOf` is the place `find_child` comes to in each
layout. The number of bytes, the sizes of the layouts and the counts at which nodes
shrink are constants, and so is `HighByte`, from which on `add_child16` takes a byte
for a negative number (128 on x86; with `ByteCount` it is the code for other
machines). Vector instructions are modelled by what they compare.

A call is one step. `blocks` counts what was allocated and not freed: an insert adds
what it allocates, a delete takes off what it frees (where a node changes its layout,
one is allocated and one freed). `call` names the last call for the abstract map and
`answer` is what it returned.

Search, insert, delete and iteration below a prefix go down the tree alike, so the way
is written once: a `Place` is a node with its depth, the byte of the key behind its
prefix and the nodes above; `Ends` says when each call stops there, `Deeper` is the
next place, and `End` the last one. What the code then stores through `ref` is put
into the tree by `Written`, from the node up. The recursion of `destroy_node` is
`Visited`, level by level. No way has more steps than the longest key has bytes
(`Longest`), so all this is defined by functions on the numbers up to it.
`recursive_iter` goes through the places of a node in the order in which
`destroy_node` does, and through all below one place before it comes to the next. So
`ArtOrder` tells its order from the ways of `Visited`: a leaf comes before another if
its way has the lower place where the two part (`IteratedBefore`).

Searches and iterations are functions of the tree; the leaves a callback is called
with are their result, for a callback that never stops. The code may read `key[depth]`
behind the end of a key or prefix that is shorter than those in the tree. `behind` is
the byte it finds there, in one call always the same; the properties hold or fail for
each of the bytes in `Behind`.

**History.** Three of the runs add a variable that only records: `failed` in
`RadixNewHistory`, whether an insert has run out of memory since the tree was made; `high`
in `ArtOrder`, whether a key with a high byte was ever inserted; `built` in `MCAVL`, how
far the deep tree has been built up.

## Runs

| run | asks | bounds |
|---|---|---|
| `object_pool` | is the pool an allocator, are its counters exact, does it grow only when it must | capacities 1 and 2, three blocks |
| `bit_scan` | does the range search return the lowest bit | four 64-bit words from six samples, 55 ranges |
| `radix_new` | when any allocation may fail, is the tree a map that owns its arrays; until one fails, is the ordered search exact and is memory given back | three levels, 2 words x 2 bits, six keys, three arrays in each pool |
| `radix_new_geq` | does `treeFindGEQ` stay in bounds | violated, see below: two keys, memory that never fails |
| `radix_new_align` | is only found what was stored, with `log2Align` > 0 | violated, see below |
| `cu_radix` | do the links, bits, heap order and rings survive every swap | four nodes, 3-bit keys |
| `wide_radix` | when any allocation may fail, does the tree own its nodes and is it a map | three levels of two children, two values |
| `wide_radix_geq` | does `find_geq` find the next key | violated, see below |
| `avl` | do links agree inside rotations, does every walk end and leave the tree balanced, are searches and neighbours exact, is it a map | seven keys, eight nodes; and twelve keys, up to two missing |
| `art` | do nodes of all layouts and partly stored prefixes lead to every key, is anything leaked, is it a map, is low keys' order right | eight keys of three to six bytes, six byte values, layouts of 3, 4, 5 and 6 children, one stored byte of a prefix |
| `art_prefix` | are only keys with the prefix reported | violated, see below |
| `art_order` | is the order that of the keys for all bytes | violated, see below |

Why these are enough. *Pool*: three blocks are a current one, one before it and one
after it; the two capacities give blocks of two and four objects, and `Destroy` and
`InitPoolFails` give the empty ones. *Word search*: the masks are the real 64-bit
ones; the proof covers the rest. *Radix New*: with three levels there is a root, a
level of inner nodes and a level of leaves; two words of two bits tell a word from a
node and the last bit of a word from the first of the next; the six keys share in turn
a leaf array, a node, a node array, a word of the root, or nothing. Three arrays in
each pool run out: an insert fails for want of them at every level, and besides
whenever it asks, and arrays come back while others are in use. *CUDA tree*: with four
nodes and eight keys there are chains as deep as the key has bits, rings of up to four
nodes, and removals that push a node down three levels. *Wide tree*: three levels are
a root, inner nodes and leaves, and two children are enough to have one missing; all
eight keys are used. *AVL*: seven nodes make the least tree in which a remove
unbalances the root; the eighth node is inserted under any key, so keys are found
taken and a node comes back under another key. To rotate at two levels a remove needs
at least twelve nodes: `MCAVL` also builds the tree of height five in which every left
side is the higher one, and from there removes and inserts again up to two nodes.
*Adaptive tree*: six keys differ in their fourth byte (one of them ends with it, five
go on), so that one node goes through
the four layouts up to every byte taken (`num_children` is then 0) and down again, in
any order; sizes of 3, 4, 5 and 6 and shrinking at 2, 3 and 4 leave the code's gap
between growing and shrinking. Their common prefix is three bytes, one stored; of the
two other keys, 1.0.0 splits it at the stored byte and 0.0.0.0.0.1 makes a second node
below, whose prefix is merged with those above when they are left with one child. A
prefix is split behind its stored byte when 0.0.0.0.0.0 and 0.0.0.0.0.1 are alone and
a third key comes. Byte 5 is the high one: five low ones fill a NODE16.

Symmetry. The arrays of each pool in `RadixNew` and the nodes in `CURadix` are
interchangeable: no definition compares them or picks one by `CHOOSE`, and the runs
with symmetry check safety only. `MCCURadix` and `MCAVL` hide, by a `VIEW`, what nodes
hold that are not in the tree: insert clears it before anything reads it, so states
that differ in it have the same steps, and hiding it changes the answer for no
property, `EveryWalkEnds` included. `MCArt` hides the last call and its answer, which
no action reads.

Deadlock is checked everywhere but in `bit_scan`, whose search ends.

Fairness. The code is sequential: a call that has begun runs until it returns, and
nothing else happens meanwhile. In `AVL` that is weak fairness of `Rebalance`, the
walk of a running call; the caller need never call again, so no call is fair. Under it
`EveryWalkEnds` says that the loop of `cuAvlTreeNodeRebalance`, the only one here
whose end is not given by a counter, terminates whatever it rotates. The other
modules' loops are bounded by the number of levels or blocks, which their invariants
state; their properties are safety properties, the refinements included.

## What the runs show

Where a property is expected to hold it does. Five statements of the repository's own
documents and comments do not:

* `GEQStaysInBounds` (`README.md:55`, "Comprehensive safety checks"): `treeRemove`
  never clears a bit of the root. When the last key under a child of the root is gone,
  `treeFindGEQ` still goes there, finds no bit and reads `children[4]`. The run's
  trace is an insert and a remove of one key; memory never fails in it, since a failed
  insert can leave such a bit too and would hide the remove.
  `GEQExactUnlessFailed` says that this is the only thing wrong while allocation
  succeeds: with no such bit after the key the search is exact.
* `FoundKeysWereStored` (`benchmark.cpp:165`, "64-bit keys, 8-byte alignment"):
  `treeInit` leaves out a level for the alignment, but keys are not shifted, so it is
  their top bits that are ignored.
* `GEQFindsNext` (`wide_radix.c:158`, "finds the next key"): `find_geq` does not go
  back up. The next line of the comment says that a full implementation "would need to
  traverse the tree more carefully". `GEQSound` says what it does promise: never a wrong key, and the next one
  if that is below the deepest node on the path of the key, unless an inner node has
  been left empty.
* `IterPrefixExact` (`art.c:913`, "for each that matches a given prefix"): when the
  prefix departs from a node's after at least one byte, `art_iter_prefix` does not
  stop but goes to the children, as after a full match. With the keys 0.0.0.0.0.0,
  0.0.0.0.0.1 and 0.0.0.1.0.0 in the tree, asked for 0.1.0.0.0 it reports the first
  two; where a prefix is shorter than a node's, `key[depth]` is read behind its end.
  `IterPrefixComplete` says that nothing is missed by it.
* `InOrder` (`art.c:346`, "Returns the minimum valued leaf"): bytes from 128 on are
  put first in a NODE16, whose comparison is signed, and the order is kept by a NODE4
  that it shrinks to. `OrderedWhileLow` says that nothing else disturbs the order:
  until a key with such a byte has been inserted, iteration goes in the order of the
  keys.

`wide_radix_empty` is weaker than its test (`test_wide_radix.c:82`) suggests: after
deletes, inner nodes stay, on purpose (`wide_radix.c:124`), and the tree is not called
empty. `LookupExact` says only the converse: a tree that is called empty has no keys.

## What is proved

The theorems hold for all values of the constants that satisfy the modules'
assumptions, which say what the numbers are (a positive depth and radix, non-zero
values, a NULL and other markers that are no values) and how one power of the radix,
of the fan-out or of two follows from the last (the provers know nothing of `^`); TLC
evaluates each for the instances it checks.

**ObjectPool** (any number of blocks, any capacities). The inductive invariant
`PoolOK` adds to the type that every block satisfies `BlockOK`: the stack is as high
as its capacity minus `used`, holds each of the block's free objects once, and the
objects on it together with those held are all the block has. The counter and the
stack must be in it together, since the code decides by the one whether it may write
into the other. From it follow `TypeCorrect`, `ObjectsNeverSharedOrLost`,
`UsedCountsHeld`, `NoNeedlessGrowth`, and `PoolImplementsAllocator`: every step of the
pool is one of the abstract allocator or none.

**BitScan** (any word; any array of words and any range). `TypeCorrect`, and
`FirstSetBitCorrect`: the
mask arithmetic returns the lowest set bit. Isolating the bit leaves a singleton; each
mask then tells one binary digit of its number. `RangeSearchCorrect`: the loop's
invariant `ScanOK` says that no word passed has a bit in the range.

**RadixNew** (any number of levels, words and bits, any pools; allocation failing at
will). Nodes, arrays and the bits in them are described without recursion: the
inductive invariant says that for every array in use there are a level `L`, an owner
`O` (the node and the word that point to it) and the set `T` of the keys that lead
through it, such that

* `ArraysOK`: every pointer leads to an array in use, of the pool for its level, whose
  owner it is; every array in use is pointed to; a key leads to one node of a level;
* `BitsOK`: a word of a node has an array exactly while it has a bit, what is below a
  bit that is not set is empty, and a value is where its key leads;
* `FreeArraysAreClean`: bits, children and values of a free array are 0;
* `PathOK` and `CallOK`: `path` is the way a running call has come along the bits of
  its key, which an insert has set; and what a remove clears next is empty.

The code rests on arrays coming back clean: it never clears one it is given, so a
pointer left behind would lead to an array that is another's. From the invariant
follow `TypeCorrect`, `FreedArraysAreClean`, `ArraysOwned` and `TreeIsMap`; for the
last, the slot of a value is told by its key, digit by digit.

With the record of failed allocations, `NoneHollow` says that until one fails every
bit below the root leads to a stored value. Two bits are exempt, the one an insert has
come through and the one a remove clears next. From that follow `NothingHollow`,
`EmptiedIsSmall` (an emptied tree holds no more than the arrays of its root) and
`GEQIsExact`, each for `NoMoreKeys` than the levels can tell apart (`KeysFit`; with
`log2Align` there are more, and `radix_new_align` shows what happens then). The search
is exact only for at least two levels: a root that is itself a leaf node may have
hollow bits, as `treeRemove` does not clear them.

**WideRadix** (any depth, radix and values, allocation failing at will). The inductive
invariant `Inv` consists of

* `HeapOK`: `TreeOwnsNodes`, and every prefix of a node's path is a node;
* `OnPath`: a running insert or delete is at a node on its key's path, at the level it
  counts;
* `FreedBehind` and `FreedOnlyBehind`: while the tree is destroyed, nothing is left
  where `free_node` has been and nothing is missing where it has not. The first is
  needed for a node to be freed only after all its children, the second for no child
  to be entered that is gone.

From it follow `TypeCorrect`, `NodesNeverLostOrDangling` and `TreeImplementsMap`. For
the last, leaves of different keys have different paths, so a step that changes one
leaf changes one key (`LeafChanged`), and one that changes none changes nothing
(`LeavesKept`). That a key is told by its bytes is proved too (`BytesTellKey`). An
insert takes effect in `InsertLeaf` or `UpdateLeaf`, a delete where it finds its leaf
or the first node missing, and destroying the tree when it begins.

`LookupIsExact` and `GEQIsSound` are about the searches, which are functions over the
levels: what they have come to at a level is shown by looking at the first level where
it would be otherwise. Keys are compared by the first byte in which they differ
(`FirstByteDecides`), so what lies to the right of a path is greater and what lies
to the left smaller; `LeavesOfKeys` says that the leaf a search falls down to belongs
to a key at all.

**CURadix** (any nodes, keys of any number of bits, within calls and between them).
The trie is described without recursion: `IInv` says that there are a depth `D[n]` and
a path `X[n]` for every node of the trie and a rank `R[n]` for every node such that

* `LinksOK`: `selfPtr`, `parent` and `child` lead both ways, and a node that is in no
  slot has no links;
* `PlacesOK`: a node is one deeper than its parent, on its parent's path and one bit,
  and no two are in one place;
* `KeysOK`: the path of a node is the beginning of its key, and the key is above its
  parent's. The node a remove pushes down is exempt, and so the nodes below it must be
  above what is above it: one of them will be its parent's child;
* `RingsOK`: `next` and `prev` are inverse, among nodes of one key; ranks grow along a
  ring up to a node of the trie, or the one an insert carries, and of these no two
  have the same key. So a node alone in its ring is in the trie, and the next of a
  ring with several is not;
* `CallOK`: an insert has come to a slot on the path of the key in hand, above it only
  smaller keys; a node with the new key lies no higher than the slot, and a node that
  was displaced is smaller than what lies there.

The last clause is why an insert that has displaced a node swaps again at every node
it meets, up to an empty slot. The one before it is why the new node is never put
above a node whose ring it should join (`KeyBelowSlot`). That the key bits do not run
out follows because a path as long as the key is the key, and two nodes in hand and in
the slot have different ones. `SmallerChild` needs no comparison of keys: of two
children, the left has the smaller prefix (`PrefixOrder`). What the four kinds of
relinking do to links and places is in `Replaced`, `Swapped`, `HungIn` and `CutOff`;
there is one lemma for each action. From the invariant follow `TypeCorrect`,
`AssertionsNeverFail` and `TrieStaysWellFormed`, for which the layers of `AtDepth` are
shown to be those of `D`.

The queues follow from it without more invariants. Along a ring `R` grows until it is
back at the primary, so its nodes differ, `RingOf` comes round before it has counted
all nodes (this needs that they are finitely many), and no queued node of that key is
left out (`RingNodes`): `NodesQueued`. For `TreeIsMultiMap` there are four ways in
which a step changes queues (`BeginsQueue`, `JoinsQueue`, `LeavesQueue`, `EndsQueue`);
pushing down and carrying on displaced nodes change none, since the carried node still
counts as a primary. For `GEQIsExact`, `WalkOK` says where the search has come to
after each bit: once it has met a node above the key that is the least, because of the
heap order; until then the nodes from the key on are below the node at hand or not
smaller than `gtTree`.

**AVL** (any finite set of nodes, any keys, within calls and between them). The tree
is described without recursion by a set `T[n]` for every node, the nodes from it down,
as ghosts the invariants say there are. `InShape` says of them

* `Tree`: `T[n]` is `n` and the sets of its two children, which do not meet and have
  it for a parent; the set of the root is `linked`, and every other linked node is a
  child of its parent;
* `Ordered`: what is on a side of a node has keys on that side of its own.

It is inductive by itself, whatever is rotated: each operation that relinks has a
lemma that says which links it changes and one that says which sets
(`RotateLinks` and `Turned`, `SpliceLinks` and `Without`, `ReplaceLinks` and
`ReplacedIn`, `HungLinks` and `HungIn`). A double rotation is two single ones, and a
remove with two children is the successor spliced out and put in the place of the
node. That a `Path` ends before its rounds are counted is shown by the size of `T[n]`:
it falls on the way down and grows on the way up, and there are finitely many nodes.
So a climb goes through the nodes whose set has the one it began at (`ClimbIs`), and a
search either comes to its key or leaves every other node on the right side of some
node on its way (`Beyond`, `LastInIs`). `LinksAlwaysAgree`, `SearchesAlwaysExact`,
`NeighboursAlwaysExact` and `TreeIsNodeMap` follow.

`InBalance` adds the heights. A state in the middle of a walk is not balanced, so it
is compared with the heights `Old` before the links were changed, of which it says
that every node on the way up was right and balanced with them (`Was`): that is
`Walking`. The node the walk is at may have one side that has changed by one from what
it was (`At`), and if an insert has made it higher, the child there leans itself: an
insert never meets a child that is too high and leans to neither side, the case the
code leaves to removes (`isDelete`). Each of the three ways to go on leaves what is
below even and of the old height or one off (`Kept`), which is `At` for the next node
(`MoveUp`).
A successor that moves up keeps its own height in the code, however wrong; in `Old` it
has that of the node it replaces. From `InBalance` follow `TypeCorrect`,
`WalksBalance`, and `WalksClimb`: each iteration strictly shrinks the set of nodes still
to visit, so the walk ends if it goes on, which is what `EveryWalkEnds` asks.

**ArtNode** (layouts of any sizes that satisfy `SizesAssumption`, so those of the
code: 4, 16, 48 and 256 children). `WellFormed` is what the layouts rest on: a list
holds no byte twice; in a NODE48 the bytes with a place and the places with a child
correspond one to one, which is why a free place is found and why `num_children`
counts both; in a NODE256 `num_children` is the count modulo 256. `AddChildCorrect`
and `RemoveChildCorrect`: adding a child to a byte without one, and removing one,
leave a well-formed node, the next larger or smaller one where it changes layout, in
which `find_child` answers differently for that byte only. Shrinking needs
`num_children` to be exact, which the proof gets from the child just removed: a
NODE256 with all bytes taken, counted as 0, never shrinks. The lists of a NODE4 lose a
child in `remove_child4` of `Art`; `RemoveListed` is about that step (`RemoveAt`). The
place of a new key among the others is arbitrary in `InsertListed`, so none of this
depends on the order, signed or not.

**Art** (any byte count and layouts as above, any number of stored bytes, any finite
set of keys none of which begins another, any prefixes; whatever lies behind the end
of a key). A subtree is a value of any depth, and the provers have no induction over
it. So a `Tree` is described as a set of subtrees, each with the place where it hangs
(the bytes on the way to it), the places and the entries below it, such that every
subtree in the set has its children in it too (`Whole`). The parts are

* `Sound`: every entry's key begins with the place, no key is there twice, and
  (`Pairing`) there are fewer places than twice the entries, since no node has one
  child alone;
* `LeafSub`: a leaf is at a place that begins its key;
* `InnerSub`: a node has a stem, its place and prefix; the child of byte `b` hangs at
  the stem and `b`; its stored bytes are those of the stem behind the place
  (`Stored`); and it `Fits`: it is `WellFormed` and has as many children as its layout
  is made for.

The invariant `Inv` says that the root is freed, NULL or a tree at the empty place,
that `size` is the number of its entries and `blocks` the number of its places
(`Holds`). The bytes that a node does not store appear in the stem only. So what the
code does about them is what is shown: `MismatchIs`, reading them from the least leaf
below gives those of the stem (every leaf would do, `MinimumIs`); `SplitPrefixTree`,
splitting a prefix at or behind the stored bytes gives the lower node those of its
shorter prefix; `ChildLifted`, merging two prefixes stores the first bytes of both and
the byte between.

A call's way is in `WalkEnds`: after each step it is at a subtree of the tree
(`Under`), and what is written there comes into the whole tree, with all else as it
was (`Hangs`, `WrittenIs`). It is stated for what the calls have in common, a
condition under which a call goes on (`Onward`) and a key below which it must stay
(`InsertOnward`, `FoundOnward`, `SearchOnward`, `IterOnward`). That a search skips
bytes that are not stored does no harm, because it compares the whole key in the leaf,
and a key that is in the tree agrees with all it skips. What a call makes of
the whole is then `InsertIs`, `DeleteIs`, `SearchIs` and `IterIs`. `destroy_node` comes
to every place once: the ways to two places differ (`VisitedSeen`), so it frees as
many blocks as there are places (`FreedIs`).

From `InvAlways` follow `TypeCorrect`, `NodesAlwaysFit`, `PathsAlwaysSpellKeys`,
`NothingLeaksAlways`, `SearchAlwaysExact`, `IterPrefixAlwaysComplete` and
`MapImplemented`.

**ArtOrder** (as above, and any `HighByte`). `OrderedAlwaysWhileLow` rests on a second
invariant, `HistoryInv`: with `Inv`, and unless a high byte has been inserted, no
entry has a high byte (`Low`) and every inner node of the tree is `Rising`: the keys
of a list go up, and the other layouts are indexed by the byte (`Ordered`). That the
entries are low must be in it, since a node's bytes are those of keys in the tree.
Layout by layout, adding and removing a child keep a node rising: the lists because
the signed and the unsigned comparison agree on low bytes, growing and shrinking
because they go through the bytes upwards. The two lists are sorted by the code alone,
so this is where a wrong position in `add_child16`, or a child moved without its byte,
would show. `InsertOrders` and `DeleteOrders` carry it through a call's way down,
splits and merges of prefixes included. A tree in order is then shown to be visited in
order, level by level (`OrderSeen`): two ways part at a node whose places rise with
its bytes, and so the keys below them part at that byte, in the same direction
(`LeavesInOrder`). On the ways of `minimum` and `maximum` every step leaves behind
greater or lesser keys only (`Downs`, `SideEnd`).

Only model-checked: the liveness property `EveryWalkEnds`, for which the provers have
no rules of fairness (`WalksClimb` is the part of it that is about the code). All
safety properties and refinements of the passing runs are proved.

## What is not modelled

* The benchmarks and tests: they keep no state of their own.
* Calls against the contract of the interface: freeing an object twice, inserting a
  CUDA or AVL node that is linked, removing an AVL node that is not (it empties the
  tree), removing from a Radix New tree before `treeInit`, asking the CUDA tree for a
  key wider than `key_bits` (`radixTreeInsert` checks for that, `radixTreeFindGEQ`
  does not), trees of more than eight levels.
* The value 0 (NULL), which all map interfaces use for "absent".
* Address arithmetic and its overflow: pools are some hundred kilobytes.
* In the adaptive radix tree: a key that is the beginning of another (the code reads
  `key[depth]` behind its end; callers use keys of one length or end them with a byte
  of their own), `malloc` failing (the code uses the pointer unchecked), and a
  callback that stops an iteration.
* Aligned or unaligned loads, intrinsics and compiler workarounds in `art.c`: only
  what is compared is modelled.

## Plan

1. Done: all six containers and the word search, each with its abstract specification;
   proofs about all seven.
2. Done: every safety property of the passing runs is proved, the order of iteration
   of the adaptive radix tree last.
