-------------------------------- MODULE Trie --------------------------------
(***************************************************************************)
(* The Merkle Patricia trie (lemma-storage/src/trie: node.rs, trie.rs,     *)
(* proof.rs): insertion, lookup, proofs and their verification.            *)
(*                                                                         *)
(* Hashes are collision free and nodes are stored under their hash, so a   *)
(* node stands for its hash and a root for the whole trie below it; old    *)
(* roots stay readable.  Paths are sequences of nibbles.                   *)
(***************************************************************************)
EXTENDS Options, Integers, Sequences, FiniteSets

CONSTANTS
    Nibbles,       \* 0..15 in the code
    TrieKeys,      \* keys, as nibble paths
    TrieValues,
    MaxInserts     \* bound of the model

Leaf(path, value) == [kind |-> "leaf", path |-> path, value |-> value]
Extension(prefix, child) == [kind |-> "extension", prefix |-> prefix, child |-> child]
Branch(children, value) == [kind |-> "branch", children |-> children, value |-> value]

Skip(path, n) == SubSeq(path, n + 1, Len(path))
Take(path, n) == SubSeq(path, 1, n)
StartsWith(path, prefix) == Len(prefix) <= Len(path) /\ Take(path, Len(prefix)) = prefix
CommonPrefixLen(p, q) ==
    Cardinality({n \in 1..Len(p) : n <= Len(q) /\ Take(p, n) = Take(q, n)})

-----------------------------------------------------------------------------
(* Reading *)

RECURSIVE Get(_, _)
Get(node, path) ==
    CASE node = None -> None
      [] node # None /\ node.kind = "leaf" -> IF node.path = path THEN node.value ELSE None
      [] node # None /\ node.kind = "extension" ->
           IF StartsWith(path, node.prefix) THEN Get(node.child, Skip(path, Len(node.prefix))) ELSE None
      [] node # None /\ node.kind = "branch" ->
           IF path = <<>> THEN node.value ELSE Get(node.children[path[1]], Skip(path, 1))

-----------------------------------------------------------------------------
(* Writing *)

\* A branch for the paths, each with its value, that part here or end here.
Forked(paths) ==
    Branch([n \in Nibbles |->
              IF \E r \in paths : r.path # <<>> /\ r.path[1] = n
              THEN LET r == CHOOSE r \in paths : r.path # <<>> /\ r.path[1] = n
                   IN  Leaf(Skip(r.path, 1), r.value)
              ELSE None],
           IF \E r \in paths : r.path = <<>> THEN (CHOOSE r \in paths : r.path = <<>>).value ELSE None)

Shortened(common, prefix, node) == IF common > 0 THEN Extension(Take(prefix, common), node) ELSE node

\* insert_at_leaf, build_diverging_branch
InsertAtLeaf(leaf, path, value) ==
    LET common == CommonPrefixLen(leaf.path, path)
    IN  IF common = Len(leaf.path) /\ common = Len(path) THEN Leaf(path, value)
        ELSE Shortened(common, path,
                       Forked({[path |-> Skip(leaf.path, common), value |-> leaf.value],
                               [path |-> Skip(path, common), value |-> value]}))

\* Mutant: the rest of the prefix always gets an extension, if only an empty one.
SplitExtensionLong(prefix, child, path, value, common) ==
    LET rest == Extension(Skip(prefix, common + 1), child)
        other == Forked({[path |-> Skip(path, common), value |-> value]})
    IN  [other EXCEPT !.children[prefix[common + 1]] = rest]

SplitExtension(prefix, child, path, value, common) ==
    LET rest == IF common + 1 < Len(prefix) THEN Extension(Skip(prefix, common + 1), child) ELSE child
        other == Forked({[path |-> Skip(path, common), value |-> value]})
    IN  [other EXCEPT !.children[prefix[common + 1]] = rest]

\* insert_recursive with insert_at_extension and insert_at_branch
RECURSIVE Inserted(_, _, _)
Inserted(node, path, value) ==
    CASE node = None -> Leaf(path, value)
      [] node # None /\ node.kind = "leaf" -> InsertAtLeaf(node, path, value)
      [] node # None /\ node.kind = "extension" ->
           LET common == CommonPrefixLen(path, node.prefix)
           IN  IF common = Len(node.prefix)
               THEN Extension(node.prefix, Inserted(node.child, Skip(path, common), value))
               ELSE Shortened(common, node.prefix,
                              SplitExtension(node.prefix, node.child, path, value, common))
      [] node # None /\ node.kind = "branch" ->
           IF path = <<>> THEN [node EXCEPT !.value = value]
           ELSE [node EXCEPT !.children[path[1]] = Inserted(@, Skip(path, 1), value)]

-----------------------------------------------------------------------------
(* Proofs *)

RECURSIVE CollectProof(_, _)
CollectProof(node, path) ==
    <<node>> \o
      CASE node.kind = "leaf" -> <<>>
        [] node.kind = "extension" ->
             IF StartsWith(path, node.prefix) THEN CollectProof(node.child, Skip(path, Len(node.prefix))) ELSE <<>>
        [] node.kind = "branch" ->
             IF path = <<>> \/ node.children[path[1]] = None THEN <<>>
             ELSE CollectProof(node.children[path[1]], Skip(path, 1))

GenerateProof(root, key) ==
    [key |-> key, value |-> Get(root, key), nodes |-> CollectProof(root, key)]

Consumed(node) ==
    CASE node.kind = "branch" -> 1 [] node.kind = "extension" -> Len(node.prefix) [] OTHER -> 0

RECURSIVE Depth(_, _)
Depth(nodes, i) == IF i = 1 THEN 0 ELSE Depth(nodes, i - 1) + Consumed(nodes[i - 1])

\* verify_child_linkage.  An extension's prefix is not compared with the key.
VerifyChildLinkage(parent, child, path, depth) ==
    CASE parent.kind = "branch" -> depth < Len(path) /\ parent.children[path[depth + 1]] = child
      [] parent.kind = "extension" -> parent.child = child
      [] parent.kind = "leaf" -> FALSE

VerifyTerminalNode(last, rest, value) ==
    CASE last.kind = "leaf" ->
           IF value # None THEN last.path = rest /\ last.value = value ELSE last.path # rest
      [] last.kind = "branch" ->
           IF value # None THEN rest = <<>> /\ last.value = value
           ELSE IF rest = <<>> THEN last.value = None ELSE last.children[rest[1]] = None
      [] last.kind = "extension" -> value = None /\ ~StartsWith(rest, last.prefix)

Verify(proof, expected_root) ==
    LET n == Len(proof.nodes)
    IN  /\ n > 0
        /\ \A i \in 1..n - 1 :
             VerifyChildLinkage(proof.nodes[i], proof.nodes[i + 1], proof.key, Depth(proof.nodes, i))
        /\ proof.nodes[1] = expected_root
        /\ VerifyTerminalNode(proof.nodes[n], Skip(proof.key, Depth(proof.nodes, n)), proof.value)

-----------------------------------------------------------------------------
(* A trie that is written key by key, against the map it stands for.        *)

VARIABLES
    trie,          \* the current root, None when empty
    contents,      \* ghost: the map it should hold
    inserts

tvars == <<trie, contents, inserts>>

TrieInit == trie = None /\ contents = [k \in TrieKeys |-> None] /\ inserts = 0

InsertKey(key, value) ==
    /\ inserts < MaxInserts
    /\ inserts' = inserts + 1
    /\ trie' = Inserted(trie, key, value)
    /\ contents' = [contents EXCEPT ![key] = value]

TrieNext == \E k \in TrieKeys, v \in TrieValues : InsertKey(k, v)

-----------------------------------------------------------------------------

\* The one trie of a map: a leaf for one key, else an extension for the common
\* prefix of all keys, if it is not empty, over a branch.
RECURSIVE Canonical(_)
Canonical(map) ==
    LET keys == DOMAIN map
        one == CHOOSE k \in keys : TRUE
        common == CHOOSE n \in 0..Len(one) :
                    /\ \A k \in keys : StartsWith(k, Take(one, n))
                    /\ n = Len(one) \/ \E k \in keys : ~StartsWith(k, Take(one, n + 1))
        Below(nibble) == {k \in keys : Len(k) > common /\ k[common + 1] = nibble}
        branch == Branch([n \in Nibbles |->
                            Canonical([k \in {Skip(k, common + 1) : k \in Below(n)} |->
                                         map[Take(one, common) \o <<n>> \o k]])],
                         IF Take(one, common) \in keys THEN map[Take(one, common)] ELSE None)
    IN  CASE keys = {} -> None
          [] Cardinality(keys) = 1 -> Leaf(one, map[one])
          [] OTHER -> Shortened(common, one, branch)

\* The trie maps every key to the value last inserted for it, and its root is a
\* function of that map alone: nodes that apply the same writes in any order
\* agree on the state root.
RootIsCanonical ==
    /\ \A k \in TrieKeys : Get(trie, k) = contents[k]
    /\ trie = Canonical([k \in {k \in TrieKeys : contents[k] # None} |-> contents[k]])

\* Every key has a proof of presence or absence that verifies against the root,
\* and the same nodes prove no other value for it.
ProofsComplete ==
    trie # None =>
      \A k \in TrieKeys :
        LET proof == GenerateProof(trie, k)
        IN  \A v \in TrieValues \cup {None} :
              Verify([proof EXCEPT !.value = v], trie) <=> v = contents[k]

\* A proof that verifies is true: the nodes of any walk through the trie, whole
\* or cut short, prove nothing of any key but what the trie holds.
ProofsSound ==
    trie # None =>
      \A walk, k \in TrieKeys, v \in TrieValues \cup {None} :
        LET nodes == CollectProof(trie, walk)
        IN  \A n \in 1..Len(nodes) :
              Verify([key |-> k, value |-> v, nodes |-> Take(nodes, n)], trie) => v = contents[k]

\* The root stands for the map and every key can be proved against it.
TrieSound == RootIsCanonical /\ ProofsComplete
=============================================================================
