------------------------------ MODULE MCProbe ------------------------------
(***************************************************************************)
(* A small probe: a set object, an object with a filter that may be asked  *)
(* for while the set is evaluated, and a second request for that object,   *)
(* which is told to skip its evaluation.  After it the algorithms of a     *)
(* probe, compared with what they should compute for all small inputs.     *)
(***************************************************************************)
EXTENDS Probe, Integers, Sequences, FiniteSets, SequencesExt

MCRequests == {"set", "member", "again"}
MCObjects == {"S", "M"}
MCObjectOf == [r \in MCRequests |-> IF r = "set" THEN "S" ELSE "M"]
MCSets == {"set"}
MCFiltered == {"member"}
MCSkipped == {"again"}

-----------------------------------------------------------------------------
(* The search for files over small trees: /a has a file, a link and the    *)
(* directory /a/b, which has a file; the link leads to any of these, up or *)
(* down, or nowhere, and /a/b may be on another device, a remote one.      *)

T == INSTANCE FileTree

Entry(name, node) == [name |-> name, node |-> node]
Node(kind, dev, entries) == [kind |-> kind, dev |-> dev, entries |-> entries, target |-> {}]
Targets == {{}, {"/"}, {"a"}, {"b"}, {"f"}}
\* The file in /a and the link have the name n, or the link has another.
Tree(target, dev, link) ==
  [local |-> {1},
   node |-> [n \in {"/", "a", "b", "f", "g", "l"} |->
     CASE n = "/" -> Node("dir", 1, <<Entry("a", "a")>>)
       [] n = "a" -> Node("dir", 1, <<Entry("n", "f"), Entry(link, "l"), Entry("b", "b")>>)
       [] n = "b" -> Node("dir", dev, <<Entry("n", "g")>>)
       [] n = "f" -> Node("file", 1, <<>>)
       [] n = "g" -> Node("file", dev, <<>>)
       [] n = "l" -> [Node("link", 1, <<>>) EXCEPT !.target = target]]]
Trees == {Tree(target, dev, "k") : target \in Targets, dev \in {1, 2}}

Behaviours(directions, recursions) ==
  [direction : directions, depth : {-1, 0, 1}, recurse : recursions,
   filesystem : {"all", "local", "defined"}]
AllRecursions == {"symlinks and directories", "directories", "symlinks", "files and directories"}
WithDirs == {"symlinks and directories", "directories"}

\* A path that is to be equal to base, and a name, or {}.
Object(base, names) ==
  [op |-> "equals", base |-> base, paths |-> {base}, partial |-> {}, names |-> names,
   filepath |-> FALSE]

\* The reference: ways down from a directory, each [path, nodes], the nodes of
\* the directories on it.  A way goes on from a directory on a file system
\* that is wanted, to one that is not on the way.
Goes(fs, b, dev, way, e) ==
  LET last == Last(way.nodes)
      through == fs.node[e.node].kind = "link"
  IN /\ ~T!OtherDevice(fs, b, dev, last)
     /\ through => b.recurse = "symlinks and directories" /\ ~T!OtherDevice(fs, b, dev, e.node)
     /\ \E n \in T!Followed(fs, e.node) : fs.node[n].kind = "dir" /\ n \notin Range(way.nodes)
RECURSIVE Ways(_, _, _, _, _)
Ways(fs, b, dev, way, depth) ==
  {way} \cup
  IF depth = 0 THEN {}
  ELSE UNION {Ways(fs, b, dev,
                   [path |-> Append(way.path, e.name),
                    nodes |-> Append(way.nodes, CHOOSE n \in T!Followed(fs, e.node) : TRUE)],
                   depth - 1) :
              e \in {e \in Range(fs.node[Last(way.nodes)].entries) : Goes(fs, b, dev, way, e)}}

Limit(b) == IF b.direction = "none" THEN 0 ELSE IF b.depth = -1 THEN 9 ELSE b.depth
Found(fs, b, names, base) ==
  LET n == T!TheNode(fs, base)
      dev == fs.node[n].dev
      ways == Ways(fs, b, dev, [path |-> base, nodes |-> <<n>>], Limit(b))
  IN IF T!OtherDevice(fs, b, dev, n) THEN {}
     ELSE IF names = {} THEN {way.path : way \in ways}
     ELSE UNION {{Append(way.path, e.name) :
                   e \in {e \in Range(fs.node[Last(way.nodes)].entries) :
                            e.name \in names /\ fs.node[e.node].kind # "dir"}} :
                 way \in {way \in ways : ~T!OtherDevice(fs, b, dev, Last(way.nodes))}}

\* Going down finds what the ways lead to: directories up to the depth, files
\* in them, through links if wanted, never through a directory twice; a mount
\* point is found though it is not entered.
ASSUME DownFindsWhatIsBelow ==
  \A fs \in Trees, b \in Behaviours({"down", "none"}, WithDirs), names \in {{}, {"n"}, {"k"}},
     base \in {<<>>, <<"a">>, <<"a", "b">>} :
    Range(T!oval_fts_read(fs, Object(base, names), b)) = Found(fs, b, names, base)

\* The other two kinds of recursion enter nothing: with links alone the
\* directory behind one is skipped, and "files and directories" are files and
\* links.
ASSUME OthersDoNotRecurse ==
  \A fs \in Trees, b \in Behaviours({"down"}, AllRecursions \ WithDirs), base \in {<<>>, <<"a">>} :
    \A path \in Range(T!oval_fts_read(fs, Object(base, {"n"}), b)) : Len(path) = Len(base) + 1

\* Going up finds the files of the directories above, as many as the depth
\* says, and, unlike going down, a directory that has the name.
ASSUME UpFindsWhatIsAbove ==
  LET Above(b, base) == {SubSeq(base, 1, k) : k \in
                           {k \in 0 .. Len(base) : b.depth = -1 \/ Len(base) - k <= b.depth}}
      Here(fs, path, names) ==
        {Append(path, e.name) : e \in {e \in Range(fs.node[T!TheNode(fs, path)].entries) :
                                         e.name \in names}}
  IN \A fs \in Trees, b \in Behaviours({"up"}, {"directories"}), base \in {<<"a">>, <<"a", "b">>} :
       b.filesystem = "all" =>
         /\ Range(T!oval_fts_read(fs, Object(base, {"n"}), b))
              = UNION {Here(fs, path, {"n"}) : path \in Above(b, base)}
         /\ Range(T!oval_fts_read(fs, Object(base, {}), b)) = Above(b, base)
         /\ <<"a", "b">> \in Range(T!oval_fts_read(fs, Object(base, {"b"}), b))

\* Not entering a directory whose path cannot be continued to one that matches
\* loses nothing.
ASSUME PartialMatchesSuffice ==
  LET some == {<<>>, <<"a">>, <<"a", "b">>, <<"a", "k">>, <<"a", "k", "b">>, <<"a", "n">>}
      partial(paths) == UNION {Prefixes(path) : path \in paths}
      Pattern(paths, continued, file) ==
        [op |-> "pattern", base |-> <<>>, paths |-> paths, partial |-> continued, names |-> {},
         filepath |-> file]
      b == [direction |-> "none", depth |-> -1, recurse |-> "directories", filesystem |-> "all"]
  IN \A fs \in Trees, paths \in SUBSET some, file \in BOOLEAN :
       T!oval_fts_read(fs, Pattern(paths, partial(paths), file), b)
         = T!oval_fts_read(fs, [Pattern(paths, {}, file) EXCEPT !.op = "not_equal"], b)

\* Without links a path is found once.  A link whose name matches is found
\* twice when it is followed: as what it is and as what it leads to.
ASSUME FoundOnce ==
  LET deep == [direction |-> "down", depth |-> -1, recurse |-> "directories", filesystem |-> "all"]
      Once(s) == Cardinality(Range(s)) = Len(s)
      find(fs, names, recurse) ==
        T!oval_fts_read(fs, Object(<<"a">>, names), [deep EXCEPT !.recurse = recurse])
  IN /\ \A fs \in Trees, names \in {{}, {"n"}, {"k"}} : Once(find(fs, names, "directories"))
     /\ find(Tree({"f"}, 1, "k"), {"k"}, "symlinks and directories") = <<<<"a", "k">>, <<"a", "k">>>>

-----------------------------------------------------------------------------
(* All trees that adding and deleting seven keys can lead to.              *)

RB == INSTANCE RedBlackTree WITH NULL <- 0, Fake <- -1

TreeKeys == 1 .. 7
DataOf(k) == 10 * k

TreeSteps(t) == {RB!rbt_i32_add(t, k, DataOf(k), FALSE).tree : k \in TreeKeys}
                  \cup {RB!rbt_i32_del(t, k).tree : k \in TreeKeys}
RECURSIVE TreesFrom(_, _)
TreesFrom(all, new) ==
  LET next == UNION {TreeSteps(t) : t \in new} \ all
  IN IF next = {} THEN all ELSE TreesFrom(all \cup next, next)
RBTrees == TreesFrom({RB!rbt_new}, {RB!rbt_new})

\* The keys below a node, and how many black nodes are above an end, {} if
\* that depends on the end.
RECURSIVE KeysBelow(_, _), BlackHeight(_, _)
KeysBelow(t, n) ==
  IF n = 0 THEN {}
  ELSE {t.mem[n].key} \cup UNION {KeysBelow(t, c) : c \in Range(t.mem[n].chld)}
BlackHeight(t, n) ==
  IF n = 0 THEN {0}
  ELSE LET l == BlackHeight(t, t.mem[n].chld[RB!SL])
           r == BlackHeight(t, t.mem[n].chld[RB!SR])
       IN IF l # r THEN {} ELSE {h + (IF t.mem[n].red THEN 0 ELSE 1) : h \in l}

IsOrdered(t) ==
  \A n \in DOMAIN t.mem :
    /\ \A k \in KeysBelow(t, t.mem[n].chld[RB!SL]) : k < n
    /\ \A k \in KeysBelow(t, t.mem[n].chld[RB!SR]) : k > n
IsRedBlack(t) ==
  /\ ~RB!Red(t.mem, t.root)
  /\ \A n \in DOMAIN t.mem : RB!Red(t.mem, n) => \A c \in Range(t.mem[n].chld) : ~RB!Red(t.mem, c)
  /\ BlackHeight(t, t.root) # {}

\* Whatever was added and deleted, the tree is in order, no red node has a
\* red child, every way down has as many black nodes, and all nodes are on it:
\* the repairs on the way down of rbt_i32_add and rbt_i32_del work with
\* pointers taken before the rotations.
ASSUME TreesStayBalanced ==
  \A t \in RBTrees : /\ IsOrdered(t) /\ IsRedBlack(t)
                   /\ KeysBelow(t, t.root) = DOMAIN t.mem
                   /\ t.size = Cardinality(DOMAIN t.mem)

\* The trees are maps: a call changes the entry of its key and no other, says
\* whether it was there, and the assertion in rbt_i32_del holds.
ASSUME TreesAreMaps ==
  \A t \in RBTrees : \A k \in TreeKeys :
    LET Entries(u) == [x \in DOMAIN u.mem |-> u.mem[x].data]
        there == k \in DOMAIN t.mem
        added == RB!rbt_i32_add(t, k, DataOf(k), FALSE)
        replaced == RB!rbt_i32_add(t, k, 7, TRUE)
        deleted == RB!rbt_i32_del(t, k)
    IN /\ RB!rbt_i32_get(t, k) = IF there THEN {DataOf(k)} ELSE {}
       /\ added.r = IF there THEN 1 ELSE 0
       /\ Entries(added.tree) = [x \in DOMAIN t.mem \cup {k} |-> DataOf(x)]
       /\ replaced.r = 0
       /\ replaced.coll = IF there THEN {DataOf(k)} ELSE {}
       /\ Entries(replaced.tree)
            = [x \in DOMAIN t.mem \cup {k} |-> IF x = k THEN 7 ELSE DataOf(x)]
       /\ deleted.r = IF there THEN 0 ELSE 1
       /\ deleted.data = IF there THEN {DataOf(k)} ELSE {}
       /\ Entries(deleted.tree) = [x \in DOMAIN t.mem \ {k} |-> DataOf(x)]

\* A walk sees every entry once, in order.
ASSUME WalksSeeAllOnce ==
  \A t \in RBTrees : LET seen == RB!rbt_walk_inorder2(t)
                   IN /\ Range(seen) = DOMAIN t.mem
                      /\ \A i \in 1 .. Len(seen) - 1 : seen[i] < seen[i + 1]
=============================================================================
