------------------------------ MODULE FileTree ------------------------------
(***************************************************************************)
(* Which files and directories an object of a file system stands for:      *)
(* probes/oval_fts.c, over the C library's fts.                            *)
(*                                                                         *)
(* A file system is fs = [node, local]: fs.node[n] is [kind, dev, entries, *)
(* target], entries a directory's sequence of [name, node], target what a  *)
(* link leads to, {} when nothing, never a link; fs.local are the devices  *)
(* mounted from this machine.  Node "/" is the root, a path a sequence of names.        *)
(*                                                                         *)
(* obj = [op, base, paths, partial, names, filepath]: how its path or file *)
(* path is compared, where its search begins, the paths that match, those  *)
(* that do or could be continued to one that does (what pcre says of a     *)
(* partial match), the names that match, {} without a file name, and       *)
(* whether it has a file path.  b are its behaviours.                      *)
(***************************************************************************)
EXTENDS Integers, Sequences, SequencesExt, FiniteSets

Dirs(b) == b.recurse \in {"symlinks and directories", "directories"}
\* "files and directories" has the bits of files and symlinks.
Symlinks(b) == b.recurse \in {"symlinks and directories", "files and directories", "symlinks"}

\* The node behind a link.
Followed(fs, n) ==
  IF fs.node[n].kind = "link" THEN fs.node[n].target ELSE {n}

Info(kind) == CASE kind = "dir" -> "D" [] kind = "file" -> "F" [] kind = "link" -> "SL"

\* Depth 0 is where the walk began; -1 is no limit.
WithinDepth(b, level) == b.depth = -1 \/ level <= b.depth

\* A file system the walk must not enter.  dev is the device the search began
\* on.
OtherDevice(fs, b, dev, n) ==
  \/ b.filesystem = "local" /\ fs.node[n].dev \notin fs.local
  \/ b.filesystem = "defined" /\ fs.node[n].dev # dev
Foreign(fs, w, e) == e.info \in {"D", "SL"} /\ OtherDevice(fs, w.b, w.dev, e.node)

NoFurther(w, e) == w.obj.op = "pattern" /\ e.info = "D" /\ e.path \notin w.obj.partial

\* What the code tells fts of an entry of the walk w.
Instruction(fs, w, e) ==
  CASE w.phase = "match" ->
         IF e.info = "SL" THEN "follow"
         ELSE IF Foreign(fs, w, e) \/ NoFurther(w, e) THEN "skip" ELSE "none"
    [] w.phase = "down" ->
         IF e.level > 0 /\ (w.b.direction = "none" \/ ~WithinDepth(w.b, e.level)) THEN "skip"
         ELSE IF e.level > 0 /\ e.info = "D" /\ ~Dirs(w.b) THEN "skip"
         ELSE IF e.level > 0 /\ e.info = "SL" /\ ~Symlinks(w.b) THEN "skip"
         ELSE IF Foreign(fs, w, e) THEN "skip"
         ELSE IF e.level > 0 /\ e.info = "SL" THEN "follow" ELSE "none"
    [] w.phase = "up" ->
         IF e.info = "SL" THEN "follow"
         ELSE IF e.level > 0 \/ w.obj.names = {} THEN "skip" ELSE "none"

-----------------------------------------------------------------------------
(* fts_open and fts_read: the entries of a walk in their order.  A         *)
(* directory comes before (D) and after (DP) what is in it, and once (DC)  *)
(* when it is inside itself; a link comes back as its target when it is to *)
(* be followed, and the first entry always is.                             *)

RECURSIVE Visit(_, _, _, _), WalkEntries(_, _, _, _)

\* above are the directories on the way to the entry.
Visit(fs, w, e, above) ==
  IF e.info = "D" /\ e.node \in above THEN <<[e EXCEPT !.info = "DC"]>>
  ELSE LET told == Instruction(fs, w, e)
       IN CASE e.info = "D" ->
                 <<e>> \o (IF told = "skip" THEN <<>>
                           ELSE WalkEntries(fs, w, e, above \cup {e.node}))
                       \o <<[e EXCEPT !.info = "DP"]>>
            [] e.info = "SL" /\ told = "follow" ->
                 <<e>> \o (IF fs.node[e.node].target = {} THEN <<[e EXCEPT !.info = "SLNONE"]>>
                           ELSE LET t == CHOOSE t \in fs.node[e.node].target : TRUE
                                IN Visit(fs, w, [e EXCEPT !.node = t,
                                                          !.info = Info(fs.node[t].kind)], above))
            [] OTHER -> <<e>>

WalkEntries(fs, w, e, above) ==
  LET entries == fs.node[e.node].entries
      Entry(i) == [path |-> Append(e.path, entries[i].name), node |-> entries[i].node,
                   info |-> Info(fs.node[entries[i].node].kind), level |-> e.level + 1]
  IN FlattenSeq([i \in DOMAIN entries |-> Visit(fs, w, Entry(i), above)])

\* The node at a path, if any; the last name's may be a link.
NodeAt(fs, path) ==
  FoldLeft(LAMBDA N, name : {x.node : x \in
             {y \in UNION {Range(fs.node[n].entries) : n \in UNION {Followed(fs, m) : m \in N}} :
                y.name = name}},
           {"/"}, path)
TheNode(fs, path) == CHOOSE n \in NodeAt(fs, path) : TRUE

Walk(fs, w, path) ==
  LET n == TheNode(fs, path)
      entry == [path |-> path, node |-> n, info |-> "SLNONE", level |-> 0]
  IN IF Followed(fs, n) = {} THEN <<entry>>
     ELSE LET t == CHOOSE t \in Followed(fs, n) : TRUE
          IN Visit(fs, w, [entry EXCEPT !.node = t, !.info = Info(fs.node[t].kind)], {})

-----------------------------------------------------------------------------
(* oval_fts_read_match_path: the directories, or of a file path the files, *)
(* that match.  A link is never one, its target is.                        *)

Matching(fs, obj, b, dev) ==
  LET w == [phase |-> "match", obj |-> obj, b |-> b, dev |-> dev]
      Matches(e) == /\ e.info \notin {"DP", "DC", "SL"}
                    /\ ~Foreign(fs, w, e) /\ ~NoFurther(w, e)
                    /\ obj.filepath = (e.info # "D")
                    /\ e.path \in obj.paths
  IN SelectSeq(Walk(fs, w, obj.base), Matches)

-----------------------------------------------------------------------------
(* oval_fts_read_recurse_path: from a directory that matches.              *)

NamedFile(obj, e) == e.info # "D" /\ e.path # <<>> /\ Last(e.path) \in obj.names

Down(fs, obj, b, dev, path) ==
  LET w == [phase |-> "down", obj |-> obj, b |-> b, dev |-> dev]
      Collected(e) ==
        /\ e.info \notin {"DP", "DC"}
        /\ IF obj.names = {} THEN e.info = "D" /\ WithinDepth(b, e.level) ELSE NamedFile(obj, e)
  IN IF b.direction = "none" /\ obj.names = {} THEN <<path>>
     ELSE LET found == SelectSeq(Walk(fs, w, path), Collected)
          IN [i \in DOMAIN found |-> found[i].path]

\* One directory of the way up, as far as it is on the file system.  Here a
\* directory that fts leaves again is an entry like any other.
OfAncestor(fs, obj, b, dev, path) ==
  LET w == [phase |-> "up", obj |-> obj, b |-> b, dev |-> dev]
      entries == Walk(fs, w, path)
      Stops(i) == OtherDevice(fs, b, dev, entries[i].node)
      upto == CHOOSE k \in 0 .. Len(entries) :
                /\ \A i \in 1 .. k : ~Stops(i)
                /\ k = Len(entries) \/ Stops(k + 1)
      Collected(e) == IF obj.names = {} THEN e.level = 0 /\ e.info = "D" ELSE NamedFile(obj, e)
      found == SelectSeq(SubSeq(entries, 1, upto), Collected)
  IN [i \in DOMAIN found |-> found[i].path]

Up(fs, obj, b, dev, path) ==
  LET steps == IF b.depth = -1 \/ b.depth > Len(path) THEN Len(path) ELSE b.depth
  IN FlattenSeq([k \in 1 .. steps + 1 |->
       OfAncestor(fs, obj, b, dev, SubSeq(path, 1, Len(path) - (k - 1)))])

-----------------------------------------------------------------------------
\* All that oval_fts_read returns until it returns nothing.  A path that is
\* to be equal is looked for once.
oval_fts_read(fs, obj, b) ==
  IF NodeAt(fs, obj.base) = {} THEN <<>>
  ELSE LET dev == fs.node[TheNode(fs, obj.base)].dev
           found == Matching(fs, obj, b, dev)
           Recurse(e) == IF b.direction = "up" THEN Up(fs, obj, b, dev, e.path)
                         ELSE Down(fs, obj, b, dev, e.path)
           last == IF obj.op = "equals" /\ found # <<>> THEN 1 ELSE Len(found)
       IN IF obj.filepath THEN [i \in DOMAIN found |-> found[i].path]
          ELSE FlattenSeq([i \in 1 .. last |-> Recurse(found[i])])
=============================================================================
