----------------------------- MODULE MCNarStream -----------------------------
(* Trees of at most two levels below the root, with two names, roots that  *)
(* are a file or a link, and trees with a name and a target that are not   *)
(* UTF-8.                                                                  *)
EXTENDS NarStream

CONSTANT Sizes  \* the sizes of files

FileNodes == {[kind |-> "file", exec |-> x = 1, size |-> x] : x \in Sizes}
Link(t) == [kind |-> "link", target |-> t]
Leaf == FileNodes \cup {Link("text")}
Dir == [kind |-> "dir"]

Closed(D) == \A p \in D : Len(p) = 2 => <<p[1]>> \in D

\* A path above another is a directory.
Shaped(t) == \A p \in DOMAIN t : (\E q \in DOMAIN t : IsStrictPrefix(p, q)) => t[p] = Dir

TreesOf(paths, leaves) ==
    {t @@ (<<>> :> Dir) :
        t \in UNION {{t \in [D -> leaves \cup {Dir}] : Shaped(t)} :
                       D \in {D \in SUBSET paths : Closed(D)}}}

\* The unreadable node comes last; 3 is not UTF-8.
MCTrees ==
    TreesOf({<<1>>, <<2>>, <<1, 1>>, <<1, 2>>, <<2, 2>>}, Leaf)
    \cup TreesOf({<<1>>, <<3>>, <<1, 3>>, <<3, 1>>},
                 {CHOOSE f \in FileNodes : f.size > 0, Link("bytes")})
    \cup {<<>> :> node : node \in Leaf \cup {Link("bytes")}}
    \cup {(<<>> :> Dir) @@ (<<1>> :> CHOOSE f \in Leaf : TRUE) @@ (<<2>> :> [kind |-> "other"])}
=============================================================================
