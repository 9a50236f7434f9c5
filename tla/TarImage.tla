------------------------------ MODULE TarImage ------------------------------
(***************************************************************************)
(* The archive of an input, streamed into its image, and the NAR hash that  *)
(* is computed from the finished image (host tarball.rs, tasks/verify.rs).  *)
(*                                                                          *)
(* A tree maps paths, sequences of numbers below the directory every entry  *)
(* of the archive is in, to nodes. Entries arrive in the archive's order,   *)
(* in which a directory comes before what is in it and siblings in any way. *)
(* A hash is what has been hashed: strings with their padding, and the      *)
(* bytes of files.                                                          *)
(***************************************************************************)
EXTENDS Naturals, Sequences, SequencesExt

CONSTANTS
  LockedTrees,  \* trees whose NAR hash may be in the lock
  Archives,     \* what the server may send for one
  NarBlock      \* what lengths in a NAR are padded to (8)

Directory == [kind |-> "dir"]

TarNodes == {Directory, [kind |-> "link"]} \cup [kind : {"file"}, exec : BOOLEAN, size : Nat]
TarKinds == {"dir", "link", "file"}

\* What is above a node is a directory.
IsTree(t) ==
  /\ IsFiniteSet(DOMAIN t) /\ t \in [DOMAIN t -> TarNodes] /\ << >> \in DOMAIN t
  /\ \A p \in DOMAIN t :
       /\ p \in Seq(Nat)
       /\ p # << >> => Front(p) \in DOMAIN t /\ t[Front(p)] = Directory

\* An archive whose directory on top is there has each directory it has
\* something in. (The writer makes up one that is missing and refuses one
\* that is no directory.)
ASSUME TarAssumption ==
  /\ NarBlock \in Nat \ {0}
  /\ \A t \in LockedTrees : IsTree(t)
  /\ \A t \in Archives : \A p \in DOMAIN t :
       /\ p \in Seq(Nat) /\ (t[p].kind \in TarKinds => t[p] \in TarNodes)
       /\ << >> \in DOMAIN t /\ p # << >> => Front(p) \in DOMAIN t /\ t[Front(p)] = Directory

VARIABLES
  lockedTree, \* the tree whose hash is expected
  archive,    \* entries still to come
  sawRoot,
  written,    \* the image
  packing,    \* "tar", "walk", "fallback", "verified", "mismatch", "failed"
  stack,      \* the directories the walk is in, with the dirents to visit
  hashed

tarVars == <<lockedTree, archive, sawRoot, written, packing, stack, hashed>>

NoEntries == [p \in {} |-> Directory]

TarInit ==
  /\ lockedTree \in LockedTrees /\ archive \in Archives
  /\ sawRoot = FALSE /\ written = [p \in {<< >>} |-> Directory]
  /\ packing = "tar" /\ stack = << >> /\ hashed = << >>

-----------------------------------------------------------------------------
(* NarHasher.                                                               *)

Strings(ss) == [i \in DOMAIN ss |-> <<ss[i], 0>>]
Begin == Strings(<<"nix-archive-1", "(", "type", "directory">>)
EntryNamed(name) ==
  Strings(<<"entry", "(", "name">>) \o << <<"name", name>>, <<"node", 0>> >>
DirOpen == Strings(<<"(", "type", "directory">>)
DirClose == Strings(<<")", ")">>)

Padding(n) == (NarBlock - (n % NarBlock)) % NarBlock

FileContents(n) ==
  << <<"size", n>> >> \o [i \in 1..n |-> <<"byte", 0>>] \o [i \in 1..Padding(n) |-> <<"pad", 0>>]

Executable(node) == IF node.exec THEN Strings(<<"executable", "">>) ELSE << >>

FileEntry(name, node) ==
  EntryNamed(name) \o Strings(<<"(", "type", "regular">>) \o Executable(node)
    \o Strings(<<"contents">>) \o FileContents(node.size) \o DirClose

LinkEntry(name) ==
  EntryNamed(name) \o Strings(<<"(", "type", "symlink", "target", "elsewhere">>) \o DirClose

-----------------------------------------------------------------------------
(* tar_to_image.                                                            *)

\* The directory on top must come first.
RootEntry ==
  /\ packing = "tar" /\ ~sawRoot
  /\ << >> \in DOMAIN archive /\ archive[<< >>] = Directory
  /\ sawRoot' = TRUE
  /\ archive' = [p \in DOMAIN archive \ {<< >>} |-> archive[p]]
  /\ UNCHANGED <<lockedTree, written, packing, stack, hashed>>

Arrives(p) ==
  /\ packing = "tar" /\ sawRoot
  /\ p \in DOMAIN archive /\ Front(p) \notin DOMAIN archive

\* A name 0 stands for what makes a path bad: it leads out of the directory on
\* top, is empty, "." or "..", or is not UTF-8.
Supported(p) == 0 \notin ToSet(p) /\ archive[p].kind \in TarKinds

AddEntry(p) ==
  /\ Arrives(p) /\ Supported(p)
  /\ written' = [q \in DOMAIN written \cup {p} |-> IF q = p THEN archive[p] ELSE written[q]]
  /\ archive' = [q \in DOMAIN archive \ {p} |-> archive[q]]
  /\ UNCHANGED <<lockedTree, sawRoot, packing, stack, hashed>>

\* Something unexpected is an error, as is a download or an archive cut short:
\* the caller goes by way of the disk.
TarFails ==
  /\ packing = "tar" /\ packing' = "fallback"
  /\ UNCHANGED <<lockedTree, archive, sawRoot, written, stack, hashed>>

-----------------------------------------------------------------------------
(* image_nar_digest, of the finished image, and VerifyNarHash.              *)

ChildrenIn(t, p) == {Last(q) : q \in {q \in DOMAIN t : q # << >> /\ Front(q) = p}}
Frame(p) == [path |-> p, todo |-> ChildrenIn(written, p)]

OpenImage ==
  /\ packing = "tar" /\ archive = NoEntries
  /\ packing' = "walk"
  /\ stack' = <<Frame(<< >>)>> /\ hashed' = Begin
  /\ UNCHANGED <<lockedTree, archive, sawRoot, written>>

\* The dirents of a directory, the least name first.
VisitNext(name) ==
  LET p == Append(Last(stack).path, name)
      rest == Append(Front(stack), [Last(stack) EXCEPT !.todo = @ \ {name}])
  IN CASE written[p].kind = "dir" ->
            stack' = Append(rest, Frame(p)) /\ hashed' = hashed \o EntryNamed(name) \o DirOpen
       [] written[p].kind = "link" -> stack' = rest /\ hashed' = hashed \o LinkEntry(name)
       [] written[p].kind = "file" ->
            stack' = rest /\ hashed' = hashed \o FileEntry(name, written[p])

Visit ==
  /\ packing = "walk" /\ stack # << >>
  /\ \E name \in Last(stack).todo :
       (\A other \in Last(stack).todo : name <= other) /\ VisitNext(name)
  /\ UNCHANGED <<lockedTree, archive, sawRoot, written, packing>>

\* The fault closes an entry for the directory on top as well.
EveryDirClose == DirClose
ClosesEntry == IF Len(stack) > 1 THEN DirClose ELSE << >>

LeaveDirectory ==
  /\ packing = "walk" /\ stack # << >> /\ Last(stack).todo = {}
  /\ stack' = Front(stack) /\ hashed' = hashed \o ClosesEntry
  /\ UNCHANGED <<lockedTree, archive, sawRoot, written, packing>>

\* The NAR of a tree, as the format defines it: what Nix hashed for the lock.
Least(names) == CHOOSE n \in names : \A m \in names : n <= m

Leaf(node) ==
  IF node.kind = "link"
  THEN Strings(<<"symlink", "target", "elsewhere">>)
  ELSE Strings(<<"regular">>) \o Executable(node) \o Strings(<<"contents">>)
         \o << <<"size", node.size>> >> \o [i \in 1..node.size |-> <<"byte", 0>>]
         \o [i \in 1..(CHOOSE k \in 0..(NarBlock - 1) : (node.size + k) % NarBlock = 0)
              |-> <<"pad", 0>>]

\* The entries of a directory p, where nar are the NARs of its nodes.
EntriesOf(nar, p, all) ==
  LET entries[names \in SUBSET all] ==
        IF names = {} THEN << >>
        ELSE EntryNamed(Least(names)) \o nar[Append(p, Least(names))] \o Strings(<<")">>)
               \o entries[names \ {Least(names)}]
  IN entries[all]

NarOfNode(t, nar, p) ==
  Strings(<<"(", "type">>)
    \o (IF t[p] = Directory
        THEN Strings(<<"directory">>) \o EntriesOf(nar, p, ChildrenIn(t, p))
        ELSE Leaf(t[p]))
    \o Strings(<<")">>)

NarOf(t) ==
  LET nar[p \in DOMAIN t] == NarOfNode(t, nar, p)
  IN Strings(<<"nix-archive-1">>) \o nar[<< >>]

Verify ==
  /\ packing = "walk" /\ stack = << >>
  /\ packing' = IF hashed \o Strings(<<")">>) = NarOf(lockedTree) THEN "verified" ELSE "mismatch"
  /\ UNCHANGED <<lockedTree, archive, sawRoot, written, stack, hashed>>

\* The image cannot be read.
WalkFails ==
  /\ packing = "walk" /\ packing' = "failed"
  /\ UNCHANGED <<lockedTree, archive, sawRoot, written, stack, hashed>>

TarNext ==
  \/ RootEntry \/ (\E p \in DOMAIN archive : AddEntry(p)) \/ TarFails
  \/ OpenImage \/ Visit \/ LeaveDirectory \/ Verify \/ WalkFails

TarSpec == TarInit /\ [][TarNext]_tarVars

-----------------------------------------------------------------------------

TarTypeOK ==
  /\ packing \in {"tar", "walk", "fallback", "verified", "mismatch", "failed"}
  /\ sawRoot \in BOOLEAN
  /\ \A p \in DOMAIN written : p = << >> \/ (Front(p) \in DOMAIN written /\ written[Front(p)] = Directory)
  /\ \A i \in DOMAIN stack : stack[i].path \in DOMAIN written

\* "verifies its NAR hash against the lock" (tasks/eval.rs:85-86) of an image
\* into which entries came in another order than a NAR has them (tarball.rs:
\* 5-11): the tree of the lock is accepted however it arrived, and no other.
VerifiedIsTheTree ==
  /\ packing = "verified" => written = lockedTree
  /\ packing = "mismatch" => written # lockedTree
-----------------------------------------------------------------------------
(* Why the types are kept (TarImageProofs): what is still to come finds its *)
(* directory, in the archive or in the image, and the walk only visits what *)
(* the image has.                                                           *)

FindsItsDirectory(p) ==
  \/ Front(p) \in DOMAIN archive /\ archive[Front(p)] = Directory
  \/ Front(p) \notin DOMAIN archive /\ Front(p) \in DOMAIN written /\ written[Front(p)] = Directory

TreesAreKept ==
  /\ << >> \in DOMAIN written
  /\ \A p \in DOMAIN written : p \in Seq(Nat) /\ written[p].kind \in {"dir", "link", "file"}
  /\ ~sawRoot => archive \in Archives /\ DOMAIN written = {<< >>} /\ written[<< >>] = Directory
  /\ sawRoot => \A p \in DOMAIN archive :
                  p \in Seq(Nat) /\ p # << >> /\ p \notin DOMAIN written /\ FindsItsDirectory(p)

WalkIsInTheImage ==
  /\ packing = "tar" => stack = << >>
  /\ stack \in Seq([path : DOMAIN written, todo : SUBSET Nat])
  /\ \A i \in DOMAIN stack : stack[i].todo \subseteq ChildrenIn(written, stack[i].path)

=============================================================================
