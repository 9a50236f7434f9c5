--------------------------- MODULE NarStreamProofs ---------------------------
(***************************************************************************)
(* Theorems about NarStream: what DirNar writes is what NarDecoder reads.  *)
(***************************************************************************)
EXTENDS NarStream, SequenceTheorems, FiniteSetTheorems, WellFoundedInduction, TLAPS

-----------------------------------------------------------------------------
(* Types.                                                                  *)

Symbols == {"nix-archive-1", "(", ")", "", "type", "name", "node", "target", "text", "bytes",
            "directory", "regular", "symlink", "executable", "contents", "entry",
            "len", "string", "byte", "zero", "junk"}
Items == Symbols \X Nat
Wanted == {T(s) : s \in {"nix-archive-1", "(", ")", "", "type", "name", "node", "target"}}
Entered == Nodes \cup [kind : {"link"}, target : Symbols]
Frames == [name : Nat, last : Nat]
OpenDir == [path : DOMAIN tree, todo : SUBSET Nat]

EncoderTyped ==
    /\ WellFormed(tree)
    /\ enc \in {"start", "running", "done", "failed", "cut"} /\ filling \in BOOLEAN
    /\ dirs \in Seq(OpenDir)
    /\ \A i \in 1..Len(dirs) : dirs[i].todo \subseteq Names(dirs[i].path)
    /\ enc = "start" => tree[<<>>].kind = "dir" /\ dirs = <<>> /\ file = NoFile
    /\ enc = "running" => dirs # <<>>
    /\ file \in [open : BOOLEAN, size : Nat, left : Nat] /\ file.left <= file.size
    /\ wire \in Seq(Items)

DecoderTyped ==
    /\ dec \in {"type", "attrs", "len", "target", "data", "skip", "end", "body", "name"}
    /\ want \in Seq(Wanted) /\ Len(want) <= 3
    /\ frames \in Seq(Frames) /\ pending \in Nat
    /\ exec \in BOOLEAN /\ left \in Nat /\ total \in Nat
    /\ left <= total + Align - 1
    /\ dec \in {"data", "skip"} => want = <<>>
    /\ dec = "data" => left <= total
    /\ dec \notin {"data", "skip"} => left = 0 /\ total = 0
    /\ dec \in {"body", "name"} /\ outcome = "none" => frames # <<>>
    /\ entries \in Seq(Seq(Nat) \X Entered)
    /\ outcome \in {"none", "finished", "error"}

Typed == EncoderTyped /\ DecoderTyped

\* Taking the last element off.
LEMMA FrontOfSeq ==
  ASSUME NEW S, NEW s \in Seq(S), s # <<>>
  PROVE  /\ Front(s) \in Seq(S) /\ Len(Front(s)) = Len(s) - 1
         /\ \A i \in 1..(Len(s) - 1) : Front(s)[i] = s[i]
         /\ Last(s) = s[Len(s)] /\ Last(s) \in S /\ Len(s) \in Nat \ {0}
<1>1. Len(s) \in Nat \ {0} /\ DOMAIN s = 1..Len(s)
  OBVIOUS
<1>2. s[Len(s)] \in S
  BY <1>1
<1>3. Front(s) = [i \in 1..(Len(s) - 1) |-> s[i]]
  BY <1>1 DEF Front
<1> QED
  BY <1>1, <1>2, <1>3 DEF Last

\* A path is what comes before its last name, and that name.
LEMMA FrontAndLast ==
  ASSUME NEW S, NEW p \in Seq(S), p # <<>>
  PROVE  p = Append(Front(p), Last(p))
BY DEF Front, Last

LEMMA FrontOfAppend ==
  ASSUME NEW S, NEW p \in Seq(S), NEW n \in S
  PROVE  Append(p, n) # <<>> /\ Front(Append(p, n)) = p /\ Last(Append(p, n)) = n
BY DEF Front, Last

\* The names in a directory are positive numbers and lead to nodes.
LEMMA NamesLead ==
  ASSUME WellFormed(tree), NEW p, NEW n \in Names(p)
  PROVE  n \in Nat \ {0} /\ Append(p, n) \in DOMAIN tree /\ p \in Seq(Nat \ {0})
<1>1. PICK q \in DOMAIN tree : q # <<>> /\ Front(q) = p /\ n = Last(q)
  BY DEF Names
<1>2. q \in Seq(Nat \ {0})
  BY DEF WellFormed
<1> QED
  BY <1>1, <1>2, FrontAndLast, FrontOfSeq

LEMMA NamesOfNode ==
  ASSUME WellFormed(tree), NEW p \in Seq(Nat), NEW n \in Nat, Append(p, n) \in DOMAIN tree
  PROVE  n \in Names(p)
BY FrontOfAppend DEF Names

\* The least of some numbers.
LEMMA LeastNatural ==
  ASSUME NEW T0 \in SUBSET Nat, T0 # {}
  PROVE  \E x \in T0 : \A y \in T0 : x <= y
<1> DEFINE Up   == {0..(x - 1) : x \in T0}
           R    == StrictSubsetOrdering(Nat)
<1>1. Up \subseteq FiniteSubsetsOf(Nat) /\ Up # {}
  <2> SUFFICES ASSUME NEW x \in T0 PROVE IsFiniteSet(0..(x - 1)) /\ 0..(x - 1) \subseteq Nat
    BY DEF FiniteSubsetsOf
  <2> QED
    BY FS_Interval
<1>2. IsWellFoundedOn(R, FiniteSubsetsOf(Nat))
  BY FS_StrictSubsetOrderingWellFounded
<1>3. PICK m \in Up : \A b \in Up : <<b, m>> \notin R
  <2> HIDE DEF Up, R
  <2> QED
    BY <1>1, <1>2, WFMin
<1>4. PICK x \in T0 : m = 0..(x - 1)
  OBVIOUS
<1>5. ASSUME NEW y \in T0, y < x PROVE FALSE
  <2>1. 0..(y - 1) \subseteq 0..(x - 1) /\ y \in 0..(x - 1) /\ y \notin 0..(y - 1)
    BY <1>5
  <2>2. 0..(y - 1) \subseteq Nat /\ 0..(x - 1) \subseteq Nat
    OBVIOUS
  <2>3. <<0..(y - 1), 0..(x - 1)>> \in R
    BY <2>1, <2>2 DEF StrictSubsetOrdering
  <2> QED
    BY <1>3, <1>4, <2>3
<1> QED
  BY <1>5

LEMMA FirstOfIsLeast ==
  ASSUME NEW names \in SUBSET Nat, names # {}
  PROVE  FirstOf(names) \in names /\ \A m \in names : FirstOf(names) <= m
BY LeastNatural DEF FirstOf

LEMMA PadIsShort == \A n \in Nat : Pad(n) \in 0..(Align - 1)
BY NarAssumption DEF Pad

LEMMA BytesAreItems ==
  ASSUME NEW n \in Nat
  PROVE  /\ Zeros(n) \in Seq(Items) /\ Len(Zeros(n)) = n
         /\ [i \in 1..n |-> Byte] \in Seq(Items) /\ Len([i \in 1..n |-> Byte]) = n
<1>1. Byte \in Items /\ <<"zero", 0>> \in Items
  BY DEF Byte, Items, Symbols
<1>2. \A i \in 1..n : <<"zero", 0>> \in Items
  BY <1>1
<1>3. Zeros(n) \in Seq(Items) /\ Len(Zeros(n)) = n
  BY <1>1, IsASeq DEF Zeros
<1> QED
  BY <1>1, <1>3, IsASeq

\* What is listed of a tree is a tree.
LEMMA ListingsAreWellFormed ==
  ASSUME NEW t, WellFormed(t), NEW u \in Listings(t)
  PROVE  WellFormed(u)
<1>1. PICK D \in SUBSET DOMAIN t :
        /\ u = [p \in D |-> t[p]] /\ <<>> \in D
        /\ \A p \in D : \A k \in 0..(Len(p) - 1) : SubSeq(p, 1, k) \in D
  BY DEF Listings
<1>2. DOMAIN u = D /\ \A p \in D : p \in DOMAIN t /\ u[p] = t[p]
  BY <1>1
<1> QED
  BY <1>1, <1>2 DEF WellFormed

LEMMA TreeNodes ==
  ASSUME WellFormed(tree), NEW p \in DOMAIN tree
  PROVE  /\ p \in Seq(Nat) /\ p \in Seq(Nat \ {0}) /\ tree[p] \in Nodes
         /\ <<>> \in DOMAIN tree /\ tree[<<>>].kind # "other"
<1>1. p \in Seq(Nat \ {0}) /\ tree[p] \in Nodes /\ <<>> \in DOMAIN tree /\ tree[<<>>].kind # "other"
  BY DEF WellFormed
<1>2. Seq(Nat \ {0}) \subseteq Seq(Nat)
  BY SeqMonotonic
<1> QED
  BY <1>1, <1>2

LEMMA KindsOfNodes ==
  ASSUME NEW node \in Nodes
  PROVE  /\ node.kind \in {"dir", "file", "link", "other"}
         /\ node.kind = "dir" => node = [kind |-> "dir"]
         /\ node.kind = "link" =>
              node.target \in {"text", "bytes"} /\ node = [kind |-> "link", target |-> node.target]
         /\ node.kind = "file" =>
              /\ node.exec \in BOOLEAN /\ node.size \in Nat
              /\ node = [kind |-> "file", exec |-> node.exec, size |-> node.size]
BY DEF Nodes

LEMMA TokensAreItems ==
  ASSUME NEW ss \in Seq(Symbols)
  PROVE  Tokens(ss) \in Seq(Items) /\ Len(Tokens(ss)) = Len(ss)
<1>1. DOMAIN ss = 1..Len(ss) /\ Len(ss) \in Nat /\ \A i \in 1..Len(ss) : ss[i] \in Symbols
  BY LenProperties, ElementOfSeq
<1>2. Tokens(ss) = [i \in 1..Len(ss) |-> T(ss[i])] /\ \A i \in 1..Len(ss) : T(ss[i]) \in Items
  BY <1>1 DEF Tokens, T, Items
<1> QED
  BY <1>1, <1>2, IsASeq

LEMMA Tokens1 == ASSUME NEW a PROVE Tokens(<<a>>) = <<T(a)>>
BY DEF Tokens
LEMMA Tokens2 == ASSUME NEW a, NEW b PROVE Tokens(<<a, b>>) = <<T(a), T(b)>>
BY DEF Tokens
LEMMA Tokens3 == ASSUME NEW a, NEW b, NEW c PROVE Tokens(<<a, b, c>>) = <<T(a), T(b), T(c)>>
BY DEF Tokens

LEMMA HeaderIsItems ==
  ASSUME NEW node \in Nodes, node.kind # "other", NEW wrapped \in BOOLEAN
  PROVE  Header(node, wrapped) \in Seq(Items)
<1>1. CASE node.kind = "dir"
  <2>1. <<"(", "type", "directory">> \in Seq(Symbols)
    BY DEF Symbols
  <2> QED
    BY <1>1, <2>1, TokensAreItems DEF Header
<1>2. CASE node.kind = "file"
  <2>1. node.size \in Nat /\ node.exec \in BOOLEAN
    BY <1>2, KindsOfNodes
  <2>2. <<"(", "type", "regular">> \in Seq(Symbols) /\ <<"executable", "">> \in Seq(Symbols)
    BY DEF Symbols
  <2>3. /\ Tokens(<<"(", "type", "regular">>) \in Seq(Items)
        /\ Tokens(<<"executable", "">>) \in Seq(Items)
    BY <2>2, TokensAreItems
  <2>4. T("contents") \in Items /\ <<"len", node.size>> \in Items
    BY <2>1 DEF T, Items, Symbols
  <2>5. <<T("contents"), <<"len", node.size>>>> \in Seq(Items) /\ <<>> \in Seq(Items)
    BY <2>4
  <2> QED
    BY <1>2, <2>3, <2>5, ConcatProperties DEF Header
<1>3. CASE node.kind = "link"
  <2>1. <<"(", "type", "symlink", "target", node.target, ")">> \in Seq(Symbols)
    <3>1. node.target \in Symbols
      <4>1. node.target \in {"text", "bytes"}
        BY <1>3, KindsOfNodes
      <4> QED
        BY <4>1 DEF Symbols
    <3> DEFINE target == node.target
    <3>2. {"(", "type", "symlink", "target", ")", target} \subseteq Symbols
      BY <3>1 DEF Symbols
    <3> HIDE DEF target
    <3>3. <<"(", "type", "symlink", "target", target, ")">> \in Seq(Symbols)
      BY <3>2
    <3> QED
      BY <3>3 DEF target
  <2>2. T(")") \in Items
    BY DEF T, Items, Symbols
  <2>3. Tokens(<<"(", "type", "symlink", "target", node.target, ")">>) \in Seq(Items)
    BY <2>1, TokensAreItems
  <2>4. <<T(")")>> \in Seq(Items) /\ <<>> \in Seq(Items)
    BY <2>2
  <2> QED
    BY <1>3, <2>3, <2>4, ConcatProperties DEF Header
<1> QED
  BY <1>1, <1>2, <1>3, KindsOfNodes
-----------------------------------------------------------------------------
(* The encoder keeps its types.                                            *)

LEMMA EmptyItems == <<>> \in Seq(Items)
OBVIOUS

LEMMA TokenIsItem == \A s \in Symbols : T(s) \in Items /\ <<T(s)>> \in Seq(Items)
BY DEF T, Items

LEMMA CloseIsItems == Tokens(<<")", ")">>) \in Seq(Items) /\ <<T(")")>> \in Seq(Items)
<1>1. ")" \in Symbols
  BY DEF Symbols
<1>2. <<")", ")">> \in Seq(Symbols)
  BY <1>1
<1> QED
  BY <1>1, <1>2, TokenIsItem, TokensAreItems

LEMMA RootArchiveIsItems ==
  ASSUME NEW node \in Nodes, node.kind # "other"
  PROVE  RootArchive(node) \in Seq(Items)
<1>1. <<T("nix-archive-1")>> \in Seq(Items) /\ <<T(")")>> \in Seq(Items) /\ <<>> \in Seq(Items)
  <2>1. "nix-archive-1" \in Symbols /\ ")" \in Symbols
    BY DEF Symbols
  <2> QED
    BY <2>1, TokenIsItem, EmptyItems
<1>2. Header(node, FALSE) \in Seq(Items)
  BY HeaderIsItems
<1>3. node.kind = "file" => [i \in 1..node.size |-> Byte] \in Seq(Items) /\ Zeros(Pad(node.size)) \in Seq(Items)
  <2>1. node.kind = "file" => node.size \in Nat /\ Pad(node.size) \in Nat
    BY KindsOfNodes, PadIsShort
  <2> QED
    BY <2>1, BytesAreItems
<1> QED
  BY <1>1, <1>2, <1>3, ConcatProperties DEF RootArchive

LEMMA InitTyped == Init => Typed
<1> SUFFICES ASSUME Init PROVE Typed
  OBVIOUS
<1>1. WellFormed(tree) /\ <<>> \in DOMAIN tree /\ tree[<<>>] \in Nodes /\ tree[<<>>].kind # "other"
  <2>1. WellFormed(tree)
    BY NarAssumption, ListingsAreWellFormed DEF Init
  <2> QED
    BY <2>1 DEF WellFormed
<1>2. wire \in Seq(Items) /\ enc \in {"start", "done"}
  <2>1. CASE tree[<<>>].kind = "dir"
    BY <2>1, EmptyItems DEF Init
  <2>2. CASE tree[<<>>].kind # "dir"
    BY <1>1, <2>2, RootArchiveIsItems DEF Init
  <2> QED
    BY <2>1, <2>2
<1>3. EncoderTyped
  <2>1. /\ dirs = <<>> /\ file = NoFile /\ filling = FALSE
        /\ enc = "start" => tree[<<>>].kind = "dir"
    BY DEF Init
  <2>2. file \in [open : BOOLEAN, size : Nat, left : Nat] /\ file.left <= file.size
    BY <2>1 DEF NoFile
  <2>3. dirs \in Seq(OpenDir) /\ Len(dirs) = 0
    BY <2>1
  <2>4. filling \in BOOLEAN
    BY <2>1
  <2>5. \A i \in 1..Len(dirs) : dirs[i].todo \subseteq Names(dirs[i].path)
    BY <2>3
  <2> QED
    BY <1>1, <1>2, <2>1, <2>2, <2>3, <2>4, <2>5 DEF EncoderTyped
<1>4. want \in Seq(Wanted) /\ Len(want) = 3
  <2>1. want = <<T("nix-archive-1"), T("("), T("type")>>
    BY Tokens3 DEF Init
  <2>2. {T("nix-archive-1"), T("("), T("type")} \subseteq Wanted
    BY DEF Wanted
  <2> QED
    BY <2>1, <2>2
<1>5. DecoderTyped
  <2>1. /\ dec = "type" /\ frames = <<>> /\ pending = 0 /\ left = 0 /\ total = 0
        /\ entries = <<>> /\ outcome = "none" /\ exec \in BOOLEAN /\ Align \in Nat \ {0}
    BY NarAssumption DEF Init
  <2>2. frames \in Seq(Frames) /\ entries \in Seq(Seq(Nat) \X Entered)
    BY <2>1
  <2> QED
    BY <1>4, <2>1, <2>2 DEF DecoderTyped
<1> QED
  BY <1>3, <1>5 DEF Typed

LEMMA EncoderTypedNext ==
  ASSUME EncoderTyped, tree' = tree,
         enc' \in {"start", "running", "done", "failed", "cut"}, filling' \in BOOLEAN,
         dirs' \in Seq(OpenDir),
         \A i \in 1..Len(dirs') : dirs'[i].todo \subseteq Names(dirs'[i].path),
         enc' = "start" => enc = "start" /\ dirs' = dirs /\ file' = file,
         enc' = "running" => dirs' # <<>>,
         file' \in [open : BOOLEAN, size : Nat, left : Nat], file'.left <= file'.size,
         wire' \in Seq(Items)
  PROVE  EncoderTyped'
<1>1. OpenDir' = OpenDir /\ NoFile' = NoFile
  BY DEF OpenDir, NoFile
<1>2. \A i \in 1..Len(dirs') : dirs'[i].todo \subseteq Names(dirs[i].path)'
  BY DEF Names
<1>3. enc' = "start" => tree'[<<>>].kind = "dir" /\ dirs' = <<>> /\ file' = NoFile
  BY DEF EncoderTyped
<1>4. WellFormed(tree)'
  BY DEF EncoderTyped, WellFormed
<1> QED
  BY <1>1, <1>2, <1>3, <1>4 DEF EncoderTyped

LEMMA EncoderTypes ==
  ASSUME EncoderTyped
  PROVE  /\ WellFormed(tree) /\ filling \in BOOLEAN /\ dirs \in Seq(OpenDir)
         /\ \A i \in 1..Len(dirs) : dirs[i].todo \subseteq Names(dirs[i].path)
         /\ file \in [open : BOOLEAN, size : Nat, left : Nat] /\ file.left <= file.size
         /\ file.open \in BOOLEAN /\ file.size \in Nat /\ file.left \in Nat
         /\ wire \in Seq(Items) /\ Len(wire) \in Nat
BY DEF EncoderTyped

\* A directory pushed on the stack.
LEMMA PushedIsTyped ==
  ASSUME WellFormed(tree), NEW stack \in Seq(OpenDir),
         \A i \in 1..Len(stack) : stack[i].todo \subseteq Names(stack[i].path),
         NEW path \in DOMAIN tree
  PROVE  /\ Pushed(stack, path) \in Seq(OpenDir)
         /\ \A i \in 1..Len(Pushed(stack, path)) :
              Pushed(stack, path)[i].todo \subseteq Names(Pushed(stack, path)[i].path)
         /\ stack # <<>> \/ tree[path].kind = "dir" => Pushed(stack, path) # <<>>
<1> DEFINE frame == [path |-> path, todo |-> Names(path)]
<1>1. frame \in OpenDir /\ frame.todo \subseteq Names(frame.path)
  BY NamesLead DEF OpenDir
<1>2. CASE tree[path].kind = "dir"
  <2>1. Pushed(stack, path) = Append(stack, frame)
    BY <1>2 DEF Pushed
  <2> HIDE DEF frame
  <2> QED
    BY <1>1, <2>1, AppendProperties
<1>3. CASE tree[path].kind # "dir"
  BY <1>3 DEF Pushed
<1> QED
  BY <1>2, <1>3

\* descend() writes items and opens a file, or fails.
LEMMA DescendIsTyped ==
  ASSUME EncoderTyped, NEW path \in DOMAIN tree, NEW before \in Seq(Items), Descend(path, before)
  PROVE  /\ enc' \in {"running", "failed"} /\ filling' \in BOOLEAN
         /\ file' \in [open : BOOLEAN, size : Nat, left : Nat] /\ file'.left <= file'.size
         /\ wire' \in Seq(Items)
<1>1. tree[path] \in Nodes
  BY TreeNodes DEF EncoderTyped
<1>2. CASE tree[path].kind = "other"
  <2>1. enc' = "failed" /\ filling' = FALSE /\ wire' = <<>> /\ file' = file
    BY <1>2 DEF Descend, Fails
  <2> QED
    BY <2>1, EncoderTypes, EmptyItems
<1>3. CASE tree[path].kind # "other"
  <2>1. Header(tree[path], path # <<>>) \in Seq(Items)
    BY <1>1, <1>3, HeaderIsItems
  <2>2. wire' = wire \o before \o Header(tree[path], path # <<>>)
    BY <1>3 DEF Descend
  <2>3. wire' \in Seq(Items)
    BY <2>1, <2>2, ConcatProperties DEF EncoderTyped
  <2>4. tree[path].kind = "file" => tree[path].size \in Nat
    BY <1>1, KindsOfNodes
  <2>5. enc' = "running" /\ filling' = filling
    BY <1>3 DEF Descend
  <2>6. file' = (IF tree[path].kind = "file"
                 THEN [open |-> TRUE, size |-> tree[path].size, left |-> tree[path].size]
                 ELSE file)
    BY <1>3 DEF Descend
  <2>7. file' \in [open : BOOLEAN, size : Nat, left : Nat] /\ file'.left <= file'.size
    BY <2>4, <2>6, EncoderTypes
  <2> QED
    BY <2>3, <2>5, <2>7, EncoderTypes
<1> QED
  BY <1>2, <1>3

LEMMA StartTyped == EncoderTyped /\ Start => EncoderTyped'
<1> SUFFICES ASSUME EncoderTyped, Start PROVE EncoderTyped'
  OBVIOUS
<1>1. <<>> \in DOMAIN tree /\ WellFormed(tree)
  BY DEF EncoderTyped, WellFormed
<1>2. <<T("nix-archive-1")>> \in Seq(Items)
  BY TokenIsItem DEF Symbols
<1>3. /\ enc' \in {"running", "failed"} /\ filling' \in BOOLEAN
      /\ file' \in [open : BOOLEAN, size : Nat, left : Nat] /\ file'.left <= file'.size
      /\ wire' \in Seq(Items)
  BY <1>1, <1>2, DescendIsTyped DEF Start
<1>4. <<>> \in Seq(OpenDir) /\ Len(<<>>) = 0
  OBVIOUS
<1>5. /\ dirs' \in Seq(OpenDir) /\ dirs' # <<>>
      /\ \A i \in 1..Len(dirs') : dirs'[i].todo \subseteq Names(dirs'[i].path)
  BY <1>1, <1>4, PushedIsTyped DEF Start, Filling, EncoderTyped
<1>6. tree' = tree
  BY DEF Start
<1> QED
  BY <1>3, <1>5, <1>6, EncoderTypedNext

\* The innermost directory, and its next name.
LEMMA InnermostDir ==
  ASSUME EncoderTyped, enc = "running"
  PROVE  /\ dirs # <<>> /\ Last(dirs) = dirs[Len(dirs)] /\ Len(dirs) \in Nat \ {0}
         /\ Last(dirs).path \in DOMAIN tree /\ Last(dirs).todo \subseteq Names(Last(dirs).path)
         /\ Last(dirs).todo \in SUBSET Nat
         /\ Front(dirs) \in Seq(OpenDir) /\ Len(Front(dirs)) = Len(dirs) - 1
         /\ \A i \in 1..(Len(dirs) - 1) : Front(dirs)[i] = dirs[i]
<1>1. dirs \in Seq(OpenDir) /\ dirs # <<>>
  BY DEF EncoderTyped
<1>2. Last(dirs) \in OpenDir /\ Last(dirs) = dirs[Len(dirs)] /\ Len(dirs) \in Nat \ {0}
  BY <1>1, FrontOfSeq
<1>3. Last(dirs).todo \subseteq Names(Last(dirs).path)
  BY <1>2 DEF EncoderTyped
<1>4. Last(dirs).path \in DOMAIN tree /\ Last(dirs).todo \in SUBSET Nat
  BY <1>2 DEF OpenDir
<1> QED
  BY <1>1, <1>2, <1>3, <1>4, FrontOfSeq

LEMMA NextName ==
  ASSUME EncoderTyped, enc = "running", Last(dirs).todo # {}
  PROVE  LET name == FirstOf(Last(dirs).todo) IN
         /\ name \in Last(dirs).todo /\ name \in Nat \ {0}
         /\ \A m \in Last(dirs).todo : name <= m
         /\ Append(Last(dirs).path, name) \in DOMAIN tree
<1>1. WellFormed(tree)
  BY DEF EncoderTyped
<1>2. FirstOf(Last(dirs).todo) \in Last(dirs).todo /\ \A m \in Last(dirs).todo : FirstOf(Last(dirs).todo) <= m
  BY InnermostDir, FirstOfIsLeast
<1>3. FirstOf(Last(dirs).todo) \in Names(Last(dirs).path)
  BY <1>2, InnermostDir
<1> QED
  BY <1>1, <1>2, <1>3, NamesLead

LEMMA SendEntryTyped == EncoderTyped /\ SendEntry => EncoderTyped'
<1> SUFFICES ASSUME EncoderTyped, SendEntry PROVE EncoderTyped'
  OBVIOUS
<1> DEFINE name == FirstOf(Last(dirs).todo)
           path == Append(Last(dirs).path, name)
           rest == [Last(dirs) EXCEPT !.todo = @ \ {name}]
           before == Tokens(<<"entry", "(", "name">>) \o <<<<"string", name>>, T("node")>>
           stack == Append(Front(dirs), rest)
<1>1. /\ WellFormed(tree) /\ enc = "running" /\ Last(dirs).todo # {}
      /\ Descend(path, before) /\ dirs' = Pushed(stack, path)
      /\ tree' = tree
  BY DEF SendEntry, EncoderTyped
<1>2. name \in Nat \ {0} /\ path \in DOMAIN tree
  BY <1>1, NextName
<1>3. before \in Seq(Items)
  <2>1. Tokens(<<"entry", "(", "name">>) \in Seq(Items)
    <3>1. <<"entry", "(", "name">> \in Seq(Symbols)
      BY DEF Symbols
    <3> QED
      BY <3>1, TokensAreItems
  <2>2. <<"string", name>> \in Items /\ T("node") \in Items
    BY <1>2 DEF Items, T, Symbols
  <2>3. <<<<"string", name>>, T("node")>> \in Seq(Items)
    BY <2>2
  <2> QED
    BY <2>1, <2>3, ConcatProperties
<1>4. /\ stack \in Seq(OpenDir) /\ stack # <<>>
      /\ \A i \in 1..Len(stack) : stack[i].todo \subseteq Names(stack[i].path)
  <2>1. rest \in OpenDir /\ rest.todo \subseteq Names(rest.path)
    <3>1. Last(dirs) \in OpenDir
      BY <1>1, FrontOfSeq DEF EncoderTyped
    <3>2. rest.path = Last(dirs).path /\ rest.todo = Last(dirs).todo \ {name} /\ rest \in OpenDir
      BY <3>1 DEF OpenDir
    <3> QED
      BY <1>1, <3>2, InnermostDir
  <2>2. \A i \in 1..Len(Front(dirs)) : Front(dirs)[i].todo \subseteq Names(Front(dirs)[i].path)
    <3>1. \A i \in 1..Len(Front(dirs)) : i \in 1..Len(dirs) /\ Front(dirs)[i] = dirs[i]
      BY <1>1, InnermostDir
    <3> QED
      BY <3>1, EncoderTypes
  <2> HIDE DEF rest
  <2>3. /\ stack \in Seq(OpenDir) /\ Len(stack) = Len(Front(dirs)) + 1
        /\ \A i \in 1..Len(Front(dirs)) : stack[i] = Front(dirs)[i]
        /\ stack[Len(stack)] = rest /\ Len(Front(dirs)) \in Nat
    BY <1>1, <2>1, InnermostDir, AppendProperties
  <2> QED
    BY <2>1, <2>2, <2>3
<1> HIDE DEF name, path, before, stack
<1>5. /\ enc' \in {"running", "failed"} /\ filling' \in BOOLEAN
      /\ file' \in [open : BOOLEAN, size : Nat, left : Nat] /\ file'.left <= file'.size
      /\ wire' \in Seq(Items)
  BY <1>1, <1>2, <1>3, DescendIsTyped
<1>6. /\ dirs' \in Seq(OpenDir) /\ dirs' # <<>>
      /\ \A i \in 1..Len(dirs') : dirs'[i].todo \subseteq Names(dirs'[i].path)
  BY <1>1, <1>2, <1>4, PushedIsTyped
<1> QED
  BY <1>1, <1>5, <1>6, EncoderTypedNext

LEMMA SendCloseTyped == EncoderTyped /\ SendClose => EncoderTyped'
<1> SUFFICES ASSUME EncoderTyped, SendClose PROVE EncoderTyped'
  OBVIOUS
<1>1. enc = "running" /\ tree' = tree /\ file' = file /\ filling' = filling /\ dirs' = Front(dirs)
  BY DEF SendClose
<1>2. wire' \in Seq(Items)
  BY CloseIsItems, EncoderTypes, ConcatProperties DEF SendClose
<1>3. enc' = (IF Len(dirs) = 1 THEN "done" ELSE "running")
  BY <1>1 DEF SendClose
<1>4. /\ dirs' \in Seq(OpenDir) /\ (Len(dirs) # 1 => dirs' # <<>>)
      /\ \A i \in 1..Len(dirs') : dirs'[i].todo \subseteq Names(dirs'[i].path)
  <2>1. \A i \in 1..Len(Front(dirs)) : i \in 1..Len(dirs) /\ Front(dirs)[i] = dirs[i]
    BY <1>1, InnermostDir
  <2>2. Len(dirs) # 1 => Len(Front(dirs)) # 0
    BY <1>1, InnermostDir
  <2> QED
    BY <1>1, <2>1, <2>2, EncoderTypes, InnermostDir
<1>5. /\ file' \in [open : BOOLEAN, size : Nat, left : Nat] /\ file'.left <= file'.size
      /\ filling' \in BOOLEAN
  BY <1>1, EncoderTypes
<1> QED
  <2>1. tree' = tree /\ enc' \in {"running", "done"} /\ (enc' = "running" => dirs' # <<>>)
    BY <1>1, <1>3, <1>4
  <2> QED
    BY <1>2, <1>4, <1>5, <2>1, EncoderTypedNext

LEMMA SendContentsTyped == EncoderTyped /\ SendContents => EncoderTyped'
<1> SUFFICES ASSUME EncoderTyped, SendContents PROVE EncoderTyped'
  OBVIOUS
<1> DEFINE n == IF file.left < Room THEN file.left ELSE Room
<1>1. Len(wire) \in Nat /\ Len(wire) < Cap /\ Cap \in Nat /\ file.left \in Nat /\ file.size \in Nat
  BY NarAssumption DEF SendContents, Filling, EncoderTyped
<1>2. n \in Nat /\ n <= file.left
  BY <1>1 DEF Room
<1>3. /\ wire' = wire \o [i \in 1..n |-> Byte]
                   \o (IF n = file.left THEN Zeros(Pad(file.size)) \o Tokens(<<")", ")">>) ELSE <<>>)
      /\ file' = (IF n = file.left THEN NoFile ELSE [file EXCEPT !.left = @ - n])
      /\ tree' = tree /\ enc' = enc /\ dirs' = dirs /\ filling' = filling
  BY DEF SendContents
<1>31. enc = "running" /\ dirs # <<>>
  BY DEF SendContents, Filling, EncoderTyped, NoFile
<1> HIDE DEF n
<1>4. wire' \in Seq(Items)
  <2>1. Pad(file.size) \in Nat
    <3>1. Pad(file.size) \in 0..(Align - 1)
      BY <1>1, PadIsShort
    <3> QED
      BY <3>1, NarAssumption
  <2>3. Zeros(Pad(file.size)) \in Seq(Items) /\ [i \in 1..n |-> Byte] \in Seq(Items)
    BY <1>2, <2>1, BytesAreItems
  <2> QED
    BY <1>3, <2>3, CloseIsItems, EmptyItems, EncoderTypes, ConcatProperties
<1>5. file' \in [open : BOOLEAN, size : Nat, left : Nat] /\ file'.left <= file'.size
  <2>1. CASE n = file.left
    BY <1>3, <2>1 DEF NoFile
  <2>2. CASE n # file.left
    <3>1. file' = [file EXCEPT !.left = @ - n]
      BY <1>3, <2>2
    <3>2. file.left - n \in Nat /\ file.left - n <= file.size
      BY <1>1, <1>2, EncoderTypes
    <3> QED
      BY <3>1, <3>2, EncoderTypes
  <2> QED
    BY <2>1, <2>2
<1> QED
  BY <1>3, <1>31, <1>4, <1>5, EncoderTypes, EncoderTypedNext

\* The stream ends early, or poll_read returns.
LEMMA StoppedTyped == EncoderTyped /\ (Shrunk \/ Filled \/ Cut) => EncoderTyped'
<1> SUFFICES ASSUME EncoderTyped, Shrunk \/ Filled \/ Cut PROVE EncoderTyped'
  OBVIOUS
<1>1. /\ tree' = tree /\ dirs' = dirs /\ file' = file /\ filling' \in BOOLEAN
      /\ enc' = enc \/ enc' \in {"failed", "cut"}
  <2>1. CASE Shrunk
    BY <2>1 DEF Shrunk, Fails
  <2>2. CASE Filled
    BY <2>2 DEF Filled
  <2>3. CASE Cut
    BY <2>3, EncoderTypes DEF Cut
  <2> QED
    BY <2>1, <2>2, <2>3
<1>2. wire' \in Seq(Items)
  <2>2. <<T("junk")>> \in Seq(Items) /\ <<>> \in Seq(Items)
    BY TokenIsItem, EmptyItems DEF Symbols
  <2>3. wire' = wire \/ wire' = <<>> \/ wire' = <<T("junk")>>
    BY DEF Shrunk, Filled, Cut, Fails
  <2> QED
    BY <2>2, <2>3, EncoderTypes
<1>3. enc' \in {"start", "running", "done", "failed", "cut"} /\ (enc' = "running" => dirs' # <<>>)
  BY <1>1 DEF EncoderTyped
<1> QED
  BY <1>1, <1>2, <1>3, EncoderTypes, EncoderTypedNext

\* The decoder takes from the stream.
LEMMA TakenTyped ==
  ASSUME EncoderTyped, tree' = tree, enc' = enc, dirs' = dirs, file' = file, filling' \in BOOLEAN,
         wire' = wire \/ (wire # <<>> /\ wire' = Tail(wire))
  PROVE  EncoderTyped'
<1>1. wire' \in Seq(Items)
  BY HeadTailProperties, EncoderTypes
<1>2. enc \in {"start", "running", "done", "failed", "cut"} /\ (enc = "running" => dirs # <<>>)
  BY DEF EncoderTyped
<1> QED
  BY <1>1, <1>2, EncoderTypes, EncoderTypedNext

-----------------------------------------------------------------------------
(* The decoder keeps its types.                                            *)

LEMMA WantedAreItems ==
  /\ Wanted \subseteq Items
  /\ <<>> \in Seq(Wanted) /\ Len(<<>>) = 0
  /\ Tokens(<<")">>) = <<T(")")>> /\ Tokens(<<")">>) \in Seq(Wanted)
  /\ Tokens(<<")", ")">>) = <<T(")"), T(")")>> /\ Tokens(<<")", ")">>) \in Seq(Wanted)
  /\ <<T(")")>> \in Seq(Wanted) /\ <<T("")>> \in Seq(Wanted) /\ <<T("target")>> \in Seq(Wanted)
  /\ Tokens(<<"(", "name">>) = <<T("("), T("name")>> /\ Tokens(<<"(", "name">>) \in Seq(Wanted)
  /\ Tokens(<<"node", "(", "type">>) = <<T("node"), T("("), T("type")>>
  /\ Tokens(<<"node", "(", "type">>) \in Seq(Wanted)
<1>1. Wanted \subseteq Items
  BY TokenIsItem DEF Wanted, Symbols
<1>2. {T(")"), T(""), T("target"), T("("), T("name"), T("node"), T("type")} \subseteq Wanted
  BY DEF Wanted
<1>3. /\ Tokens(<<")">>) = <<T(")")>> /\ Tokens(<<")", ")">>) = <<T(")"), T(")")>>
      /\ Tokens(<<"(", "name">>) = <<T("("), T("name")>>
      /\ Tokens(<<"node", "(", "type">>) = <<T("node"), T("("), T("type")>>
  BY Tokens1, Tokens2, Tokens3
<1>4. /\ \A a \in Wanted : <<a>> \in Seq(Wanted)
      /\ \A a, b \in Wanted : <<a, b>> \in Seq(Wanted)
      /\ \A a, b, c \in Wanted : <<a, b, c>> \in Seq(Wanted)
  OBVIOUS
<1>5. /\ <<T(")")>> \in Seq(Wanted) /\ <<T("")>> \in Seq(Wanted) /\ <<T("target")>> \in Seq(Wanted)
      /\ <<T(")"), T(")")>> \in Seq(Wanted) /\ <<T("("), T("name")>> \in Seq(Wanted)
      /\ <<T("node"), T("("), T("type")>> \in Seq(Wanted)
  <2> HIDE DEF Wanted
  <2>1. /\ T(")") \in Wanted /\ T("") \in Wanted /\ T("target") \in Wanted /\ T("(") \in Wanted
        /\ T("name") \in Wanted /\ T("node") \in Wanted /\ T("type") \in Wanted
    BY <1>2
  <2> QED
    BY <1>4, <2>1
<1>6. <<>> \in Seq(Wanted) /\ Len(<<>>) = 0
  OBVIOUS
<1> QED
  BY <1>1, <1>3, <1>5, <1>6

\* The item that is read.
LEMMA ItemIsItem ==
  ASSUME EncoderTyped, wire # <<>>
  PROVE  Item \in Items /\ Item[1] \in Symbols /\ Item[2] \in Nat /\ wire[1] = Item /\ Tail(wire) \in Seq(Items)
<1>1. Head(wire) \in Items /\ Tail(wire) \in Seq(Items)
  BY HeadTailProperties, EncoderTypes
<1> QED
  BY <1>1 DEF Item, Items

LEMMA CurrentPathTyped ==
  ASSUME DecoderTyped
  PROVE  CurrentPath \in Seq(Nat)
<1> DEFINE names == [i \in 1..(Len(frames) - 1) |-> frames[i + 1].name]
           end == IF pending = 0 THEN <<>> ELSE <<pending>>
<1>1. frames \in Seq(Frames) /\ pending \in Nat
  BY DEF DecoderTyped
<1>2. names \in Seq(Nat)
  <2>1. \A i \in 1..(Len(frames) - 1) : frames[i + 1].name \in Nat
    <3> SUFFICES ASSUME NEW i \in 1..(Len(frames) - 1) PROVE frames[i + 1].name \in Nat
      OBVIOUS
    <3>1. Len(frames) \in Nat
      BY <1>1
    <3>2. i + 1 \in 1..Len(frames)
      BY <3>1
    <3>3. frames[i + 1] \in Frames
      BY <1>1, <3>2, ElementOfSeq
    <3> QED
      BY <3>3 DEF Frames
  <2>2. CASE frames = <<>>
    BY <2>2
  <2>3. CASE frames # <<>>
    <3>1. Len(frames) - 1 \in Nat
      BY <1>1, <2>3
    <3> QED
      BY <2>1, <3>1, IsASeq
  <2> QED
    BY <2>2, <2>3
<1>3. end \in Seq(Nat)
  BY <1>1
<1> HIDE DEF names, end
<1>4. CurrentPath = names \o end
  BY DEF CurrentPath, names, end
<1> QED
  BY <1>2, <1>3, <1>4, ConcatProperties

LEMMA ReturnsTyped ==
  ASSUME DecoderTyped, NEW node \in Entered, Returns(node)
  PROVE  entries' \in Seq(Seq(Nat) \X Entered)
<1>1. <<CurrentPath, node>> \in Seq(Nat) \X Entered
  BY CurrentPathTyped
<1>2. entries \in Seq(Seq(Nat) \X Entered) /\ entries' = Append(entries, <<CurrentPath, node>>)
  BY DEF DecoderTyped, Returns
<1> QED
  BY <1>1, <1>2, AppendProperties

LEMMA DecoderTypes ==
  ASSUME DecoderTyped
  PROVE  /\ want \in Seq(Wanted) /\ Len(want) <= 3 /\ frames \in Seq(Frames) /\ pending \in Nat
         /\ exec \in BOOLEAN /\ left \in Nat /\ total \in Nat /\ left <= total + Align - 1
         /\ entries \in Seq(Seq(Nat) \X Entered)
         /\ outcome \in {"none", "finished", "error"} /\ Align \in Nat \ {0}
BY NarAssumption DEF DecoderTyped

LEMMA ExpectTyped == Typed /\ Expect => DecoderTyped'
<1> SUFFICES ASSUME Typed, Expect PROVE DecoderTyped'
  OBVIOUS
<1>1. DecoderTyped /\ want # <<>> /\ want' = Tail(want)
  BY DEF Typed, Expect
<1>2. want' \in Seq(Wanted) /\ Len(want') <= 3 /\ dec \notin {"data", "skip"}
  <2>1. want' \in Seq(Wanted) /\ Len(want') = Len(want) - 1
    BY <1>1, DecoderTypes, HeadTailProperties
  <2> QED
    BY <1>1, <2>1 DEF DecoderTyped
<1>3. outcome = "none" /\ outcome' \in {"none", "error"}
  BY DEF Expect, Available, Reads
<1>4. UNCHANGED <<dec, frames, pending, exec, left, total, entries>>
  BY DEF Expect
<1> QED
  BY <1>1, <1>2, <1>3, <1>4 DEF DecoderTyped

\* Reading a part of a node's head, and the head's end.
LEMMA HeadTyped ==
  Typed /\ (Directory \/ Regular \/ Attribute \/ Contents \/ Length \/ Symlink \/ Target) => DecoderTyped'
<1> SUFFICES ASSUME Typed,
                    Directory \/ Regular \/ Attribute \/ Contents \/ Length \/ Symlink \/ Target
             PROVE  DecoderTyped'
  OBVIOUS
<1>1. DecoderTyped /\ EncoderTyped
  BY DEF Typed
<1>2. CASE Directory
  <2>1. [kind |-> "dir"] \in Entered
    BY DEF Nodes, Entered
  <2>2. entries' \in Seq(Seq(Nat) \X Entered)
    BY <1>1, <1>2, <2>1, ReturnsTyped DEF Directory
  <2>3. [name |-> pending, last |-> 0] \in Frames
    BY <1>1, DecoderTypes DEF Frames
  <2>4. frames' \in Seq(Frames) /\ frames' # <<>>
    <3>1. frames' = Append(frames, [name |-> pending, last |-> 0])
      BY <1>2 DEF Directory
    <3> QED
      BY <1>1, <2>3, <3>1, DecoderTypes, AppendProperties
  <2>5. /\ dec = "type" /\ dec' = "body" /\ pending' = 0
        /\ UNCHANGED <<want, exec, left, total, outcome>>
    BY <1>2 DEF Directory, At
  <2> QED
    BY <1>1, <2>2, <2>4, <2>5 DEF DecoderTyped
<1>3. CASE Regular
  BY <1>1, <1>3 DEF DecoderTyped, Regular, At
<1>4. CASE Attribute
  <2>1. want' \in Seq(Wanted) /\ Len(want') = 1
    BY <1>4, WantedAreItems DEF Attribute
  <2>2. /\ dec = "attrs" /\ exec' = TRUE
        /\ UNCHANGED <<dec, frames, pending, left, total, entries, outcome>>
    BY <1>4 DEF Attribute, At
  <2> QED
    BY <1>1, <2>1, <2>2 DEF DecoderTyped
<1>5. CASE Contents
  BY <1>1, <1>5 DEF DecoderTyped, Contents, At
<1>6. CASE Length
  <2>1. Item[2] \in Nat
    BY <1>1, <1>6, ItemIsItem DEF Length, At, Available
  <2>2. [kind |-> "file", exec |-> exec, size |-> Item[2]] \in Entered
    BY <1>1, <2>1, DecoderTypes DEF Nodes, Entered
  <2>3. entries' \in Seq(Seq(Nat) \X Entered)
    BY <1>1, <1>6, <2>2, ReturnsTyped DEF Length
  <2>4. /\ want = <<>> /\ dec' = "data" /\ total' = Item[2] /\ left' = Item[2]
        /\ UNCHANGED <<want, frames, pending, exec, outcome>>
    BY <1>6 DEF Length, At
  <2>5. left' <= total' + Align - 1 /\ left' \in Nat /\ total' \in Nat
    BY <2>1, <2>4, NarAssumption
  <2> QED
    BY <1>1, <2>3, <2>4, <2>5 DEF DecoderTyped
<1>7. CASE Symlink
  <2>1. want' \in Seq(Wanted) /\ Len(want') = 1
    BY <1>7, WantedAreItems DEF Symlink
  <2>2. /\ dec = "type" /\ dec' = "target"
        /\ UNCHANGED <<frames, pending, exec, left, total, entries, outcome>>
    BY <1>7 DEF Symlink, At
  <2> QED
    BY <1>1, <2>1, <2>2 DEF DecoderTyped
<1>8. CASE Target
  <2>1. [kind |-> "link", target |-> Item[1]] \in Entered
    <3>1. Item[1] \in Symbols
      BY <1>1, <1>8, ItemIsItem DEF Target, At, Available
    <3> QED
      BY <3>1 DEF Entered
  <2>2. entries' \in Seq(Seq(Nat) \X Entered)
    BY <1>1, <1>8, <2>1, ReturnsTyped DEF Target
  <2>3. /\ want = <<>> /\ dec = "target" /\ dec' = "data"
        /\ UNCHANGED <<want, frames, pending, exec, left, total, outcome>>
    BY <1>8 DEF Target, At
  <2> QED
    BY <1>1, <2>2, <2>3 DEF DecoderTyped
<1> QED
  BY <1>2, <1>3, <1>4, <1>5, <1>6, <1>7, <1>8

LEMMA DataTyped == Typed /\ (ReadData \/ NextEntry \/ Skip \/ CloseNode) => DecoderTyped'
<1> SUFFICES ASSUME Typed, ReadData \/ NextEntry \/ Skip \/ CloseNode PROVE DecoderTyped'
  OBVIOUS
<1>1. DecoderTyped
  BY DEF Typed
<1>2. CASE ReadData \/ Skip
  <2>1. dec \in {"data", "skip"} /\ left > 0 /\ left' = left - 1
    BY <1>1, <1>2 DEF ReadData, Skip, At, Available, Reads, DecoderTyped
  <2>2. UNCHANGED <<dec, want, frames, pending, exec, total, entries, outcome>>
    BY <1>2 DEF ReadData, Skip
  <2>3. left' \in Nat /\ left' <= left /\ left' <= total + Align - 1 /\ (dec = "data" => left' <= total)
    <3>1. dec = "data" => left <= total
      BY <1>1 DEF DecoderTyped
    <3> QED
      BY <1>1, <2>1, <3>1, DecoderTypes
  <2> QED
    BY <1>1, <2>1, <2>2, <2>3 DEF DecoderTyped
<1>3. CASE NextEntry
  <2>1. dec = "data" /\ dec' = "skip" /\ left' = left + Pad(total) /\ left <= total
    BY <1>1, <1>3 DEF NextEntry, UnreadPadded, DecoderTyped
  <2>2. UNCHANGED <<want, frames, pending, exec, total, entries, outcome>>
    BY <1>3 DEF NextEntry
  <2>3. left' \in Nat /\ left' <= total + Align - 1
    <3>1. Pad(total) \in 0..(Align - 1)
      BY <1>1, DecoderTypes, PadIsShort
    <3> QED
      BY <1>1, <2>1, <3>1, DecoderTypes
  <2>4. want = <<>> /\ want' = want /\ total' = total
    BY <1>1, <2>1, <2>2 DEF DecoderTyped
  <2> QED
    BY <1>1, <2>1, <2>2, <2>3, <2>4 DEF DecoderTyped
<1>4. CASE CloseNode
  <2>1. /\ dec = "skip" /\ left = 0 /\ dec' = (IF frames = <<>> THEN "end" ELSE "body")
        /\ pending' = 0 /\ total' = 0
        /\ want' = IF frames = <<>> THEN Tokens(<<")">>) ELSE Tokens(<<")", ")">>)
    BY <1>4 DEF CloseNode
  <2>2. want' \in Seq(Wanted) /\ Len(want') <= 3
    <3>1. CASE frames = <<>>
      <4>1. want' = <<T(")")>>
        BY <2>1, <3>1, Tokens1
      <4>2. want' \in Seq(Wanted) /\ Len(want') = 1
        BY <4>1, WantedAreItems
      <4> QED
        BY <4>2
    <3>2. CASE frames # <<>>
      <4>1. want' = <<T(")"), T(")")>>
        BY <2>1, <3>2, Tokens2
      <4>2. want' \in Seq(Wanted) /\ Len(want') = 2
        BY <4>1, WantedAreItems
      <4> QED
        BY <4>2
    <3> QED
      BY <3>1, <3>2
  <2>3. UNCHANGED <<frames, exec, left, entries, outcome>>
    BY <1>4 DEF CloseNode
  <2>4. left' <= total' + Align - 1
    BY <2>1, <2>3, NarAssumption
  <2> QED
    BY <1>1, <2>1, <2>2, <2>3, <2>4 DEF DecoderTyped
<1> QED
  BY <1>2, <1>3, <1>4

\* The last name of the innermost frame.
LEMMA LastReplaced ==
  ASSUME NEW s \in Seq(Frames), s # <<>>, NEW name \in Nat
  PROVE  LET t == [s EXCEPT ![Len(s)].last = name] IN
         /\ t \in Seq(Frames) /\ Len(t) = Len(s) /\ t # <<>>
         /\ \A i \in 1..(Len(s) - 1) : t[i] = s[i]
         /\ t[Len(s)].last = name /\ t[Len(s)].name = s[Len(s)].name
<1> DEFINE f == [s[Len(s)] EXCEPT !.last = name]
           t == [s EXCEPT ![Len(s)] = f]
<1>1. Len(s) \in Nat \ {0} /\ Len(s) \in 1..Len(s) /\ s[Len(s)] \in Frames
  BY FrontOfSeq
<1>2. f \in Frames /\ f.last = name /\ f.name = s[Len(s)].name
  BY <1>1 DEF Frames
<1> HIDE DEF f
<1>3. t \in Seq(Frames) /\ Len(t) = Len(s) /\ t[Len(s)] = f /\ \A i \in 1..(Len(s) - 1) : t[i] = s[i]
  BY <1>1, <1>2, ExceptSeq
<1>4. [s EXCEPT ![Len(s)].last = name] = t
  BY DEF f
<1> HIDE DEF t
<1> QED
  BY <1>1, <1>2, <1>3, <1>4

LEMMA BodyTyped == Typed /\ (CloseDirectory \/ Entry \/ Name) => DecoderTyped'
<1> SUFFICES ASSUME Typed, CloseDirectory \/ Entry \/ Name PROVE DecoderTyped'
  OBVIOUS
<1>1. DecoderTyped /\ EncoderTyped
  BY DEF Typed
<1>2. outcome = "none" /\ wire # <<>> /\ want = <<>> /\ dec \in {"body", "name"}
  BY DEF CloseDirectory, Entry, Name, At, Available, Reads
<1>3. frames # <<>> /\ frames \in Seq(Frames)
  BY <1>1, <1>2 DEF DecoderTyped
<1>4. CASE CloseDirectory
  <2>1. frames' = Front(frames) /\ UNCHANGED <<dec, pending, exec, left, total, entries>>
    BY <1>4 DEF CloseDirectory
  <2>2. frames' \in Seq(Frames) /\ Len(frames') = Len(frames) - 1 /\ Len(frames) \in Nat \ {0}
    BY <1>3, <2>1, FrontOfSeq
  <2>3. CASE Len(frames) = 1
    BY <1>1, <1>2, <1>4, <2>1, <2>2, <2>3 DEF CloseDirectory, DecoderTyped
  <2>4. CASE Len(frames) # 1
    <3>1. want' = <<T(")")>> /\ outcome' = outcome
      BY <1>4, <2>4 DEF CloseDirectory
    <3>2. want' \in Seq(Wanted) /\ Len(want') = 1
      BY <3>1, WantedAreItems
    <3>3. frames' # <<>>
      BY <2>2, <2>4
    <3> QED
      BY <1>1, <1>2, <2>1, <2>2, <3>1, <3>2, <3>3 DEF DecoderTyped
  <2> QED
    BY <2>3, <2>4
<1>5. CASE Entry
  <2>1. want' = Tokens(<<"(", "name">>) /\ dec' = "name"
    BY <1>5 DEF Entry
  <2>2. want' \in Seq(Wanted) /\ Len(want') <= 3
    <3>1. want' \in Seq(Wanted) /\ Len(want') = 2
      BY <2>1, WantedAreItems
    <3> QED
      BY <3>1
  <2>3. UNCHANGED <<frames, pending, exec, left, total, entries, outcome>>
    BY <1>5 DEF Entry
  <2> QED
    BY <1>1, <1>2, <1>3, <2>1, <2>2, <2>3 DEF DecoderTyped
<1>6. CASE Name
  <2>1. Item[2] \in Nat
    BY <1>1, <1>2, ItemIsItem
  <2>2. /\ pending' = Item[2] /\ dec' = "type" /\ want' = Tokens(<<"node", "(", "type">>)
        /\ frames' = [frames EXCEPT ![Len(frames)].last = Item[2]]
        /\ outcome' \in {"none", "error"}
        /\ UNCHANGED <<exec, left, total, entries>>
    BY <1>2, <1>6 DEF Name
  <2>3. want' \in Seq(Wanted) /\ Len(want') <= 3
    <3>1. want' \in Seq(Wanted) /\ Len(want') = 3
      BY <2>2, WantedAreItems
    <3> QED
      BY <3>1
  <2>4. frames' \in Seq(Frames)
    BY <1>3, <2>1, <2>2, LastReplaced
  <2> QED
    BY <1>1, <1>2, <2>1, <2>2, <2>3, <2>4 DEF DecoderTyped
<1> QED
  BY <1>4, <1>5, <1>6

LEMMA EndedTyped == Typed /\ (Starved \/ RootClosed \/ Unexpected \/ Undecodable) => DecoderTyped'
<1> SUFFICES ASSUME Typed, Starved \/ RootClosed \/ Unexpected \/ Undecodable PROVE DecoderTyped'
  OBVIOUS
<1>1. outcome' \in {"finished", "error"}
  BY DEF Starved, EofIs, RootClosed, Unexpected, Undecodable
<1>2. UNCHANGED <<dec, want, frames, pending, exec, left, total, entries>>
  BY DEF Starved, RootClosed, Unexpected, Undecodable
<1> QED
  BY <1>1, <1>2 DEF Typed, DecoderTyped

-----------------------------------------------------------------------------
LEMMA StepTyped == Typed /\ [Next]_vars => Typed'
<1> SUFFICES ASSUME Typed, [Next]_vars PROVE Typed'
  OBVIOUS
<1>1. EncoderTyped /\ DecoderTyped
  BY DEF Typed
<1>2. CASE Encoder \/ Shrunk \/ Cut
  <2>1. EncoderTyped'
    BY <1>1, <1>2, StartTyped, SendEntryTyped, SendCloseTyped, SendContentsTyped, StoppedTyped DEF Encoder
  <2>2. UNCHANGED decVars
    BY <1>2 DEF Encoder, Start, SendEntry, SendClose, SendContents, Filled, Shrunk, Cut
  <2> QED
    BY <1>1, <2>1, <2>2 DEF Typed, DecoderTyped, decVars
<1>3. CASE Decoder
  <2>1. EncoderTyped'
    <3>1. tree' = tree /\ enc' = enc /\ dirs' = dirs /\ file' = file
      BY <1>3 DEF Decoder, Poll, Starved, Expect, Directory, Regular, Attribute, Contents, Length, Symlink,
                  Target, ReadData, NextEntry, Skip, CloseNode, RootClosed, CloseDirectory, Entry, Name,
                  Unexpected, Undecodable, At, Read, encVars
    <3>2. filling' = filling \/ filling' = TRUE
      BY <1>3 DEF Decoder, Poll, Starved, Expect, Directory, Regular, Attribute, Contents, Length, Symlink,
                  Target, ReadData, NextEntry, Skip, CloseNode, RootClosed, CloseDirectory, Entry, Name,
                  Unexpected, Undecodable, At, Read, encVars
    <3>3. wire' = wire \/ (wire # <<>> /\ wire' = Tail(wire))
      BY <1>3 DEF Decoder, Poll, Starved, Expect, Directory, Regular, Attribute, Contents, Length, Symlink,
                  Target, ReadData, NextEntry, Skip, CloseNode, RootClosed, CloseDirectory, Entry, Name,
                  Unexpected, Undecodable, At, Available, Read, encVars
    <3>4. filling' \in BOOLEAN
      BY <1>1, <3>2, EncoderTypes
    <3> QED
      BY <1>1, <3>1, <3>3, <3>4, TakenTyped
  <2>2. CASE Poll
    BY <1>1, <2>1, <2>2 DEF Typed, DecoderTyped, Poll, decVars
  <2>3. CASE ~Poll
    BY <1>3, <2>1, <2>3, ExpectTyped, HeadTyped, DataTyped, BodyTyped, EndedTyped DEF Decoder, Typed
  <2> QED
    BY <2>2, <2>3
<1>4. CASE UNCHANGED vars
  <2>1. EncoderTyped'
    BY <1>1, <1>4, EncoderTypes, TakenTyped DEF vars, encVars
  <2> QED
    BY <1>1, <1>4, <2>1 DEF Typed, DecoderTyped, vars, decVars
<1> QED
  BY <1>2, <1>3, <1>4 DEF Next

LEMMA TypedIsTypeOK == Typed => TypeOK
<1> SUFFICES ASSUME Typed PROVE TypeOK
  OBVIOUS
<1>1. EncoderTyped /\ DecoderTyped
  BY DEF Typed
<1>2. \A i \in DOMAIN dirs : dirs[i].path \in DOMAIN tree
  <2> SUFFICES ASSUME NEW i \in DOMAIN dirs PROVE dirs[i].path \in DOMAIN tree
    OBVIOUS
  <2>1. dirs[i] \in OpenDir
    BY <1>1, EncoderTypes, ElementOfSeq, LenProperties
  <2> QED
    BY <2>1 DEF OpenDir
<1>3. \A i \in DOMAIN frames : frames[i].last >= 0
  <2> SUFFICES ASSUME NEW i \in DOMAIN frames PROVE frames[i].last >= 0
    OBVIOUS
  <2>1. frames[i] \in Frames
    BY <1>1, DecoderTypes, ElementOfSeq, LenProperties
  <2> QED
    BY <2>1 DEF Frames
<1>4. Len(want) \in 0..3 /\ left \in 0..(total + Align - 1) /\ exec \in BOOLEAN
  <2>1. Len(want) \in 0..3
    <3>1. want \in Seq(Wanted) /\ Len(want) <= 3
      BY <1>1, DecoderTypes
    <3>2. Len(want) \in Nat
      BY <3>1, LenProperties
    <3> DEFINE n == Len(want)
    <3>3. n \in Nat /\ n <= 3
      BY <3>1, <3>2
    <3> HIDE DEF n
    <3>4. n \in 0..3
      BY <3>3
    <3> QED
      BY <3>4 DEF n
  <2>2. left \in 0..(total + Align - 1)
    BY <1>1, DecoderTypes
  <2> QED
    BY <1>1, <2>1, <2>2, DecoderTypes
<1>5. file.left \in 0..file.size /\ file.open \in BOOLEAN /\ filling \in BOOLEAN
  BY <1>1, EncoderTypes
<1>6. /\ enc \in {"start", "running", "done", "failed", "cut"}
      /\ dec \in {"type", "attrs", "len", "target", "data", "skip", "end", "body", "name"}
      /\ outcome \in {"none", "finished", "error"}
  BY <1>1 DEF EncoderTyped, DecoderTyped
<1> QED
  BY <1>2, <1>3, <1>4, <1>5, <1>6 DEF TypeOK

(* NarStream keeps its types: in particular next_entry's skip never counts *)
(* below zero or past the padding of the contents (lib.rs:256-273, 372-395).*)
THEOREM NarTypeCorrect == SafeSpec => []TypeOK
<1>1. SafeSpec => []Typed
  BY InitTyped, StepTyped, PTL DEF SafeSpec
<1> QED
  BY <1>1, TypedIsTypeOK, PTL

-----------------------------------------------------------------------------
(* The archive of a tree, as the places one passes from its first item to  *)
(* its end.  A place says where next_entry is there (at), what it expects  *)
(* first (want), which node or directory entry it is at (mark), and how    *)
(* many bytes of contents and padding are left (rest).  In a directory,    *)
(* the mark ends with the last name that was read, or 0.                   *)

Spot(at, tokens, mark) == [at |-> at, want |-> tokens, mark |-> mark, rest |-> 0]

Outset == Spot("type", <<T("nix-archive-1"), T("("), T("type")>>, <<>>)
TheEnd == Spot("end", <<>>, <<>>)

\* A node without its closing tokens, and with n bytes before these.
Unclosed(mark) ==
    IF mark = <<>> THEN Spot("end", <<T(")")>>, <<>>) ELSE Spot("body", <<T(")"), T(")")>>, mark)
Data(mark, n) ==
    IF n = 0 THEN Unclosed(mark) ELSE [at |-> "bytes", want |-> <<>>, mark |-> mark, rest |-> n]

\* The names that a directory has after the last one.
NamesLeft(mark) == {n \in Names(Front(mark)) : n > Last(mark)}

\* Whether an item can stand at a place. Any byte can stand for another.
Fits(d, item) ==
    IF d.want # <<>> THEN item = Head(d.want)
    ELSE \/ /\ d.at = "type"
            /\ \/ tree[d.mark].kind = "dir" /\ item = T("directory")
               \/ tree[d.mark].kind = "file" /\ item = T("regular")
               \/ tree[d.mark].kind = "link" /\ item = T("symlink")
         \/ d.at = "attrs" /\ item = (IF tree[d.mark].exec THEN T("executable") ELSE T("contents"))
         \/ d.at = "mode" /\ item = T("contents")
         \/ d.at = "len" /\ item = <<"len", tree[d.mark].size>>
         \/ d.at = "target" /\ item = T(tree[d.mark].target)
         \/ d.at = "bytes"
         \/ d.at = "body" /\ item = (IF NamesLeft(d.mark) = {} THEN T(")") ELSE T("entry"))
         \/ d.at = "name" /\ item = <<"string", FirstOf(NamesLeft(d.mark))>>

\* The place after the item.
Succ(d) ==
    IF d.want # <<>> THEN [d EXCEPT !.want = Tail(@)]
    ELSE CASE d.at = "type" /\ tree[d.mark].kind = "dir" -> Spot("body", <<>>, Append(d.mark, 0))
           [] d.at = "type" /\ tree[d.mark].kind = "file" -> Spot("attrs", <<>>, d.mark)
           [] d.at = "type" /\ tree[d.mark].kind = "link" -> Spot("target", <<T("target")>>, d.mark)
           [] d.at = "attrs" /\ tree[d.mark].exec -> Spot("mode", <<T("")>>, d.mark)
           [] d.at = "attrs" /\ ~tree[d.mark].exec -> Spot("len", <<>>, d.mark)
           [] d.at = "mode" -> Spot("len", <<>>, d.mark)
           [] d.at = "len" -> Data(d.mark, tree[d.mark].size + Pad(tree[d.mark].size))
           [] d.at = "target" -> Unclosed(d.mark)
           [] d.at = "bytes" -> Data(d.mark, d.rest - 1)
           [] d.at = "body" /\ NamesLeft(d.mark) # {} -> Spot("name", <<T("("), T("name")>>, d.mark)
           [] d.at = "body" /\ NamesLeft(d.mark) = {} /\ Len(d.mark) = 1 -> TheEnd
           [] d.at = "body" /\ NamesLeft(d.mark) = {} /\ Len(d.mark) # 1 ->
                Spot("body", <<T(")")>>, Front(d.mark))
           [] d.at = "name" ->
                Spot("type", <<T("node"), T("("), T("type")>>,
                     Append(Front(d.mark), FirstOf(NamesLeft(d.mark))))

Takes(d, item, e) == Fits(d, item) /\ e = Succ(d)

\* The items of w lead from one place to another.
Passes(run, w) == \A i \in 1..Len(w) : Takes(run[i - 1], w[i], run[i])
Leads(d, w, e) == \E run : Passes(run, w) /\ run[0] = d /\ run[Len(w)] = e

LEMMA LeadsNowhere == ASSUME NEW d PROVE Leads(d, <<>>, d)
<1> DEFINE run == [i \in {0} |-> d]
<1>1. Passes(run, <<>>) /\ run[0] = d /\ run[Len(<<>>)] = d
  BY DEF Passes
<1> QED
  BY <1>1 DEF Leads

LEMMA NothingLeads == ASSUME NEW d, NEW e, Leads(d, <<>>, e) PROVE d = e
<1>1. Len(<<>>) = 0
  OBVIOUS
<1> QED
  BY <1>1 DEF Leads

LEMMA LeadsOne ==
  ASSUME NEW d, NEW e, NEW w, Len(w) = 1, Takes(d, w[1], e)
  PROVE  Leads(d, w, e)
<1> DEFINE run == [i \in 0..1 |-> IF i = 0 THEN d ELSE e]
<1>1. run[0] = d /\ run[1] = e
  OBVIOUS
<1> HIDE DEF run
<1>2. Passes(run, w)
  BY <1>1 DEF Passes
<1> QED
  BY <1>1, <1>2 DEF Leads

LEMMA LeadsTwo ==
  ASSUME NEW d, NEW d1, NEW e, NEW w, Len(w) = 2, Takes(d, w[1], d1), Takes(d1, w[2], e)
  PROVE  Leads(d, w, e)
<1> DEFINE run == [i \in 0..2 |-> IF i = 0 THEN d ELSE IF i = 1 THEN d1 ELSE e]
<1>1. run[0] = d /\ run[1] = d1 /\ run[2] = e
  OBVIOUS
<1> HIDE DEF run
<1>2. Passes(run, w)
  BY <1>1 DEF Passes
<1> QED
  BY <1>1, <1>2 DEF Leads

LEMMA LeadsThree ==
  ASSUME NEW d, NEW d1, NEW d2, NEW e, NEW w, Len(w) = 3,
         Takes(d, w[1], d1), Takes(d1, w[2], d2), Takes(d2, w[3], e)
  PROVE  Leads(d, w, e)
<1> DEFINE run == [i \in 0..3 |-> IF i = 0 THEN d ELSE IF i = 1 THEN d1 ELSE IF i = 2 THEN d2 ELSE e]
<1>1. run[0] = d /\ run[1] = d1 /\ run[2] = d2 /\ run[3] = e
  OBVIOUS
<1> HIDE DEF run
<1>2. Passes(run, w)
  BY <1>1 DEF Passes
<1> QED
  BY <1>1, <1>2 DEF Leads

LEMMA LeadsSix ==
  ASSUME NEW d, NEW d1, NEW d2, NEW d3, NEW d4, NEW d5, NEW e, NEW w, Len(w) = 6,
         Takes(d, w[1], d1), Takes(d1, w[2], d2), Takes(d2, w[3], d3),
         Takes(d3, w[4], d4), Takes(d4, w[5], d5), Takes(d5, w[6], e)
  PROVE  Leads(d, w, e)
<1> DEFINE run == [i \in 0..6 |-> IF i = 0 THEN d ELSE IF i = 1 THEN d1 ELSE IF i = 2 THEN d2
                                  ELSE IF i = 3 THEN d3 ELSE IF i = 4 THEN d4 ELSE IF i = 5 THEN d5
                                  ELSE e]
<1>1. /\ run[0] = d /\ run[1] = d1 /\ run[2] = d2 /\ run[3] = d3
      /\ run[4] = d4 /\ run[5] = d5 /\ run[6] = e
  OBVIOUS
<1> HIDE DEF run
<1>2. Passes(run, w)
  BY <1>1 DEF Passes
<1> QED
  BY <1>1, <1>2 DEF Leads

LEMMA LeadsConcat ==
  ASSUME NEW d, NEW e, NEW f, NEW u \in Seq(Items), NEW v \in Seq(Items),
         Leads(d, u, e), Leads(e, v, f)
  PROVE  Leads(d, u \o v, f)
<1>1. PICK r : Passes(r, u) /\ r[0] = d /\ r[Len(u)] = e
  BY DEF Leads
<1>2. PICK s : Passes(s, v) /\ s[0] = e /\ s[Len(v)] = f
  BY DEF Leads
<1> DEFINE w == u \o v
           run == [i \in 0..(Len(u) + Len(v)) |-> IF i <= Len(u) THEN r[i] ELSE s[i - Len(u)]]
<1>3. /\ Len(u) \in Nat /\ Len(v) \in Nat /\ Len(w) = Len(u) + Len(v)
      /\ \A i \in 1..(Len(u) + Len(v)) : w[i] = IF i <= Len(u) THEN u[i] ELSE v[i - Len(u)]
  BY ConcatProperties, LenProperties
<1>4. /\ \A i \in 0..Len(u) : run[i] = r[i]
      /\ \A i \in Len(u)..(Len(u) + Len(v)) : run[i] = s[i - Len(u)]
  BY <1>1, <1>2, <1>3
<1> HIDE DEF w, run
<1>5. ASSUME NEW i \in 1..Len(w) PROVE Takes(run[i - 1], w[i], run[i])
  <2>1. CASE i <= Len(u)
    <3>1. run[i - 1] = r[i - 1] /\ run[i] = r[i] /\ w[i] = u[i] /\ i \in 1..Len(u)
      BY <1>3, <1>4, <2>1
    <3> QED
      BY <1>1, <3>1 DEF Passes
  <2>2. CASE i > Len(u)
    <3> DEFINE j == i - Len(u)
    <3>1. /\ j \in 1..Len(v) /\ (i - 1) - Len(u) = j - 1 /\ i \in 1..(Len(u) + Len(v))
          /\ i - 1 \in Len(u)..(Len(u) + Len(v)) /\ i \in Len(u)..(Len(u) + Len(v))
      BY <1>3, <2>2
    <3>2. run[i - 1] = s[j - 1]
      BY <1>4, <3>1
    <3>3. run[i] = s[j] /\ w[i] = v[j]
      BY <1>3, <1>4, <2>2, <3>1
    <3> HIDE DEF j
    <3> QED
      BY <1>2, <3>1, <3>2, <3>3 DEF Passes
  <2> QED
    BY <1>3, <2>1, <2>2
<1>6. run[0] = d /\ run[Len(w)] = f
  BY <1>1, <1>2, <1>3, <1>4
<1>7. Leads(d, w, f)
  BY <1>5, <1>6 DEF Leads, Passes
<1> QED
  BY <1>7 DEF w

\* The reader takes the first of the items.
LEMMA LeadsOn ==
  ASSUME NEW d, NEW e, NEW w \in Seq(Items), w # <<>>, Leads(d, w, e)
  PROVE  Fits(d, Head(w)) /\ Leads(Succ(d), Tail(w), e)
<1>1. PICK r : Passes(r, w) /\ r[0] = d /\ r[Len(w)] = e
  BY DEF Leads
<1> DEFINE t == Tail(w)
           run == [i \in 0..(Len(w) - 1) |-> r[i + 1]]
<1>2. /\ Len(w) \in Nat \ {0} /\ Head(w) = w[1] /\ Len(t) = Len(w) - 1
      /\ \A i \in 1..Len(t) : t[i] = w[i + 1]
  BY HeadTailProperties
<1>3. Takes(d, Head(w), r[1])
  BY <1>1, <1>2 DEF Passes
<1>4. run[0] = r[1] /\ run[Len(w) - 1] = r[Len(w)]
  BY <1>2
<1>5. ASSUME NEW i \in 1..Len(t) PROVE Takes(run[i - 1], t[i], run[i])
  <2>1. run[i - 1] = r[i] /\ run[i] = r[i + 1] /\ t[i] = w[i + 1] /\ i + 1 \in 1..Len(w) /\ (i + 1) - 1 = i
    BY <1>2
  <2> QED
    BY <1>1, <2>1 DEF Passes
<1> HIDE DEF t, run
<1>6. Leads(r[1], t, e)
  BY <1>1, <1>2, <1>4, <1>5 DEF Leads, Passes
<1> QED
  BY <1>3, <1>6 DEF Takes, t

\* Nothing comes after the end.
LEMMA EndLeadsNowhere ==
  ASSUME NEW e, NEW w \in Seq(Items), Leads(TheEnd, w, e)
  PROVE  w = <<>> /\ e = TheEnd
<1>1. \A x : ~Fits(TheEnd, x)
  BY DEF Fits, TheEnd, Spot
<1>2. w = <<>>
  BY <1>1, LeadsOn
<1> QED
  BY <1>2, NothingLeads

LEMMA BytesLead ==
  ASSUME NEW mark, NEW k \in Nat, NEW n \in Nat, NEW w, Len(w) = n
  PROVE  Leads(Data(mark, n + k), w, Data(mark, k))
<1> DEFINE run == [i \in 0..n |-> Data(mark, (n + k) - i)]
<1>1. run[0] = Data(mark, n + k) /\ run[n] = Data(mark, k)
  <2>1. (n + k) - 0 = n + k /\ (n + k) - n = k
    OBVIOUS
  <2> QED
    BY <2>1
<1>2. ASSUME NEW i \in 1..n PROVE Takes(run[i - 1], w[i], run[i])
  <2> DEFINE m == (n + k) - (i - 1)
  <2>1. m \in Nat \ {0} /\ (n + k) - i = m - 1 /\ i \in 0..n /\ i - 1 \in 0..n
    OBVIOUS
  <2>2. run[i - 1] = Data(mark, m) /\ run[i] = Data(mark, m - 1)
    BY <2>1
  <2> HIDE DEF m, run
  <2>3. Data(mark, m) = [at |-> "bytes", want |-> <<>>, mark |-> mark, rest |-> m]
    BY <2>1 DEF Data
  <2>4. Fits(Data(mark, m), w[i])
    BY <2>3 DEF Fits
  <2>5. Succ(Data(mark, m)) = Data(mark, m - 1)
    BY <2>3 DEF Succ
  <2> QED
    BY <2>2, <2>4, <2>5 DEF Takes
<1> HIDE DEF run
<1> QED
  BY <1>1, <1>2 DEF Leads, Passes

-----------------------------------------------------------------------------
(* Pre-order.                                                              *)

LEMMA PrefixIs ==
  ASSUME NEW p \in Seq(Nat), NEW q \in Seq(Nat)
  PROVE  IsPrefix(p, q) <=> Len(p) <= Len(q) /\ \A i \in 1..Len(p) : p[i] = q[i]
<1>1. Len(p) \in Nat /\ Len(q) \in Nat
  OBVIOUS
<1>2. SubSeq(p, 1, Len(p)) = [i \in 1..Len(p) |-> p[i]]
  BY <1>1
<1>3. SubSeq(q, 1, Len(p)) = [i \in 1..Len(p) |-> q[i]]
  BY <1>1
<1>4. SubSeq(p, 1, Len(p)) = SubSeq(q, 1, Len(p)) <=> \A i \in 1..Len(p) : p[i] = q[i]
  BY <1>2, <1>3
<1> QED
  BY <1>4 DEF IsPrefix

LEMMA BeforeIs ==
  ASSUME NEW p \in Seq(Nat), NEW q \in Seq(Nat)
  PROVE  Before(p, q) <=>
           \/ IsPrefix(p, q) /\ p # q
           \/ \E i \in 1..Len(p) :
                /\ i <= Len(q) /\ p[i] < q[i]
                /\ \A j \in 1..(i - 1) : p[j] = q[j]
<1>1. Len(p) \in Nat /\ Len(q) \in Nat /\ DOMAIN p = 1..Len(p) /\ DOMAIN q = 1..Len(q)
  OBVIOUS
<1>2. \A i : i \in (DOMAIN p) \cap (DOMAIN q) <=> i \in 1..Len(p) /\ i <= Len(q)
  BY <1>1
<1> QED
  BY <1>2 DEF Before, IsStrictPrefix

\* Where a path is in relation to an entry of a directory.
LEMMA BeforeEntry ==
  ASSUME NEW f \in Seq(Nat), NEW a \in Nat, NEW p \in Seq(Nat)
  PROVE  LET q == Append(f, a)  x == p[Len(f) + 1] IN
         /\ IsPrefix(f, p) /\ p # f =>
              /\ Len(p) > Len(f) /\ x \in Nat /\ ~Before(p, f)
              /\ Before(p, q) <=> x < a
              /\ IsPrefix(q, p) <=> x = a
         /\ p = f => Before(p, q) /\ ~IsPrefix(q, p) /\ IsPrefix(f, p) /\ ~Before(p, f)
         /\ ~IsPrefix(f, p) => (Before(p, q) <=> Before(p, f)) /\ ~IsPrefix(q, p)
<1> DEFINE q == Append(f, a)
           x == p[Len(f) + 1]
<1>1. /\ Len(f) \in Nat /\ Len(p) \in Nat
      /\ q \in Seq(Nat) /\ Len(q) = Len(f) + 1 /\ q[Len(f) + 1] = a
      /\ \A i \in 1..Len(f) : q[i] = f[i]
  OBVIOUS
<1> HIDE DEF q
<1>2. ASSUME Len(p) = Len(f), \A i \in 1..Len(f) : f[i] = p[i] PROVE p = f
  BY <1>1, <1>2, SeqEqual
<1>3. ASSUME IsPrefix(f, p), p # f
      PROVE  /\ Len(p) > Len(f) /\ x \in Nat /\ ~Before(p, f)
             /\ Before(p, q) <=> x < a
             /\ IsPrefix(q, p) <=> x = a
  <2>1. Len(f) <= Len(p) /\ \A i \in 1..Len(f) : f[i] = p[i]
    BY <1>3, PrefixIs
  <2>2. Len(p) > Len(f)
    BY <1>1, <1>2, <1>3, <2>1
  <2>3. x \in Nat
    <3>1. Len(f) + 1 \in 1..Len(p)
      BY <1>1, <2>2
    <3> QED
      BY <3>1, ElementOfSeq
  <2>4. ~Before(p, f)
    <3>1. ~IsPrefix(p, f)
      BY <1>1, <2>2, PrefixIs
    <3>2. ~\E i \in 1..Len(p) : i <= Len(f) /\ p[i] < f[i]
      BY <1>1, <2>1, ElementOfSeq
    <3> QED
      BY <3>1, <3>2, BeforeIs
  <2>5. IsPrefix(q, p) <=> x = a
    <3>1. IsPrefix(q, p) <=> Len(q) <= Len(p) /\ \A i \in 1..Len(q) : q[i] = p[i]
      BY <1>1, PrefixIs
    <3>2. Len(f) + 1 \in 1..Len(q) /\ Len(q) <= Len(p)
      BY <1>1, <2>2
    <3>3. \A i \in 1..Len(q) : i \in 1..Len(f) \/ i = Len(f) + 1
      BY <1>1
    <3>4. x = a => \A i \in 1..Len(q) : q[i] = p[i]
      BY <1>1, <2>1, <3>3
    <3>5. (\A i \in 1..Len(q) : q[i] = p[i]) => x = a
      BY <1>1, <3>2
    <3> QED
      BY <3>1, <3>2, <3>4, <3>5
  <2>6. Before(p, q) <=> x < a
    <3>1. IsPrefix(p, q) /\ p # q => FALSE
      <4> SUFFICES ASSUME IsPrefix(p, q) PROVE p = q
        OBVIOUS
      <4>1. Len(p) = Len(q) /\ \A i \in 1..Len(p) : p[i] = q[i]
        BY <1>1, <2>2, PrefixIs
      <4> QED
        BY <1>1, <4>1, SeqEqual
    <3>2. (\E i \in 1..Len(p) : i <= Len(q) /\ p[i] < q[i] /\ \A j \in 1..(i - 1) : p[j] = q[j]) => x < a
      <4> SUFFICES ASSUME NEW i \in 1..Len(p), i <= Len(q), p[i] < q[i] PROVE x < a
        OBVIOUS
      <4>1. CASE i \in 1..Len(f)
        BY <1>1, <2>1, <4>1, ElementOfSeq
      <4>2. CASE i = Len(f) + 1
        BY <1>1, <4>2
      <4> QED
        BY <1>1, <4>1, <4>2
    <3>3. x < a => \E i \in 1..Len(p) : i <= Len(q) /\ p[i] < q[i] /\ \A j \in 1..(i - 1) : p[j] = q[j]
      <4> SUFFICES ASSUME x < a
                   PROVE  \E i \in 1..Len(p) : i <= Len(q) /\ p[i] < q[i] /\ \A j \in 1..(i - 1) : p[j] = q[j]
        OBVIOUS
      <4>1. Len(f) + 1 \in 1..Len(p) /\ Len(f) + 1 <= Len(q) /\ p[Len(f) + 1] < q[Len(f) + 1]
        BY <1>1, <2>2
      <4>2. \A j \in 1..((Len(f) + 1) - 1) : p[j] = q[j]
        BY <1>1, <2>1
      <4> QED
        BY <4>1, <4>2
    <3> QED
      BY <1>1, <3>1, <3>2, <3>3, BeforeIs
  <2> QED
    BY <2>2, <2>3, <2>4, <2>5, <2>6
<1>4. ASSUME p = f PROVE Before(p, q) /\ ~IsPrefix(q, p) /\ IsPrefix(f, p) /\ ~Before(p, f)
  <2>1. IsPrefix(p, q) /\ p # q /\ IsPrefix(f, p) /\ ~IsPrefix(q, p)
    BY <1>1, <1>4, PrefixIs
  <2>2. ~\E i \in 1..Len(p) : i <= Len(f) /\ p[i] < f[i]
    BY <1>1, <1>4, ElementOfSeq
  <2> QED
    BY <1>1, <1>4, <2>1, <2>2, BeforeIs
<1>5. ASSUME ~IsPrefix(f, p) PROVE (Before(p, q) <=> Before(p, f)) /\ ~IsPrefix(q, p)
  <2>1. ~IsPrefix(q, p)
    <3> SUFFICES ASSUME IsPrefix(q, p) PROVE FALSE
      OBVIOUS
    <3>1. Len(q) <= Len(p) /\ \A i \in 1..Len(q) : q[i] = p[i]
      BY <1>1, PrefixIs
    <3>2. Len(f) <= Len(p) /\ \A i \in 1..Len(f) : f[i] = p[i]
      BY <1>1, <3>1
    <3> QED
      BY <1>5, <3>2, PrefixIs
  <2>2. p # f
    BY <1>5, <1>1, PrefixIs
  <2>3. IsPrefix(p, q) /\ p # q <=> IsPrefix(p, f) /\ p # f
    <3>1. ASSUME IsPrefix(p, q), p # q PROVE IsPrefix(p, f)
      <4>1. Len(p) <= Len(q) /\ \A i \in 1..Len(p) : p[i] = q[i]
        BY <1>1, <3>1, PrefixIs
      <4>2. Len(p) # Len(q)
        BY <1>1, <3>1, <4>1, SeqEqual
      <4>3. Len(p) <= Len(f) /\ \A i \in 1..Len(p) : p[i] = f[i]
        BY <1>1, <4>1, <4>2
      <4> QED
        BY <4>3, PrefixIs
    <3>2. ASSUME IsPrefix(p, f) PROVE IsPrefix(p, q) /\ p # q
      BY <1>1, <3>2, PrefixIs
    <3> QED
      BY <2>2, <3>1, <3>2
  <2>4. (\E i \in 1..Len(p) : i <= Len(q) /\ p[i] < q[i] /\ \A j \in 1..(i - 1) : p[j] = q[j])
          <=> \E i \in 1..Len(p) : i <= Len(f) /\ p[i] < f[i] /\ \A j \in 1..(i - 1) : p[j] = f[j]
    <3>1. ASSUME NEW i \in 1..Len(p), i <= Len(q), p[i] < q[i], \A j \in 1..(i - 1) : p[j] = q[j]
          PROVE  i <= Len(f) /\ p[i] < f[i] /\ \A j \in 1..(i - 1) : p[j] = f[j]
      <4>1. i # Len(f) + 1
        <5> SUFFICES ASSUME i = Len(f) + 1 PROVE FALSE
          OBVIOUS
        <5>1. Len(f) <= Len(p) /\ \A j \in 1..Len(f) : f[j] = p[j]
          BY <1>1, <3>1
        <5> QED
          BY <1>5, <5>1, PrefixIs
      <4> QED
        BY <1>1, <3>1, <4>1
    <3>2. ASSUME NEW i \in 1..Len(p), i <= Len(f), p[i] < f[i], \A j \in 1..(i - 1) : p[j] = f[j]
          PROVE  i <= Len(q) /\ p[i] < q[i] /\ \A j \in 1..(i - 1) : p[j] = q[j]
      BY <1>1, <3>2
    <3> QED
      BY <3>1, <3>2
  <2>5. Before(p, q) <=> Before(p, f)
    BY <1>1, <2>3, <2>4, BeforeIs
  <2> QED
    BY <2>1, <2>5
<1> QED
  BY <1>3, <1>4, <1>5 DEF q

\* Whatever is below a directory of the tree is below one of its names.
LEMMA BelowIsNamed ==
  ASSUME WellFormed(tree), NEW f \in Seq(Nat), NEW p \in DOMAIN tree, IsPrefix(f, p), p # f
  PROVE  p[Len(f) + 1] \in Names(f)
<1> DEFINE x == p[Len(f) + 1]
           q == SubSeq(p, 1, Len(f) + 1)
<1>1. p \in Seq(Nat)
  BY TreeNodes
<1>2. Len(f) <= Len(p) /\ (\A i \in 1..Len(f) : f[i] = p[i]) /\ Len(p) > Len(f) /\ x \in Nat
  <2>1. Len(p) > Len(f) /\ x \in Nat
    BY <1>1, BeforeEntry
  <2>2. Len(f) <= Len(p) /\ \A i \in 1..Len(f) : f[i] = p[i]
    BY <1>1, PrefixIs
  <2> QED
    BY <2>1, <2>2
<1>3. q = Append(f, x)
  <2>1. Len(f) \in Nat /\ Len(p) \in Nat
    BY <1>1
  <2>2. Append(f, x) \in Seq(Nat) /\ Len(Append(f, x)) = Len(f) + 1
        /\ \A i \in 1..(Len(f) + 1) : Append(f, x)[i] = p[i]
    BY <1>2, <2>1
  <2>3. q \in Seq(Nat) /\ Len(q) = Len(f) + 1 /\ \A i \in 1..(Len(f) + 1) : q[i] = p[i]
    <3>1. \A i \in 1..(Len(f) + 1) : p[i] \in Nat
      BY <1>1, <1>2, <2>1, ElementOfSeq
    <3> QED
      BY <2>1, <3>1, SubSeqProperties
  <2> HIDE DEF q, x
  <2> QED
    BY <2>2, <2>3, SeqEqual
<1>4. q \in DOMAIN tree
  <2>1. CASE Len(p) = Len(f) + 1
    BY <1>1, <2>1, SubSeqFull
  <2>2. CASE Len(p) # Len(f) + 1
    <3>1. Len(f) + 1 \in 0..(Len(p) - 1)
      BY <1>1, <1>2, <2>2
    <3> QED
      BY <3>1 DEF WellFormed
  <2> QED
    BY <2>1, <2>2
<1> QED
  BY <1>2, <1>3, <1>4, NamesOfNode

-----------------------------------------------------------------------------
(* The places that there are, and the nodes returned before each.          *)

Places ==
    [at : {"type", "attrs", "mode", "len", "target", "bytes", "body", "name", "end"},
     want : Seq(Wanted), mark : Seq(Nat), rest : Nat]

OfNode == {"type", "attrs", "mode", "len", "target", "bytes"}

Valid(d) ==
    /\ d \in Places
    /\ d.at \in OfNode => d.mark \in DOMAIN tree
    /\ d.at \in {"attrs", "mode", "len", "bytes"} => tree[d.mark].kind = "file"
    /\ d.at = "mode" => tree[d.mark].exec
    /\ d.at = "target" => tree[d.mark].kind = "link"
    /\ d.at = "bytes" => d.rest > 0
    /\ d.at \in {"body", "name"} =>
         d.mark # <<>> /\ Front(d.mark) \in DOMAIN tree /\ tree[Front(d.mark)].kind = "dir"
    /\ d.at = "name" => NamesLeft(d.mark) # {}
    /\ d.at = "end" => d.mark = <<>>

IsReturned(d) ==
    d.want = <<>> /\ (d.at \in {"len", "target"} \/ (d.at = "type" /\ tree[d.mark].kind = "dir"))

Visited(d) ==
    IF d.at \in OfNode \ {"bytes"}
    THEN {p \in DOMAIN tree : Before(p, d.mark)}
    ELSE {p \in DOMAIN tree : Before(p, d.mark) \/ IsPrefix(d.mark, p)}

LEMMA SpotFields ==
  ASSUME NEW at, NEW w, NEW m
  PROVE  /\ Spot(at, w, m).at = at /\ Spot(at, w, m).want = w
         /\ Spot(at, w, m).mark = m /\ Spot(at, w, m).rest = 0
BY DEF Spot

LEMMA SpotIsPlace ==
  ASSUME NEW at \in {"type", "attrs", "mode", "len", "target", "bytes", "body", "name", "end"},
         NEW w \in Seq(Wanted), NEW m \in Seq(Nat)
  PROVE  Spot(at, w, m) \in Places
BY DEF Spot, Places

\* A node is in a directory, unless it is the root.
LEMMA NodeIsInDir ==
  ASSUME WellFormed(tree), NEW m \in DOMAIN tree, m # <<>>
  PROVE  m \in Seq(Nat) /\ Front(m) \in DOMAIN tree /\ tree[Front(m)].kind = "dir"
<1>1. m \in Seq(Nat) /\ Len(m) \in Nat \ {0}
  BY TreeNodes
<1>2. Len(m) - 1 \in 0..(Len(m) - 1) /\ Front(m) = SubSeq(m, 1, Len(m) - 1)
  BY <1>1 DEF Front
<1> QED
  BY <1>1, <1>2 DEF WellFormed

LEMMA UnclosedIsValid ==
  ASSUME WellFormed(tree), NEW m \in DOMAIN tree
  PROVE  Valid(Unclosed(m)) /\ Unclosed(m).mark = m /\ Unclosed(m).at \in {"body", "end"}
<1>1. m \in Seq(Nat)
  BY TreeNodes
<1>2. CASE m = <<>>
  <2>1. Unclosed(m) = Spot("end", <<T(")")>>, <<>>) /\ Spot("end", <<T(")")>>, <<>>) \in Places
    BY <1>1, <1>2, WantedAreItems, SpotIsPlace DEF Unclosed
  <2> QED
    BY <1>2, <2>1, SpotFields DEF Valid, OfNode
<1>3. CASE m # <<>>
  <2>1. <<T(")"), T(")")>> \in Seq(Wanted)
    BY WantedAreItems
  <2>2. Unclosed(m) = Spot("body", <<T(")"), T(")")>>, m) /\ Unclosed(m) \in Places
    BY <1>1, <1>3, <2>1, SpotIsPlace DEF Unclosed
  <2> QED
    BY <1>3, <2>2, SpotFields, NodeIsInDir DEF Valid, OfNode
<1> QED
  BY <1>2, <1>3

LEMMA DataIsValid ==
  ASSUME WellFormed(tree), NEW m \in DOMAIN tree, NEW n \in Nat, n = 0 \/ tree[m].kind = "file"
  PROVE  Valid(Data(m, n)) /\ Data(m, n).mark = m /\ Data(m, n).at \in {"body", "end", "bytes"}
<1>1. CASE n = 0
  BY <1>1, UnclosedIsValid DEF Data
<1>2. CASE n # 0
  <2>1. Data(m, n) = [at |-> "bytes", want |-> <<>>, mark |-> m, rest |-> n]
    BY <1>2 DEF Data
  <2>2. m \in Seq(Nat) /\ <<>> \in Seq(Wanted)
    BY TreeNodes
  <2>3. Data(m, n) \in Places
    BY <2>1, <2>2 DEF Places
  <2> QED
    BY <1>2, <2>1, <2>3 DEF Valid, OfNode
<1> QED
  BY <1>1, <1>2

\* The next name, and the node that it leads to.
LEMMA NextNameOfDir ==
  ASSUME WellFormed(tree), NEW m \in Seq(Nat), m # <<>>, NamesLeft(m) # {}
  PROVE  LET n == FirstOf(NamesLeft(m)) IN
         /\ n \in Nat /\ n \in NamesLeft(m) /\ n > Last(m) /\ n \in Names(Front(m))
         /\ \A k \in NamesLeft(m) : n <= k
         /\ Append(Front(m), n) \in DOMAIN tree
<1>1. NamesLeft(m) \in SUBSET Nat
  BY NamesLead DEF NamesLeft
<1>2. FirstOf(NamesLeft(m)) \in NamesLeft(m) /\ \A k \in NamesLeft(m) : FirstOf(NamesLeft(m)) <= k
  BY <1>1, FirstOfIsLeast
<1>3. FirstOf(NamesLeft(m)) \in Names(Front(m)) /\ FirstOf(NamesLeft(m)) > Last(m)
  BY <1>2 DEF NamesLeft
<1> QED
  BY <1>1, <1>2, <1>3, NamesLead

\* Succ, stage by stage.
LEMMA SuccOf ==
  ASSUME NEW d, NEW x, Fits(d, x)
  PROVE  /\ d.want # <<>> => x = Head(d.want) /\ Succ(d) = [d EXCEPT !.want = Tail(@)]
         /\ d.want = <<>> =>
            /\ d.at = "type" =>
                 \/ /\ tree[d.mark].kind = "dir" /\ x = T("directory")
                    /\ Succ(d) = Spot("body", <<>>, Append(d.mark, 0))
                 \/ /\ tree[d.mark].kind = "file" /\ x = T("regular")
                    /\ Succ(d) = Spot("attrs", <<>>, d.mark)
                 \/ /\ tree[d.mark].kind = "link" /\ x = T("symlink")
                    /\ Succ(d) = Spot("target", <<T("target")>>, d.mark)
            /\ d.at = "attrs" =>
                 \/ /\ tree[d.mark].exec /\ x = T("executable")
                    /\ Succ(d) = Spot("mode", <<T("")>>, d.mark)
                 \/ /\ ~tree[d.mark].exec /\ x = T("contents")
                    /\ Succ(d) = Spot("len", <<>>, d.mark)
            /\ d.at = "mode" => x = T("contents") /\ Succ(d) = Spot("len", <<>>, d.mark)
            /\ d.at = "len" =>
                 /\ x = <<"len", tree[d.mark].size>>
                 /\ Succ(d) = Data(d.mark, tree[d.mark].size + Pad(tree[d.mark].size))
            /\ d.at = "target" => x = T(tree[d.mark].target) /\ Succ(d) = Unclosed(d.mark)
            /\ d.at = "bytes" => Succ(d) = Data(d.mark, d.rest - 1)
            /\ d.at = "body" =>
                 \/ /\ NamesLeft(d.mark) # {} /\ x = T("entry")
                    /\ Succ(d) = Spot("name", <<T("("), T("name")>>, d.mark)
                 \/ /\ NamesLeft(d.mark) = {} /\ x = T(")")
                    /\ Succ(d) = (IF Len(d.mark) = 1 THEN TheEnd ELSE Spot("body", <<T(")")>>, Front(d.mark)))
            /\ d.at = "name" =>
                 /\ x = <<"string", FirstOf(NamesLeft(d.mark))>>
                 /\ Succ(d) = Spot("type", <<T("node"), T("("), T("type")>>,
                                   Append(Front(d.mark), FirstOf(NamesLeft(d.mark))))
            /\ d.at # "end"
<1>1. d.want # <<>> => x = Head(d.want) /\ Succ(d) = [d EXCEPT !.want = Tail(@)]
  BY DEF Fits, Succ
<1>2. CASE d.want = <<>> /\ d.at = "type"
  BY <1>2 DEF Fits, Succ
<1>3. CASE d.want = <<>> /\ d.at = "attrs"
  BY <1>3 DEF Fits, Succ
<1>4. CASE d.want = <<>> /\ d.at \in {"mode", "len", "target", "bytes", "name"}
  BY <1>4 DEF Fits, Succ
<1>5. CASE d.want = <<>> /\ d.at = "body"
  BY <1>5 DEF Fits, Succ
<1>6. d.want = <<>> => d.at # "end"
  BY DEF Fits
<1> QED
  BY <1>1, <1>2, <1>3, <1>4, <1>5, <1>6

LEMMA ValidSpot ==
  ASSUME NEW at \in {"type", "attrs", "mode", "len", "target", "body", "name", "end"},
         NEW w \in Seq(Wanted), NEW m \in Seq(Nat),
         at \in OfNode => m \in DOMAIN tree,
         at \in {"attrs", "mode", "len"} => tree[m].kind = "file",
         at = "mode" => tree[m].exec,
         at = "target" => tree[m].kind = "link",
         at \in {"body", "name"} => m # <<>> /\ Front(m) \in DOMAIN tree /\ tree[Front(m)].kind = "dir",
         at = "name" => NamesLeft(m) # {},
         at = "end" => m = <<>>
  PROVE  Valid(Spot(at, w, m))
<1> DEFINE d == Spot(at, w, m)
<1>1. d.at = at /\ d.mark = m /\ d \in Places
  BY SpotFields, SpotIsPlace
<1> HIDE DEF d
<1>2. Valid(d)
  BY <1>1 DEF Valid
<1> QED
  BY <1>2 DEF d

LEMMA ValidSucc ==
  ASSUME WellFormed(tree), NEW d, NEW x, Valid(d), Fits(d, x)
  PROVE  Valid(Succ(d))
<1>1. /\ d \in Places /\ d.at \in {"type", "attrs", "mode", "len", "target", "bytes", "body", "name", "end"}
      /\ d.want \in Seq(Wanted) /\ d.mark \in Seq(Nat) /\ d.rest \in Nat
  BY DEF Valid, Places
<1>2. CASE d.want # <<>>
  <2>1. Succ(d) = [d EXCEPT !.want = Tail(@)] /\ Tail(d.want) \in Seq(Wanted)
    BY <1>1, <1>2, SuccOf, HeadTailProperties
  <2>2. /\ Succ(d) \in Places /\ Succ(d).at = d.at /\ Succ(d).mark = d.mark /\ Succ(d).rest = d.rest
    BY <1>1, <2>1 DEF Places
  <2> QED
    BY <2>2 DEF Valid
<1>3. ASSUME d.want = <<>>, d.at \in OfNode PROVE d.mark \in DOMAIN tree /\ tree[d.mark] \in Nodes
  BY <1>3, TreeNodes DEF Valid
<1>4. CASE d.want = <<>> /\ d.at = "type"
  <2>1. d.mark \in DOMAIN tree
    BY <1>3, <1>4 DEF OfNode
  <2>2. CASE tree[d.mark].kind = "dir" /\ Succ(d) = Spot("body", <<>>, Append(d.mark, 0))
    <3>1. Append(d.mark, 0) \in Seq(Nat) /\ Append(d.mark, 0) # <<>> /\ Front(Append(d.mark, 0)) = d.mark
      BY <1>1, FrontOfAppend
    <3>2. Valid(Spot("body", <<>>, Append(d.mark, 0)))
      BY <2>1, <2>2, <3>1, ValidSpot, WantedAreItems DEF OfNode
    <3> QED
      BY <2>2, <3>2
  <2>3. CASE tree[d.mark].kind = "file" /\ Succ(d) = Spot("attrs", <<>>, d.mark)
    <3>1. Valid(Spot("attrs", <<>>, d.mark))
      BY <1>1, <2>1, <2>3, ValidSpot, WantedAreItems DEF OfNode
    <3> QED
      BY <2>3, <3>1
  <2>4. CASE tree[d.mark].kind = "link" /\ Succ(d) = Spot("target", <<T("target")>>, d.mark)
    <3>1. Valid(Spot("target", <<T("target")>>, d.mark))
      BY <1>1, <2>1, <2>4, ValidSpot, WantedAreItems DEF OfNode
    <3> QED
      BY <2>4, <3>1
  <2> QED
    BY <1>4, <2>2, <2>3, <2>4, SuccOf
<1>5. CASE d.want = <<>> /\ d.at \in {"attrs", "mode"}
  <2>1. d.mark \in DOMAIN tree /\ tree[d.mark].kind = "file" /\ (d.at = "mode" => tree[d.mark].exec)
    BY <1>3, <1>5 DEF OfNode, Valid
  <2>2. CASE tree[d.mark].exec /\ Succ(d) = Spot("mode", <<T("")>>, d.mark)
    <3>1. Valid(Spot("mode", <<T("")>>, d.mark))
      BY <1>1, <2>1, <2>2, ValidSpot, WantedAreItems DEF OfNode
    <3> QED
      BY <2>2, <3>1
  <2>3. CASE Succ(d) = Spot("len", <<>>, d.mark)
    <3>1. Valid(Spot("len", <<>>, d.mark))
      BY <1>1, <2>1, <2>3, ValidSpot, WantedAreItems DEF OfNode
    <3> QED
      BY <2>3, <3>1
  <2> QED
    BY <1>5, <2>2, <2>3, SuccOf
<1>6. CASE d.want = <<>> /\ d.at \in {"len", "target", "bytes"}
  <2>1. d.mark \in DOMAIN tree /\ tree[d.mark] \in Nodes
    BY <1>3, <1>6 DEF OfNode
  <2>2. CASE d.at = "len"
    <3>1. tree[d.mark].kind = "file" /\ tree[d.mark].size \in Nat
      BY <2>1, <2>2, KindsOfNodes DEF Valid
    <3>2. tree[d.mark].size + Pad(tree[d.mark].size) \in Nat
      <4>1. Pad(tree[d.mark].size) \in 0..(Align - 1)
        BY <3>1, PadIsShort
      <4> QED
        BY <3>1, <4>1, NarAssumption
    <3> DEFINE n == tree[d.mark].size + Pad(tree[d.mark].size)
    <3>3. Succ(d) = Data(d.mark, n)
      BY <1>6, <2>2, SuccOf
    <3> HIDE DEF n
    <3> QED
      BY <2>1, <3>1, <3>2, <3>3, DataIsValid DEF n
  <2>3. CASE d.at = "target"
    BY <1>6, <2>1, <2>3, SuccOf, UnclosedIsValid
  <2>4. CASE d.at = "bytes"
    <3>1. tree[d.mark].kind = "file" /\ d.rest > 0
      BY <2>4 DEF Valid
    <3>2. d.rest - 1 \in Nat
      BY <1>1, <3>1
    <3> QED
      BY <1>6, <2>1, <2>4, <3>1, <3>2, SuccOf, DataIsValid
  <2> QED
    BY <1>6, <2>2, <2>3, <2>4
<1>7. CASE d.want = <<>> /\ d.at \in {"body", "name"}
  <2>1. /\ d.mark # <<>> /\ Front(d.mark) \in DOMAIN tree /\ tree[Front(d.mark)].kind = "dir"
        /\ Front(d.mark) \in Seq(Nat) /\ Len(Front(d.mark)) = Len(d.mark) - 1
    BY <1>1, <1>7, FrontOfSeq DEF Valid
  <2>2. CASE Succ(d) = Spot("name", <<T("("), T("name")>>, d.mark) /\ NamesLeft(d.mark) # {}
    <3>0. <<T("("), T("name")>> \in Seq(Wanted)
      BY WantedAreItems
    <3>1. Valid(Spot("name", <<T("("), T("name")>>, d.mark))
      BY <1>1, <2>1, <2>2, <3>0, ValidSpot DEF OfNode
    <3> QED
      BY <2>2, <3>1
  <2>3. CASE Succ(d) = TheEnd
    <3>1. <<>> \in Seq(Nat) /\ <<>> \in Seq(Wanted)
      OBVIOUS
    <3>2. Valid(Spot("end", <<>>, <<>>))
      BY <3>1, ValidSpot DEF OfNode
    <3> QED
      BY <2>3, <3>2 DEF TheEnd
  <2>4. CASE Len(d.mark) # 1 /\ Succ(d) = Spot("body", <<T(")")>>, Front(d.mark))
    <3>1. <<T(")")>> \in Seq(Wanted)
      BY WantedAreItems
    <3>2. Front(d.mark) # <<>>
      BY <1>1, <2>1, <2>4
    <3>3. Front(Front(d.mark)) \in DOMAIN tree /\ tree[Front(Front(d.mark))].kind = "dir"
      BY <2>1, <3>2, NodeIsInDir
    <3>4. Valid(Spot("body", <<T(")")>>, Front(d.mark)))
      BY <2>1, <3>1, <3>2, <3>3, ValidSpot DEF OfNode
    <3> QED
      BY <2>4, <3>4
  <2>5. CASE d.at = "name"
    <3> DEFINE m == Append(Front(d.mark), FirstOf(NamesLeft(d.mark)))
               w == <<T("node"), T("("), T("type")>>
    <3>1. Succ(d) = Spot("type", w, m)
      BY <1>7, <2>5, SuccOf
    <3>2. NamesLeft(d.mark) # {}
      BY <2>5 DEF Valid
    <3>3. m \in DOMAIN tree
      BY <1>1, <2>1, <3>2, NextNameOfDir
    <3>4. w \in Seq(Wanted) /\ m \in Seq(Nat)
      BY <3>3, WantedAreItems, TreeNodes
    <3> HIDE DEF m, w
    <3>5. Valid(Spot("type", w, m))
      BY <3>3, <3>4, ValidSpot DEF OfNode
    <3> QED
      BY <3>1, <3>5
  <2> QED
    BY <1>7, <2>2, <2>3, <2>4, <2>5, SuccOf
<1> QED
  BY <1>1, <1>2, <1>4, <1>5, <1>6, <1>7, SuccOf

\* A node that is no directory has nothing below it.
LEMMA LeafIsAlone ==
  ASSUME WellFormed(tree), NEW m \in DOMAIN tree, tree[m].kind # "dir", NEW p \in DOMAIN tree
  PROVE  IsPrefix(m, p) <=> p = m
<1>1. m \in Seq(Nat) /\ p \in Seq(Nat)
  BY TreeNodes
<1>2. p = m => IsPrefix(m, p)
  BY <1>1, PrefixIs
<1>3. ASSUME IsPrefix(m, p), p # m PROVE FALSE
  <2>1. Len(m) \in Nat /\ Len(p) \in Nat /\ Len(p) > Len(m) /\ \A i \in 1..Len(m) : m[i] = p[i]
    BY <1>1, <1>3, BeforeEntry, PrefixIs
  <2>2. SubSeq(p, 1, Len(m)) = m
    <3>1. \A i \in 1..Len(m) : p[i] \in Nat
      BY <1>1, <2>1, ElementOfSeq
    <3>2. /\ SubSeq(p, 1, Len(m)) \in Seq(Nat) /\ Len(SubSeq(p, 1, Len(m))) = Len(m)
          /\ \A i \in 1..Len(m) : SubSeq(p, 1, Len(m))[i] = m[i]
      BY <2>1, <3>1, SubSeqProperties
    <3> QED
      BY <1>1, <3>2, SeqEqual
  <2>3. Len(m) \in 0..(Len(p) - 1)
    BY <2>1
  <2> QED
    BY <2>2, <2>3 DEF WellFormed
<1> QED
  BY <1>2, <1>3

\* What is visited when a directory is opened, left, and when its next name is read.
LEMMA OpenedVisits ==
  ASSUME WellFormed(tree), NEW m \in DOMAIN tree, NEW p \in DOMAIN tree
  PROVE  Before(p, Append(m, 0)) \/ IsPrefix(Append(m, 0), p) <=> Before(p, m) \/ p = m
<1>1. m \in Seq(Nat) /\ p \in Seq(Nat)
  BY TreeNodes
<1>2. CASE IsPrefix(m, p) /\ p # m
  <2>1. p[Len(m) + 1] \in Nat \ {0}
    BY <1>1, <1>2, BelowIsNamed, NamesLead
  <2> QED
    BY <1>1, <1>2, <2>1, BeforeEntry
<1>3. CASE p = m
  BY <1>1, <1>3, BeforeEntry
<1>4. CASE ~IsPrefix(m, p)
  <2>1. p # m
    BY <1>1, <1>4, PrefixIs
  <2> QED
    BY <1>1, <1>4, <2>1, BeforeEntry
<1> QED
  BY <1>2, <1>3, <1>4

LEMMA ClosedVisits ==
  ASSUME WellFormed(tree), NEW m \in Seq(Nat), m # <<>>, NamesLeft(m) = {}, NEW p \in DOMAIN tree
  PROVE  Before(p, m) \/ IsPrefix(m, p) <=> Before(p, Front(m)) \/ IsPrefix(Front(m), p)
<1> DEFINE f == Front(m)
           a == Last(m)
<1>1. f \in Seq(Nat) /\ a \in Nat /\ m = Append(f, a) /\ p \in Seq(Nat)
  BY FrontOfSeq, FrontAndLast, TreeNodes
<1>2. \A n \in Names(f) : n \in Nat /\ n <= a
  <2>1. \A n \in Names(f) : n \in Nat
    BY NamesLead
  <2> QED
    BY <1>1, <2>1 DEF NamesLeft
<1> HIDE DEF f, a
<1>9. /\ IsPrefix(f, p) /\ p # f =>
           (Before(p, m) <=> p[Len(f) + 1] < a) /\ (IsPrefix(m, p) <=> p[Len(f) + 1] = a)
      /\ p = f => Before(p, m) /\ ~IsPrefix(m, p) /\ IsPrefix(f, p)
      /\ ~IsPrefix(f, p) => (Before(p, m) <=> Before(p, f)) /\ ~IsPrefix(m, p)
  BY <1>1, BeforeEntry
<1>3. CASE IsPrefix(f, p) /\ p # f
  <2>1. p[Len(f) + 1] \in Nat /\ p[Len(f) + 1] <= a
    BY <1>1, <1>2, <1>3, BelowIsNamed
  <2> QED
    BY <1>1, <1>3, <1>9, <2>1 DEF f
<1>4. CASE p = f
  BY <1>1, <1>4, <1>9 DEF f
<1>5. CASE ~IsPrefix(f, p)
  BY <1>1, <1>5, <1>9 DEF f
<1> QED
  BY <1>3, <1>4, <1>5

LEMMA NamedVisits ==
  ASSUME WellFormed(tree), NEW m \in Seq(Nat), m # <<>>, NamesLeft(m) # {}, NEW p \in DOMAIN tree
  PROVE  Before(p, Append(Front(m), FirstOf(NamesLeft(m)))) <=> Before(p, m) \/ IsPrefix(m, p)
<1> DEFINE f == Front(m)
           a == Last(m)
           n == FirstOf(NamesLeft(m))
<1>1. f \in Seq(Nat) /\ a \in Nat /\ m = Append(f, a) /\ p \in Seq(Nat)
  BY FrontOfSeq, FrontAndLast, TreeNodes
<1>2. n \in Nat /\ n > a /\ \A k \in Names(f) : k \in Nat /\ (k > a => n <= k)
  <2>1. n \in Nat /\ n > a /\ \A k \in NamesLeft(m) : n <= k
    BY NextNameOfDir
  <2>2. \A k \in Names(f) : k \in Nat /\ (k > a => k \in NamesLeft(m))
    BY NamesLead DEF NamesLeft
  <2> QED
    BY <2>1, <2>2
<1> HIDE DEF f, a, n
<1>9. /\ IsPrefix(f, p) /\ p # f =>
           (Before(p, m) <=> p[Len(f) + 1] < a) /\ (IsPrefix(m, p) <=> p[Len(f) + 1] = a)
      /\ p = f => Before(p, m) /\ ~IsPrefix(m, p) /\ IsPrefix(f, p)
      /\ ~IsPrefix(f, p) => (Before(p, m) <=> Before(p, f)) /\ ~IsPrefix(m, p)
  BY <1>1, BeforeEntry
<1>10. /\ IsPrefix(f, p) /\ p # f => (Before(p, Append(f, n)) <=> p[Len(f) + 1] < n)
       /\ p = f => Before(p, Append(f, n))
       /\ ~IsPrefix(f, p) => (Before(p, Append(f, n)) <=> Before(p, f))
  BY <1>1, <1>2, BeforeEntry
<1>3. CASE IsPrefix(f, p) /\ p # f
  <2>1. p[Len(f) + 1] \in Nat /\ (p[Len(f) + 1] > a => n <= p[Len(f) + 1])
    BY <1>1, <1>2, <1>3, BelowIsNamed
  <2> QED
    BY <1>1, <1>2, <1>3, <1>9, <1>10, <2>1 DEF f, n
<1>4. CASE p = f
  BY <1>4, <1>9, <1>10 DEF f, n
<1>5. CASE ~IsPrefix(f, p)
  BY <1>5, <1>9, <1>10 DEF f, n
<1> QED
  BY <1>3, <1>4, <1>5

\* What is returned at a place is all that the next place adds.
LEMMA VisitedSucc ==
  ASSUME WellFormed(tree), NEW d, NEW x, Valid(d), Fits(d, x)
  PROVE  /\ IsReturned(d) => Visited(Succ(d)) = Visited(d) \cup {d.mark} /\ d.mark \in DOMAIN tree
         /\ ~IsReturned(d) => Visited(Succ(d)) = Visited(d)
<1>1. /\ d.at \in {"type", "attrs", "mode", "len", "target", "bytes", "body", "name", "end"}
      /\ d.mark \in Seq(Nat) /\ d.want \in Seq(Wanted) /\ d \in Places
  BY DEF Valid, Places
<1>2. CASE d.want # <<>>
  <2>1. Succ(d) = [d EXCEPT !.want = Tail(@)]
    BY <1>2, SuccOf
  <2>2. Succ(d).at = d.at /\ Succ(d).mark = d.mark
    BY <1>1, <2>1 DEF Places
  <2> QED
    BY <1>2, <2>2 DEF IsReturned, Visited
<1>3. ASSUME d.at \in OfNode PROVE d.mark \in DOMAIN tree
  BY <1>3 DEF Valid
<1>4. CASE d.want = <<>> /\ d.at = "type" /\ tree[d.mark].kind = "dir"
  <2>1. Succ(d) = Spot("body", <<>>, Append(d.mark, 0))
    BY <1>4, SuccOf
  <2>2. Succ(d).at = "body" /\ Succ(d).mark = Append(d.mark, 0)
    BY <2>1 DEF Spot
  <2>3. Visited(Succ(d)) = {p \in DOMAIN tree : Before(p, Append(d.mark, 0)) \/ IsPrefix(Append(d.mark, 0), p)}
    BY <2>2 DEF Visited, OfNode
  <2>4. Visited(d) = {p \in DOMAIN tree : Before(p, d.mark)}
    BY <1>4 DEF Visited, OfNode
  <2>5. d.mark \in DOMAIN tree /\ IsReturned(d)
    BY <1>3, <1>4 DEF OfNode, IsReturned
  <2>6. \A p \in DOMAIN tree :
          Before(p, Append(d.mark, 0)) \/ IsPrefix(Append(d.mark, 0), p) <=> Before(p, d.mark) \/ p = d.mark
    BY <2>5, OpenedVisits
  <2> QED
    BY <2>3, <2>4, <2>5, <2>6
<1>5. CASE \/ d.want = <<>> /\ d.at = "type" /\ tree[d.mark].kind # "dir"
           \/ d.want = <<>> /\ d.at \in {"attrs", "mode"}
  <2>1. \E at \in {"attrs", "target", "mode", "len"} : \E w : Succ(d) = Spot(at, w, d.mark)
    <3>1. CASE d.at = "type"
      <4>1. Succ(d) = Spot("attrs", <<>>, d.mark) \/ Succ(d) = Spot("target", <<T("target")>>, d.mark)
        BY <1>5, <3>1, SuccOf
      <4> QED
        BY <4>1
    <3>2. CASE d.at \in {"attrs", "mode"}
      <4>1. Succ(d) = Spot("mode", <<T("")>>, d.mark) \/ Succ(d) = Spot("len", <<>>, d.mark)
        BY <1>5, <3>2, SuccOf
      <4> QED
        BY <4>1
    <3> QED
      BY <1>5, <3>1, <3>2
  <2>2. Succ(d).at \in {"attrs", "target", "mode", "len"} /\ Succ(d).mark = d.mark
    BY <2>1 DEF Spot
  <2> QED
    BY <1>5, <2>2 DEF Visited, IsReturned, OfNode
<1>6. CASE d.want = <<>> /\ d.at \in {"len", "target"}
  <2>1. d.mark \in DOMAIN tree /\ tree[d.mark] \in Nodes /\ tree[d.mark].kind # "dir"
    BY <1>3, <1>6, TreeNodes DEF OfNode, Valid
  <2>2. Succ(d).mark = d.mark /\ Succ(d).at \in {"body", "end", "bytes"}
    <3>1. CASE d.at = "len"
      <4> DEFINE n == tree[d.mark].size + Pad(tree[d.mark].size)
      <4>1. tree[d.mark].kind = "file" /\ tree[d.mark].size \in Nat
        BY <2>1, <3>1, KindsOfNodes DEF Valid
      <4>2. n \in Nat
        <5>1. Pad(tree[d.mark].size) \in 0..(Align - 1)
          BY <4>1, PadIsShort
        <5> QED
          BY <4>1, <5>1, NarAssumption
      <4>3. Succ(d) = Data(d.mark, n)
        BY <1>6, <3>1, SuccOf
      <4> HIDE DEF n
      <4> QED
        BY <2>1, <4>1, <4>2, <4>3, DataIsValid
    <3>2. CASE d.at = "target"
      BY <1>6, <2>1, <3>2, SuccOf, UnclosedIsValid
    <3> QED
      BY <1>6, <3>1, <3>2
  <2>3. Visited(Succ(d)) = {p \in DOMAIN tree : Before(p, d.mark) \/ IsPrefix(d.mark, p)}
    BY <2>2 DEF Visited, OfNode
  <2>4. Visited(d) = {p \in DOMAIN tree : Before(p, d.mark)} /\ IsReturned(d)
    BY <1>6 DEF Visited, OfNode, IsReturned
  <2>5. \A p \in DOMAIN tree : IsPrefix(d.mark, p) <=> p = d.mark
    BY <2>1, LeafIsAlone
  <2> QED
    BY <2>1, <2>3, <2>4, <2>5
<1>7. CASE d.want = <<>> /\ d.at = "bytes"
  <2>1. d.mark \in DOMAIN tree /\ tree[d.mark].kind = "file" /\ d.rest - 1 \in Nat
    BY <1>3, <1>7 DEF OfNode, Valid, Places
  <2>2. Succ(d) = Data(d.mark, d.rest - 1)
    BY <1>7, SuccOf
  <2>3. Succ(d).mark = d.mark /\ Succ(d).at \in {"body", "end", "bytes"}
    BY <2>1, <2>2, DataIsValid
  <2> QED
    BY <1>7, <2>3 DEF Visited, IsReturned, OfNode
<1>8. CASE d.want = <<>> /\ d.at = "body" /\ NamesLeft(d.mark) # {}
  <2>1. Succ(d) = Spot("name", <<T("("), T("name")>>, d.mark)
    BY <1>8, SuccOf
  <2>2. Succ(d).at = "name" /\ Succ(d).mark = d.mark
    BY <2>1 DEF Spot
  <2> QED
    BY <1>8, <2>2 DEF Visited, IsReturned, OfNode
<1>9. CASE d.want = <<>> /\ d.at = "body" /\ NamesLeft(d.mark) = {}
  <2>1. d.mark # <<>> /\ Len(d.mark) \in Nat \ {0}
    BY <1>1, <1>9 DEF Valid
  <2>2. Succ(d).at \in {"end", "body"} /\ Succ(d).mark = Front(d.mark)
    <3>1. CASE Len(d.mark) = 1
      <4>1. Front(d.mark) = <<>>
        BY <1>1, <2>1, <3>1, FrontOfSeq
      <4>2. Succ(d) = TheEnd
        BY <1>9, <3>1, SuccOf
      <4> QED
        BY <4>1, <4>2 DEF TheEnd, Spot
    <3>2. CASE Len(d.mark) # 1
      <4>1. Succ(d) = Spot("body", <<T(")")>>, Front(d.mark))
        BY <1>9, <3>2, SuccOf
      <4> QED
        BY <4>1 DEF Spot
    <3> QED
      BY <3>1, <3>2
  <2>3. Visited(Succ(d)) = {p \in DOMAIN tree : Before(p, Front(d.mark)) \/ IsPrefix(Front(d.mark), p)}
    BY <2>2 DEF Visited, OfNode
  <2>4. Visited(d) = {p \in DOMAIN tree : Before(p, d.mark) \/ IsPrefix(d.mark, p)} /\ ~IsReturned(d)
    BY <1>9 DEF Visited, OfNode, IsReturned
  <2>5. \A p \in DOMAIN tree : Before(p, d.mark) \/ IsPrefix(d.mark, p)
                                 <=> Before(p, Front(d.mark)) \/ IsPrefix(Front(d.mark), p)
    BY <1>1, <1>9, <2>1, ClosedVisits
  <2> QED
    BY <2>3, <2>4, <2>5
<1>10. CASE d.want = <<>> /\ d.at = "name"
  <2>1. d.mark # <<>> /\ NamesLeft(d.mark) # {}
    BY <1>10 DEF Valid
  <2> DEFINE m == Append(Front(d.mark), FirstOf(NamesLeft(d.mark)))
  <2>2. Succ(d).at = "type" /\ Succ(d).mark = m
    <3>1. Succ(d) = Spot("type", <<T("node"), T("("), T("type")>>, m)
      BY <1>10, SuccOf
    <3> HIDE DEF m
    <3> QED
      BY <3>1 DEF Spot
  <2>3. \A p \in DOMAIN tree : Before(p, m) <=> Before(p, d.mark) \/ IsPrefix(d.mark, p)
    BY <1>1, <2>1, NamedVisits
  <2> HIDE DEF m
  <2>4. Visited(Succ(d)) = {p \in DOMAIN tree : Before(p, m)}
    BY <2>2 DEF Visited, OfNode
  <2>5. Visited(d) = {p \in DOMAIN tree : Before(p, d.mark) \/ IsPrefix(d.mark, p)} /\ ~IsReturned(d)
    BY <1>10 DEF Visited, OfNode, IsReturned
  <2> QED
    BY <2>3, <2>4, <2>5
<1>11. d.want = <<>> => d.at # "end"
  BY SuccOf
<1> QED
  BY <1>1, <1>2, <1>4, <1>5, <1>6, <1>7, <1>8, <1>9, <1>10, <1>11

\* Before the first node nothing is visited, and at the end the whole tree.
LEMMA VisitedAtTheEnds ==
  ASSUME WellFormed(tree)
  PROVE  Visited(Outset) = {} /\ Visited(TheEnd) = DOMAIN tree
<1>1. \A p \in DOMAIN tree : p \in Seq(Nat)
  BY TreeNodes
<1>2. <<>> \in Seq(Nat) /\ Len(<<>>) = 0
  OBVIOUS
<1>3. \A p \in DOMAIN tree : ~Before(p, <<>>) /\ IsPrefix(<<>>, p)
  <2> SUFFICES ASSUME NEW p \in DOMAIN tree PROVE ~Before(p, <<>>) /\ IsPrefix(<<>>, p)
    OBVIOUS
  <2>1. p \in Seq(Nat) /\ Len(p) \in Nat
    BY <1>1
  <2> DEFINE e == <<>>
  <2>2. e \in Seq(Nat) /\ Len(e) = 0
    BY <1>2
  <2> HIDE DEF e
  <2>3. IsPrefix(e, p) <=> Len(e) <= Len(p) /\ \A i \in 1..Len(e) : e[i] = p[i]
    BY <2>1, <2>2, PrefixIs
  <2>4. IsPrefix(p, e) => Len(p) <= Len(e)
    BY <2>1, <2>2, PrefixIs
  <2>5. Len(p) = 0 => p = e
    BY <2>1, <2>2, SeqEqual
  <2>6. ~\E i \in 1..Len(p) : i <= Len(e)
    BY <2>1, <2>2
  <2>7. IsPrefix(e, p)
    BY <2>1, <2>2, <2>3
  <2>8. ~(IsPrefix(p, e) /\ p # e)
    BY <2>1, <2>2, <2>4, <2>5
  <2>9. ~Before(p, e)
    BY <2>1, <2>2, <2>6, <2>8, BeforeIs
  <2> QED
    BY <2>7, <2>9 DEF e
<1>4. Visited(Outset) = {p \in DOMAIN tree : Before(p, <<>>)}
  BY SpotFields DEF Visited, Outset, OfNode
<1>5. Visited(TheEnd) = {p \in DOMAIN tree : Before(p, <<>>) \/ IsPrefix(<<>>, p)}
  BY SpotFields DEF Visited, TheEnd, OfNode
<1> QED
  BY <1>3, <1>4, <1>5

-----------------------------------------------------------------------------
(* Where the decoder is.                                                   *)

MarkOf(fs) == [i \in 1..Len(fs) |-> fs[i].last]
NamesMatch(fs) == \A i \in 1..Len(fs) : fs[i].name = (IF i = 1 THEN 0 ELSE fs[i - 1].last)

Mark == MarkOf(frames)
Stage == IF dec = "attrs" /\ exec THEN "mode" ELSE dec

Reader ==
    IF dec = "data" THEN Data(Mark, left + Pad(total))
    ELSE IF dec = "skip" THEN Data(Mark, left)
    ELSE Spot(Stage, want, Mark)

\* What the frames and the branch that next_entry is in say beside that.
InNode == dec \in {"type", "attrs", "len", "target", "data", "skip"}
Decoding ==
    /\ NamesMatch(frames)
    /\ pending = (IF InNode /\ frames # <<>> THEN Last(frames).last ELSE 0)
    /\ dec = "len" => exec = tree[Mark].exec

LEMMA MarkIsSeq ==
  ASSUME NEW fs \in Seq(Frames)
  PROVE  /\ MarkOf(fs) \in Seq(Nat) /\ Len(MarkOf(fs)) = Len(fs)
         /\ \A i \in 1..Len(fs) : MarkOf(fs)[i] = fs[i].last
         /\ MarkOf(fs) = <<>> <=> fs = <<>>
         /\ fs # <<>> => Last(MarkOf(fs)) = Last(fs).last
<1>1. Len(fs) \in Nat /\ \A i \in 1..Len(fs) : fs[i] \in Frames
  BY LenProperties, ElementOfSeq
<1>2. \A i \in 1..Len(fs) : fs[i].last \in Nat
  BY <1>1 DEF Frames
<1>3. MarkOf(fs) \in Seq(Nat) /\ Len(MarkOf(fs)) = Len(fs) /\ \A i \in 1..Len(fs) : MarkOf(fs)[i] = fs[i].last
  BY <1>1, <1>2, IsASeq DEF MarkOf
<1>4. MarkOf(fs) = <<>> <=> fs = <<>>
  BY <1>1, <1>3, EmptySeq
<1>5. fs # <<>> => Last(MarkOf(fs)) = Last(fs).last
  <2> SUFFICES ASSUME fs # <<>> PROVE Last(MarkOf(fs)) = Last(fs).last
    OBVIOUS
  <2>1. Len(fs) \in 1..Len(fs)
    BY <1>1, EmptySeq
  <2> QED
    BY <1>3, <2>1 DEF Last
<1> QED
  BY <1>3, <1>4, <1>5

LEMMA MarkPushed ==
  ASSUME NEW fs \in Seq(Frames), NEW f \in Frames
  PROVE  MarkOf(Append(fs, f)) = Append(MarkOf(fs), f.last)
<1> DEFINE gs == Append(fs, f)
           a == MarkOf(gs)
           b == Append(MarkOf(fs), f.last)
<1>1. gs \in Seq(Frames) /\ Len(gs) = Len(fs) + 1 /\ gs[Len(fs) + 1] = f
      /\ Len(fs) \in Nat /\ \A i \in 1..Len(fs) : gs[i] = fs[i]
  BY AppendProperties, LenProperties
<1>2. f.last \in Nat
  BY DEF Frames
<1>3. b \in Seq(Nat) /\ Len(b) = Len(fs) + 1 /\ b[Len(fs) + 1] = f.last
      /\ \A i \in 1..Len(fs) : b[i] = fs[i].last
  BY <1>2, MarkIsSeq, AppendProperties
<1> HIDE DEF gs, b
<1>4. a \in Seq(Nat) /\ Len(a) = Len(fs) + 1 /\ \A i \in 1..(Len(fs) + 1) : a[i] = gs[i].last
  BY <1>1, MarkIsSeq
<1>5. \A i \in 1..(Len(fs) + 1) : a[i] = b[i]
  <2> SUFFICES ASSUME NEW i \in 1..(Len(fs) + 1) PROVE a[i] = b[i]
    OBVIOUS
  <2>1. CASE i \in 1..Len(fs)
    BY <1>1, <1>3, <1>4, <2>1
  <2>2. CASE i = Len(fs) + 1
    BY <1>1, <1>3, <1>4, <2>2
  <2> QED
    BY <1>1, <2>1, <2>2
<1> HIDE DEF a
<1>6. a = b
  BY <1>3, <1>4, <1>5, SeqEqual
<1> QED
  BY <1>6 DEF a, b, gs

LEMMA FrontOfMark ==
  ASSUME NEW fs \in Seq(Frames), fs # <<>>
  PROVE  /\ Front(MarkOf(fs)) \in Seq(Nat) /\ Len(Front(MarkOf(fs))) = Len(fs) - 1
         /\ \A i \in 1..(Len(fs) - 1) : Front(MarkOf(fs))[i] = fs[i].last
<1> DEFINE m == MarkOf(fs)
<1>1. m \in Seq(Nat) /\ Len(m) = Len(fs) /\ m # <<>> /\ \A i \in 1..Len(fs) : m[i] = fs[i].last
  BY MarkIsSeq
<1>2. Len(fs) \in Nat
  OBVIOUS
<1> HIDE DEF m
<1>3. Front(m) \in Seq(Nat) /\ Len(Front(m)) = Len(m) - 1 /\ \A i \in 1..(Len(m) - 1) : Front(m)[i] = m[i]
  BY <1>1, FrontOfSeq
<1>4. \A i \in 1..(Len(fs) - 1) : Front(m)[i] = fs[i].last
  BY <1>1, <1>2, <1>3
<1> QED
  BY <1>1, <1>3, <1>4 DEF m

LEMMA MarkPopped ==
  ASSUME NEW fs \in Seq(Frames), fs # <<>>
  PROVE  MarkOf(Front(fs)) = Front(MarkOf(fs)) /\ (NamesMatch(fs) => NamesMatch(Front(fs)))
<1> DEFINE gs == Front(fs)
           a == MarkOf(gs)
           b == Front(MarkOf(fs))
<1>1. gs \in Seq(Frames) /\ Len(gs) = Len(fs) - 1 /\ Len(fs) \in Nat \ {0}
      /\ \A i \in 1..(Len(fs) - 1) : gs[i] = fs[i]
  BY FrontOfSeq
<1>2. b \in Seq(Nat) /\ Len(b) = Len(fs) - 1 /\ \A i \in 1..(Len(fs) - 1) : b[i] = fs[i].last
  BY <1>1, FrontOfMark
<1> HIDE DEF gs, b
<1>3. a \in Seq(Nat) /\ Len(a) = Len(fs) - 1 /\ \A i \in 1..(Len(fs) - 1) : a[i] = gs[i].last
  BY <1>1, MarkIsSeq
<1> HIDE DEF a
<1>4. a = b
  <2>1. Len(a) = Len(b) /\ \A i \in 1..Len(a) : a[i] = b[i]
    BY <1>1, <1>2, <1>3
  <2> QED
    BY <1>2, <1>3, <2>1, SeqEqual
<1>5. NamesMatch(fs) => NamesMatch(gs)
  <2> SUFFICES ASSUME NamesMatch(fs), NEW i \in 1..Len(gs)
               PROVE  gs[i].name = (IF i = 1 THEN 0 ELSE gs[i - 1].last)
    BY DEF NamesMatch
  <2>1. i \in 1..Len(fs) /\ gs[i] = fs[i] /\ (i # 1 => gs[i - 1] = fs[i - 1])
    BY <1>1
  <2> QED
    BY <2>1 DEF NamesMatch
<1> QED
  BY <1>4, <1>5 DEF a, b, gs

LEMMA MarkRenamed ==
  ASSUME NEW fs \in Seq(Frames), fs # <<>>, NEW n \in Nat
  PROVE  LET gs == [fs EXCEPT ![Len(fs)].last = n] IN
         /\ MarkOf(gs) = Append(Front(MarkOf(fs)), n)
         /\ NamesMatch(fs) => NamesMatch(gs)
         /\ gs # <<>> /\ Last(gs).last = n
<1> DEFINE gs == [fs EXCEPT ![Len(fs)].last = n]
           a == MarkOf(gs)
           b == Append(Front(MarkOf(fs)), n)
<1>1. /\ gs \in Seq(Frames) /\ Len(gs) = Len(fs) /\ gs # <<>>
      /\ \A i \in 1..(Len(fs) - 1) : gs[i] = fs[i]
      /\ gs[Len(fs)].last = n /\ gs[Len(fs)].name = fs[Len(fs)].name
      /\ Len(fs) \in Nat \ {0}
  BY LastReplaced, FrontOfSeq
<1>2. /\ Front(MarkOf(fs)) \in Seq(Nat) /\ Len(Front(MarkOf(fs))) = Len(fs) - 1
      /\ \A i \in 1..(Len(fs) - 1) : Front(MarkOf(fs))[i] = fs[i].last
  BY <1>1, FrontOfMark
<1>3. b \in Seq(Nat) /\ Len(b) = Len(fs) /\ b[Len(fs)] = n
      /\ \A i \in 1..(Len(fs) - 1) : b[i] = fs[i].last
  <2> DEFINE m == Front(MarkOf(fs))
  <2>1. m \in Seq(Nat) /\ Len(m) = Len(fs) - 1 /\ \A i \in 1..(Len(fs) - 1) : m[i] = fs[i].last
    BY <1>2
  <2> HIDE DEF m
  <2>2. /\ Append(m, n) \in Seq(Nat) /\ Len(Append(m, n)) = Len(fs) /\ Append(m, n)[Len(fs)] = n
        /\ \A i \in 1..(Len(fs) - 1) : Append(m, n)[i] = fs[i].last
    <3>1. /\ Append(m, n) \in Seq(Nat) /\ Len(Append(m, n)) = Len(m) + 1 /\ Append(m, n)[Len(m) + 1] = n
          /\ \A i \in 1..Len(m) : Append(m, n)[i] = m[i]
      BY <2>1, AppendProperties
    <3>2. Len(m) + 1 = Len(fs)
      BY <1>1, <2>1
    <3> QED
      BY <2>1, <3>1, <3>2
  <2> QED
    BY <2>2 DEF m
<1> HIDE DEF gs, b
<1>4. a \in Seq(Nat) /\ Len(a) = Len(fs) /\ \A i \in 1..Len(fs) : a[i] = gs[i].last
  BY <1>1, MarkIsSeq
<1>5. \A i \in 1..Len(fs) : a[i] = b[i]
  <2> SUFFICES ASSUME NEW i \in 1..Len(fs) PROVE a[i] = b[i]
    OBVIOUS
  <2>1. CASE i \in 1..(Len(fs) - 1)
    BY <1>1, <1>3, <1>4, <2>1
  <2>2. CASE i = Len(fs)
    BY <1>1, <1>3, <1>4, <2>2
  <2> QED
    BY <1>1, <2>1, <2>2
<1> HIDE DEF a
<1>6. a = b
  BY <1>3, <1>4, <1>5, SeqEqual
<1>7. NamesMatch(fs) => NamesMatch(gs)
  <2> SUFFICES ASSUME NamesMatch(fs), NEW i \in 1..Len(gs)
               PROVE  gs[i].name = (IF i = 1 THEN 0 ELSE gs[i - 1].last)
    BY DEF NamesMatch
  <2>1. i \in 1..Len(fs) /\ gs[i].name = fs[i].name
    <3>1. i \in 1..(Len(fs) - 1) \/ i = Len(fs)
      BY <1>1
    <3> QED
      BY <1>1, <3>1
  <2>2. i # 1 => gs[i - 1] = fs[i - 1]
    BY <1>1, <2>1
  <2> QED
    BY <2>1, <2>2 DEF NamesMatch
<1>8. Last(gs).last = n
  BY <1>1 DEF Last
<1> QED
  BY <1>1, <1>6, <1>7, <1>8 DEF a, b, gs

\* current_path is where the decoder is, when it returns a node.
LEMMA CurrentPathIs ==
  ASSUME Typed, Decoding, dec \in {"type", "len", "target"}, Mark \in DOMAIN tree
  PROVE  CurrentPath = Mark
<1>1. frames \in Seq(Frames) /\ WellFormed(tree) /\ InNode
  BY DEF Typed, DecoderTyped, EncoderTyped, InNode
<1>2. Mark \in Seq(Nat) /\ Mark \in Seq(Nat \ {0})
  BY <1>1, TreeNodes
<1>3. /\ Len(Mark) = Len(frames) /\ Len(frames) \in Nat
      /\ \A i \in 1..Len(frames) : Mark[i] = frames[i].last
      /\ Mark = <<>> <=> frames = <<>>
  BY <1>1, MarkIsSeq, LenProperties DEF Mark
<1>4. CASE frames = <<>>
  <2>1. pending = 0 /\ Len(frames) = 0
    BY <1>4 DEF Decoding
  <2>2. [i \in 1..(Len(frames) - 1) |-> frames[i + 1].name] = <<>>
    BY <2>1
  <2>3. CurrentPath = <<>> \o <<>>
    BY <2>1, <2>2 DEF CurrentPath
  <2> QED
    BY <1>3, <1>4, <2>3
<1>5. CASE frames # <<>>
  <2> DEFINE n == Len(frames)
             a == [i \in 1..(Len(frames) - 1) |-> frames[i + 1].name]
             b == <<pending>>
  <2>1. n \in Nat \ {0} /\ n \in 1..n
    BY <1>1, <1>3, <1>5, EmptySeq
  <2>2. pending = Mark[n] /\ pending \in Nat \ {0}
    <3>1. pending = Mark[n]
      BY <1>1, <1>3, <1>5, <2>1 DEF Decoding, Last
    <3>2. Mark[n] \in Nat \ {0}
      BY <1>2, <1>3, <2>1, ElementOfSeq
    <3> QED
      BY <3>1, <3>2
  <2>3. \A i \in 1..(n - 1) : frames[i + 1].name = Mark[i]
    <3> SUFFICES ASSUME NEW i \in 1..(n - 1) PROVE frames[i + 1].name = Mark[i]
      OBVIOUS
    <3>1. i + 1 \in 1..n /\ i + 1 # 1 /\ (i + 1) - 1 = i /\ i \in 1..n
      BY <2>1
    <3>2. frames[i + 1].name = frames[i].last
      BY <3>1 DEF Decoding, NamesMatch
    <3> QED
      BY <1>3, <3>1, <3>2
  <2>4. CurrentPath = a \o b
    BY <2>2 DEF CurrentPath
  <2>5. a \in Seq(Nat) /\ Len(a) = n - 1 /\ \A i \in 1..(n - 1) : a[i] = Mark[i]
    <3>1. \A i \in 1..(n - 1) : frames[i + 1].name \in Nat
      <4> SUFFICES ASSUME NEW i \in 1..(n - 1) PROVE frames[i + 1].name \in Nat
        OBVIOUS
      <4>1. i \in 1..Len(Mark)
        BY <1>3, <2>1
      <4>2. Mark[i] \in Nat
        BY <1>2, <4>1, ElementOfSeq
      <4> QED
        BY <2>3, <4>2
    <3>2. n - 1 \in Nat
      BY <2>1
    <3> QED
      BY <2>3, <3>1, <3>2, IsASeq
  <2>6. b \in Seq(Nat) /\ Len(b) = 1 /\ b[1] = Mark[n]
    BY <2>2
  <2> HIDE DEF a, b
  <2>7. /\ a \o b \in Seq(Nat) /\ Len(a \o b) = Len(a) + Len(b)
        /\ \A i \in 1..(Len(a) + Len(b)) : (a \o b)[i] = IF i <= Len(a) THEN a[i] ELSE b[i - Len(a)]
    BY <2>5, <2>6, ConcatProperties
  <2>8. Len(a) + Len(b) = n
    BY <2>1, <2>5, <2>6
  <2>9. \A i \in 1..n : (a \o b)[i] = Mark[i]
    <3> SUFFICES ASSUME NEW i \in 1..n PROVE (a \o b)[i] = Mark[i]
      OBVIOUS
    <3>1. CASE i <= n - 1
      BY <2>1, <2>5, <2>7, <2>8, <3>1
    <3>2. CASE i = n
      <4>1. (a \o b)[i] = b[i - Len(a)] /\ i - Len(a) = 1
        BY <2>1, <2>5, <2>7, <2>8, <3>2
      <4> QED
        BY <2>6, <3>2, <4>1
    <3>3. i <= n - 1 \/ i = n
      BY <2>1
    <3> QED
      BY <3>1, <3>2, <3>3
  <2>10. a \o b = Mark
    BY <1>2, <1>3, <2>7, <2>8, <2>9, SeqEqual
  <2> QED
    BY <2>4, <2>10
<1> QED
  BY <1>4, <1>5

\* The name that is not in the frames yet is the node's own.
LEMMA PendingIsLast ==
  ASSUME Typed, Decoding, dec \in {"type", "len", "target"}
  PROVE  /\ Mark # <<>> => Last(Mark) = pending
         /\ pending # 0 => Mark # <<>>
<1>1. frames \in Seq(Frames) /\ InNode
  BY DEF Typed, DecoderTyped, InNode
<1>2. /\ Mark = <<>> <=> frames = <<>>
      /\ frames # <<>> => Last(Mark) = Last(frames).last
  BY <1>1, MarkIsSeq DEF Mark
<1> QED
  BY <1>1, <1>2 DEF Decoding

-----------------------------------------------------------------------------
(* Where the encoder is.                                                   *)

\* A stack of the directories around a place, each with the names after the one in it.
Stacked(stack, m) ==
    /\ stack \in Seq(OpenDir) /\ m \in Seq(Nat) /\ Len(stack) = Len(m)
    /\ \A i \in 1..Len(m) :
         /\ stack[i].path = SubSeq(m, 1, i - 1)
         /\ stack[i].todo = {n \in Names(SubSeq(m, 1, i - 1)) : n > m[i]}

\* The place up to which it has written.
Writer(m) ==
    IF file.open THEN Data(m, file.left + Pad(file.size)) ELSE Spot("body", <<>>, m)

\* What is on the wire leads from the reader to the writer.
Sent(d, w) ==
    \/ enc = "start" /\ Leads(d, w, Outset)
    \/ enc = "running" /\ \E m : m # <<>> /\ Stacked(dirs, m) /\ Leads(d, w, Writer(m))
    \/ enc = "done" /\ Leads(d, w, TheEnd)

Junk == <<T("junk")>>
Broken ==
    /\ Reader # TheEnd
    /\ wire = <<>> \/ (wire = Junk /\ (want # <<>> \/ dec \in {"type", "attrs", "body", "name"}))

InStep ==
    /\ Valid(Reader) /\ Decoding /\ Returned = Visited(Reader)
    /\ enc \in {"start", "running", "done"} => Sent(Reader, wire)
    /\ enc \in {"cut", "failed"} => Broken

NarInv ==
    /\ Typed
    /\ outcome = "none" => InStep
    /\ EntriesOfTheTree
    /\ FinishedIsWhole
    /\ ErrorsHaveACause

LEMMA SameGrammar ==
  ASSUME tree' = tree
  PROVE  /\ \A d, w, e : Leads(d, w, e)' <=> Leads(d, w, e)
         /\ \A d : Valid(d)' <=> Valid(d)
         /\ \A d : Visited(d)' = Visited(d)
         /\ \A s, m : Stacked(s, m)' <=> Stacked(s, m)
<1>1. \A m : Names(m)' = Names(m) /\ NamesLeft(m)' = NamesLeft(m)
  BY DEF NamesLeft, Names
<1>2. \A d, x : Fits(d, x)' <=> Fits(d, x)
  BY <1>1 DEF Fits
<1>3. \A d : Succ(d)' = Succ(d)
  BY <1>1 DEF Succ, Spot, TheEnd, Data, Unclosed, Pad
<1>4. \A d, x, e : Takes(d, x, e)' <=> Takes(d, x, e)
  BY <1>2, <1>3 DEF Takes
<1>5. \A d, w, e : Leads(d, w, e)' <=> Leads(d, w, e)
  BY <1>4 DEF Leads, Passes
<1>6. \A d : Valid(d)' <=> Valid(d)
  BY <1>1 DEF Valid, Places, OfNode
<1>7. \A d : Visited(d)' = Visited(d)
  BY DEF Visited
<1>8. \A s, m : Stacked(s, m)' <=> Stacked(s, m)
  BY <1>1 DEF Stacked, OpenDir
<1> QED
  BY <1>5, <1>6, <1>7, <1>8

\* A token that is expected.
LEMMA TakesOne ==
  ASSUME NEW at, NEW a, NEW m PROVE Takes(Spot(at, <<a>>, m), a, Spot(at, <<>>, m))
BY DEF Takes, Fits, Succ, Spot
LEMMA TakesTwo ==
  ASSUME NEW at, NEW a, NEW b, NEW m PROVE Takes(Spot(at, <<a, b>>, m), a, Spot(at, <<b>>, m))
BY DEF Takes, Fits, Succ, Spot
LEMMA TakesThree ==
  ASSUME NEW at, NEW a, NEW b, NEW c, NEW m
  PROVE  Takes(Spot(at, <<a, b, c>>, m), a, Spot(at, <<b, c>>, m))
BY DEF Takes, Fits, Succ, Spot

\* The two tokens that close a node and its entry.
LEMMA ClosingLeads ==
  ASSUME NEW m, m # <<>>
  PROVE  Leads(Data(m, 0), Tokens(<<")", ")">>), Spot("body", <<>>, m))
<1>1. Data(m, 0) = Spot("body", <<T(")"), T(")")>>, m)
  BY DEF Data, Unclosed
<1> DEFINE w == Tokens(<<")", ")">>)
<1>2. w = <<T(")"), T(")")>>
  BY Tokens2
<1>3. Len(w) = 2 /\ w[1] = T(")") /\ w[2] = T(")")
  BY <1>2
<1> HIDE DEF w
<1>4. Leads(Data(m, 0), w, Spot("body", <<>>, m))
  BY <1>1, <1>3, TakesOne, TakesTwo, LeadsTwo
<1> QED
  BY <1>4 DEF w

\* The place after a node's header.
Headed(m) ==
    CASE tree[m].kind = "dir" -> Spot("body", <<>>, Append(m, 0))
      [] tree[m].kind = "file" -> Data(m, tree[m].size + Pad(tree[m].size))
      [] tree[m].kind = "link" -> IF m = <<>> THEN TheEnd ELSE Spot("body", <<>>, m)

LEMMA TakesType ==
  ASSUME NEW m
  PROVE  /\ tree[m].kind = "dir" =>
              Takes(Spot("type", <<>>, m), T("directory"), Spot("body", <<>>, Append(m, 0)))
         /\ tree[m].kind = "file" => Takes(Spot("type", <<>>, m), T("regular"), Spot("attrs", <<>>, m))
         /\ tree[m].kind = "link" =>
              Takes(Spot("type", <<>>, m), T("symlink"), Spot("target", <<T("target")>>, m))
BY DEF Takes, Fits, Succ, Spot

LEMMA TakesHead ==
  ASSUME NEW m
  PROVE  /\ tree[m].exec => Takes(Spot("attrs", <<>>, m), T("executable"), Spot("mode", <<T("")>>, m))
         /\ ~tree[m].exec => Takes(Spot("attrs", <<>>, m), T("contents"), Spot("len", <<>>, m))
         /\ Takes(Spot("mode", <<>>, m), T("contents"), Spot("len", <<>>, m))
         /\ Takes(Spot("len", <<>>, m), <<"len", tree[m].size>>,
                  Data(m, tree[m].size + Pad(tree[m].size)))
         /\ Takes(Spot("target", <<>>, m), T(tree[m].target), Unclosed(m))
BY DEF Takes, Fits, Succ, Spot

LEMMA DirHeaderLeads ==
  ASSUME NEW m, tree[m].kind = "dir"
  PROVE  Leads(Spot("type", <<T("("), T("type")>>, m), Tokens(<<"(", "type", "directory">>),
               Spot("body", <<>>, Append(m, 0)))
<1> DEFINE w == Tokens(<<"(", "type", "directory">>)
<1>1. w = <<T("("), T("type"), T("directory")>>
  BY Tokens3
<1>2. Len(w) = 3 /\ w[1] = T("(") /\ w[2] = T("type") /\ w[3] = T("directory")
  BY <1>1
<1> HIDE DEF w
<1>3. Takes(Spot("type", <<>>, m), w[3], Spot("body", <<>>, Append(m, 0)))
  BY <1>2, TakesType
<1>4. Leads(Spot("type", <<T("("), T("type")>>, m), w, Spot("body", <<>>, Append(m, 0)))
  BY <1>2, <1>3, TakesOne, TakesTwo, LeadsThree
<1> QED
  BY <1>4 DEF w

LEMMA FileHeaderLeads ==
  ASSUME NEW m, tree[m].kind = "file", tree[m].exec \in BOOLEAN, tree[m].size \in Nat
  PROVE  LET x == IF tree[m].exec THEN Tokens(<<"executable", "">>) ELSE <<>> IN
         Leads(Spot("type", <<T("("), T("type")>>, m),
               Tokens(<<"(", "type", "regular">>) \o x \o <<T("contents"), <<"len", tree[m].size>>>>,
               Data(m, tree[m].size + Pad(tree[m].size)))
<1> DEFINE u == Tokens(<<"(", "type", "regular">>)
           x == IF tree[m].exec THEN Tokens(<<"executable", "">>) ELSE <<>>
           v == <<T("contents"), <<"len", tree[m].size>>>>
           mid == IF tree[m].exec THEN Spot("mode", <<>>, m) ELSE Spot("attrs", <<>>, m)
           e == Data(m, tree[m].size + Pad(tree[m].size))
<1>1. u \in Seq(Items) /\ x \in Seq(Items) /\ v \in Seq(Items)
  <2>1. <<"(", "type", "regular">> \in Seq(Symbols) /\ <<"executable", "">> \in Seq(Symbols)
    BY DEF Symbols
  <2>2. u \in Seq(Items) /\ Tokens(<<"executable", "">>) \in Seq(Items)
    BY <2>1, TokensAreItems
  <2>3. T("contents") \in Items /\ <<"len", tree[m].size>> \in Items
    BY DEF T, Items, Symbols
  <2>4. v \in Seq(Items)
    BY <2>3
  <2>5. x \in Seq(Items)
    BY <2>2, EmptyItems
  <2> QED
    BY <2>2, <2>4, <2>5
<1>2. Leads(Spot("type", <<T("("), T("type")>>, m), u, Spot("attrs", <<>>, m))
  <2>1. Len(u) = 3 /\ u[1] = T("(") /\ u[2] = T("type") /\ u[3] = T("regular")
    BY Tokens3
  <2> HIDE DEF u
  <2>2. Takes(Spot("type", <<>>, m), u[3], Spot("attrs", <<>>, m))
    BY <2>1, TakesType
  <2> QED
    BY <2>1, <2>2, TakesOne, TakesTwo, LeadsThree
<1>3. Leads(Spot("attrs", <<>>, m), x, mid)
  <2>1. CASE tree[m].exec
    <3>1. x = <<T("executable"), T("")>>
      BY <2>1, Tokens2
    <3> HIDE DEF x
    <3>2. Len(x) = 2 /\ x[1] = T("executable") /\ x[2] = T("")
      BY <3>1
    <3>3. Takes(Spot("attrs", <<>>, m), x[1], Spot("mode", <<T("")>>, m))
      BY <2>1, <3>2, TakesHead
    <3>4. Leads(Spot("attrs", <<>>, m), x, Spot("mode", <<>>, m))
      BY <3>2, <3>3, TakesOne, LeadsTwo
    <3> QED
      BY <2>1, <3>4
  <2>2. CASE ~tree[m].exec
    BY <2>2, LeadsNowhere
  <2> QED
    BY <2>1, <2>2
<1>4. Leads(mid, v, e)
  <2>1. Len(v) = 2 /\ v[1] = T("contents") /\ v[2] = <<"len", tree[m].size>>
    OBVIOUS
  <2> HIDE DEF v, e
  <2>2. Takes(mid, v[1], Spot("len", <<>>, m))
    BY <2>1, TakesHead
  <2>3. Takes(Spot("len", <<>>, m), v[2], e)
    BY <2>1, TakesHead DEF e
  <2> HIDE DEF mid
  <2> QED
    BY <2>1, <2>2, <2>3, LeadsTwo
<1> HIDE DEF u, x, v, mid, e
<1>5. u \o x \in Seq(Items)
  BY <1>1, ConcatProperties
<1>6. Leads(Spot("type", <<T("("), T("type")>>, m), u \o x, mid)
  BY <1>1, <1>2, <1>3, LeadsConcat
<1>7. Leads(Spot("type", <<T("("), T("type")>>, m), (u \o x) \o v, e)
  BY <1>1, <1>4, <1>5, <1>6, LeadsConcat
<1> QED
  BY <1>7 DEF u, x, v, e

LEMMA LinkHeaderLeads ==
  ASSUME NEW m, tree[m].kind = "link", tree[m].target \in {"text", "bytes"}
  PROVE  Leads(Spot("type", <<T("("), T("type")>>, m),
               Tokens(<<"(", "type", "symlink", "target", tree[m].target, ")">>)
                 \o (IF m # <<>> THEN <<T(")")>> ELSE <<>>),
               IF m = <<>> THEN TheEnd ELSE Spot("body", <<>>, m))
<1> DEFINE u == Tokens(<<"(", "type", "symlink", "target", tree[m].target, ")">>)
           v == IF m # <<>> THEN <<T(")")>> ELSE <<>>
           mid == IF m = <<>> THEN TheEnd ELSE Spot("body", <<T(")")>>, m)
           e == IF m = <<>> THEN TheEnd ELSE Spot("body", <<>>, m)
<1>1. u \in Seq(Items) /\ v \in Seq(Items)
  <2>1. <<"(", "type", "symlink", "target", tree[m].target, ")">> \in Seq(Symbols)
    <3> DEFINE target == tree[m].target
    <3>1. {"(", "type", "symlink", "target", ")", target} \subseteq Symbols
      BY DEF Symbols
    <3> HIDE DEF target
    <3>2. <<"(", "type", "symlink", "target", target, ")">> \in Seq(Symbols)
      BY <3>1
    <3> QED
      BY <3>2 DEF target
  <2>2. u \in Seq(Items)
    BY <2>1, TokensAreItems
  <2> QED
    BY <2>2, CloseIsItems, EmptyItems
<1>2. Leads(Spot("type", <<T("("), T("type")>>, m), u, mid)
  <2>1. /\ Len(u) = 6 /\ u[1] = T("(") /\ u[2] = T("type") /\ u[3] = T("symlink")
        /\ u[4] = T("target") /\ u[5] = T(tree[m].target) /\ u[6] = T(")")
    BY DEF Tokens
  <2>2. Takes(Spot("type", <<>>, m), T("symlink"), Spot("target", <<T("target")>>, m))
    BY TakesType
  <2>3. Takes(Spot("target", <<>>, m), T(tree[m].target), Unclosed(m))
    BY TakesHead
  <2>4. Takes(Unclosed(m), T(")"), mid)
    <3>1. CASE m = <<>>
      BY <3>1, TakesOne DEF Unclosed, TheEnd
    <3>2. CASE m # <<>>
      BY <3>2, TakesTwo DEF Unclosed
    <3> QED
      BY <3>1, <3>2
  <2> HIDE DEF u, mid
  <2>5. /\ Takes(Spot("type", <<T("("), T("type")>>, m), u[1], Spot("type", <<T("type")>>, m))
        /\ Takes(Spot("type", <<T("type")>>, m), u[2], Spot("type", <<>>, m))
        /\ Takes(Spot("type", <<>>, m), u[3], Spot("target", <<T("target")>>, m))
        /\ Takes(Spot("target", <<T("target")>>, m), u[4], Spot("target", <<>>, m))
        /\ Takes(Spot("target", <<>>, m), u[5], Unclosed(m))
        /\ Takes(Unclosed(m), u[6], mid)
    BY <2>1, <2>2, <2>3, <2>4, TakesOne, TakesTwo
  <2> QED
    BY <2>1, <2>5, LeadsSix
<1>3. Leads(mid, v, e)
  <2>1. CASE m = <<>>
    BY <2>1, LeadsNowhere
  <2>2. CASE m # <<>>
    <3>1. v = <<T(")")>> /\ mid = Spot("body", <<T(")")>>, m) /\ e = Spot("body", <<>>, m)
      BY <2>2
    <3>2. Len(v) = 1 /\ v[1] = T(")")
      BY <3>1
    <3> HIDE DEF v, mid, e
    <3> QED
      BY <3>1, <3>2, TakesOne, LeadsOne
  <2> QED
    BY <2>1, <2>2
<1> HIDE DEF u, v, mid, e
<1>4. Leads(Spot("type", <<T("("), T("type")>>, m), u \o v, e)
  BY <1>1, <1>2, <1>3, LeadsConcat
<1> QED
  BY <1>4 DEF u, v, e

\* What descend() writes leads from a node's opening to what follows its header.
LEMMA HeaderLeads ==
  ASSUME WellFormed(tree), NEW m \in DOMAIN tree, tree[m].kind # "other"
  PROVE  Leads(Spot("type", <<T("("), T("type")>>, m), Header(tree[m], m # <<>>), Headed(m))
<1>1. tree[m] \in Nodes
  BY TreeNodes
<1>2. CASE tree[m].kind = "dir"
  BY <1>2, DirHeaderLeads DEF Header, Headed
<1>3. CASE tree[m].kind = "file"
  <2>1. tree[m].exec \in BOOLEAN /\ tree[m].size \in Nat
    BY <1>1, <1>3, KindsOfNodes
  <2> QED
    BY <1>3, <2>1, FileHeaderLeads DEF Header, Headed
<1>4. CASE tree[m].kind = "link"
  BY <1>1, <1>4, KindsOfNodes, LinkHeaderLeads DEF Header, Headed
<1> QED
  BY <1>1, <1>2, <1>3, <1>4, KindsOfNodes

\* descend() pushes a directory: the place is then before its first name.
LEMMA PushedStacked ==
  ASSUME WellFormed(tree), NEW stack, NEW m \in DOMAIN tree, Stacked(stack, m), tree[m].kind = "dir"
  PROVE  Stacked(Pushed(stack, m), Append(m, 0)) /\ Append(m, 0) # <<>>
<1> DEFINE frame == [path |-> m, todo |-> Names(m)]
           k == Append(m, 0)
           s == Append(stack, frame)
<1>1. m \in Seq(Nat) /\ Len(m) \in Nat /\ stack \in Seq(OpenDir) /\ Len(stack) = Len(m)
  BY DEF Stacked
<1>2. frame \in OpenDir /\ frame.path = m /\ frame.todo = {n \in Names(m) : n > 0}
  BY NamesLead DEF OpenDir
<1>3. /\ k \in Seq(Nat) /\ Len(k) = Len(m) + 1 /\ k[Len(m) + 1] = 0
      /\ \A i \in 1..Len(m) : k[i] = m[i]
  BY <1>1, AppendProperties
<1>4. Pushed(stack, m) = s
  BY DEF Pushed
<1> HIDE DEF frame
<1>5. /\ s \in Seq(OpenDir) /\ Len(s) = Len(m) + 1 /\ s[Len(m) + 1] = frame
      /\ \A i \in 1..Len(m) : s[i] = stack[i]
  <2>1. /\ s \in Seq(OpenDir) /\ Len(s) = Len(stack) + 1 /\ s[Len(stack) + 1] = frame
        /\ \A i \in 1..Len(stack) : s[i] = stack[i]
    BY <1>1, <1>2, AppendProperties
  <2> QED
    BY <1>1, <2>1
<1> HIDE DEF k, s
<1>6. \A i \in 1..(Len(m) + 1) : SubSeq(k, 1, i - 1) = SubSeq(m, 1, i - 1)
  <2> SUFFICES ASSUME NEW i \in 1..(Len(m) + 1) PROVE SubSeq(k, 1, i - 1) = SubSeq(m, 1, i - 1)
    OBVIOUS
  <2>1. SubSeq(k, 1, i - 1) = [j \in 1..(i - 1) |-> k[j]]
    BY <1>1, <1>3
  <2>2. SubSeq(m, 1, i - 1) = [j \in 1..(i - 1) |-> m[j]]
    BY <1>1
  <2>3. \A j \in 1..(i - 1) : k[j] = m[j]
    BY <1>1, <1>3
  <2> QED
    BY <2>1, <2>2, <2>3
<1>7. SubSeq(m, 1, Len(m)) = m
  BY <1>1, SubSeqFull
<1>8. ASSUME NEW i \in 1..Len(k)
      PROVE  /\ s[i].path = SubSeq(k, 1, i - 1)
             /\ s[i].todo = {n \in Names(SubSeq(k, 1, i - 1)) : n > k[i]}
  <2>1. i \in 1..(Len(m) + 1) /\ (i \in 1..Len(m) \/ i = Len(m) + 1)
    BY <1>1, <1>3
  <2>2. SubSeq(k, 1, i - 1) = SubSeq(m, 1, i - 1)
    BY <1>6, <2>1
  <2>3. CASE i \in 1..Len(m)
    <3>1. s[i] = stack[i] /\ k[i] = m[i]
      BY <1>3, <1>5, <2>3
    <3> QED
      BY <2>2, <2>3, <3>1 DEF Stacked
  <2>4. CASE i = Len(m) + 1
    <3>1. s[i] = frame /\ k[i] = 0 /\ i - 1 = Len(m)
      BY <1>1, <1>3, <1>5, <2>4
    <3>2. SubSeq(k, 1, i - 1) = m
      BY <1>7, <2>2, <3>1
    <3> QED
      BY <1>2, <3>1, <3>2
  <2> QED
    BY <2>1, <2>3, <2>4
<1>9. Stacked(s, k) /\ k # <<>>
  BY <1>1, <1>3, <1>5, <1>8 DEF Stacked
<1> QED
  BY <1>4, <1>9 DEF k

\* The innermost directory, where the writer is in one.
LEMMA InnermostStacked ==
  ASSUME Typed, NEW m, m # <<>>, Stacked(dirs, m)
  PROVE  /\ m \in Seq(Nat) /\ Len(m) \in Nat \ {0} /\ Len(dirs) = Len(m)
         /\ Last(dirs) \in OpenDir /\ Last(dirs) = dirs[Len(m)]
         /\ Last(dirs).path = Front(m) /\ Last(dirs).todo = NamesLeft(m)
         /\ Front(dirs) \in Seq(OpenDir) /\ Len(Front(dirs)) = Len(m) - 1
         /\ \A i \in 1..(Len(m) - 1) : Front(dirs)[i] = dirs[i]
         /\ Front(m) \in Seq(Nat) /\ Len(Front(m)) = Len(m) - 1
         /\ \A i \in 1..(Len(m) - 1) : Front(m)[i] = m[i]
<1>1. m \in Seq(Nat) /\ Len(m) \in Nat \ {0} /\ dirs \in Seq(OpenDir) /\ Len(dirs) = Len(m)
  BY EmptySeq DEF Stacked
<1>2. dirs # <<>>
  BY <1>1
<1>3. /\ Last(dirs) = dirs[Len(m)] /\ Last(dirs) \in OpenDir
      /\ Front(dirs) \in Seq(OpenDir) /\ Len(Front(dirs)) = Len(m) - 1
      /\ \A i \in 1..(Len(m) - 1) : Front(dirs)[i] = dirs[i]
  BY <1>1, <1>2, FrontOfSeq
<1>4. /\ Last(m) = m[Len(m)] /\ Front(m) \in Seq(Nat) /\ Len(Front(m)) = Len(m) - 1
      /\ \A i \in 1..(Len(m) - 1) : Front(m)[i] = m[i]
  BY <1>1, FrontOfSeq
<1>5. SubSeq(m, 1, Len(m) - 1) = Front(m)
  BY <1>1 DEF Front
<1>6. Len(m) \in 1..Len(m)
  BY <1>1
<1>7. Last(dirs).path = Front(m) /\ Last(dirs).todo = NamesLeft(m)
  BY <1>3, <1>4, <1>5, <1>6 DEF Stacked, NamesLeft
<1> QED
  BY <1>1, <1>3, <1>4, <1>7

\* The next name, off the innermost directory.
LEMMA RenamedStacked ==
  ASSUME Typed, NEW m, m # <<>>, Stacked(dirs, m), NamesLeft(m) # {}
  PROVE  LET name == FirstOf(NamesLeft(m)) IN
         Stacked(Append(Front(dirs), [Last(dirs) EXCEPT !.todo = @ \ {name}]), Append(Front(m), name))
<1> DEFINE name == FirstOf(NamesLeft(m))
           rest == [Last(dirs) EXCEPT !.todo = @ \ {name}]
           f == Front(m)
           g == Front(dirs)
           k == Append(f, name)
           s == Append(g, rest)
<1>1. WellFormed(tree)
  BY DEF Typed, EncoderTyped
<1>2. /\ m \in Seq(Nat) /\ Len(m) \in Nat \ {0} /\ Last(dirs) \in OpenDir
      /\ Last(dirs).path = f /\ Last(dirs).todo = NamesLeft(m)
      /\ g \in Seq(OpenDir) /\ Len(g) = Len(m) - 1 /\ \A i \in 1..(Len(m) - 1) : g[i] = dirs[i]
      /\ f \in Seq(Nat) /\ Len(f) = Len(m) - 1 /\ \A i \in 1..(Len(m) - 1) : f[i] = m[i]
  BY InnermostStacked
<1>3. name \in Nat /\ name \in NamesLeft(m) /\ \A n \in NamesLeft(m) : name <= n
  BY <1>1, <1>2, NextNameOfDir
<1>4. rest \in OpenDir /\ rest.path = f /\ rest.todo = {n \in Names(f) : n > name}
  <2>1. rest \in OpenDir /\ rest.path = f /\ rest.todo = NamesLeft(m) \ {name}
    <3> HIDE DEF name, f
    <3> QED
      BY <1>2 DEF OpenDir
  <2>2. NamesLeft(m) \ {name} = {n \in Names(f) : n > name}
    <3>1. NamesLeft(m) = {n \in Names(f) : n > Last(m)}
      BY DEF NamesLeft
    <3>2. \A n \in Names(f) : n \in Nat
      BY <1>1, NamesLead
    <3>3. Last(m) \in Nat
      BY <1>2, FrontOfSeq
    <3> HIDE DEF name, f
    <3>4. name > Last(m)
      BY <1>3, <3>1
    <3>5. \A n \in Names(f) : n \in NamesLeft(m) \ {name} <=> n > name
      BY <1>3, <3>1, <3>2, <3>3, <3>4
    <3> QED
      BY <3>1, <3>5
  <2> QED
    BY <2>1, <2>2
<1> HIDE DEF name, rest, f, g
<1>5. /\ k \in Seq(Nat) /\ Len(k) = Len(f) + 1 /\ k[Len(f) + 1] = name
      /\ \A i \in 1..Len(f) : k[i] = f[i]
  BY <1>2, <1>3, AppendProperties
<1>6. /\ s \in Seq(OpenDir) /\ Len(s) = Len(g) + 1 /\ s[Len(g) + 1] = rest
      /\ \A i \in 1..Len(g) : s[i] = g[i]
  BY <1>2, <1>4, AppendProperties
<1> HIDE DEF k, s
<1>7. \A i \in 1..Len(m) : SubSeq(k, 1, i - 1) = SubSeq(m, 1, i - 1)
  <2> SUFFICES ASSUME NEW i \in 1..Len(m) PROVE SubSeq(k, 1, i - 1) = SubSeq(m, 1, i - 1)
    OBVIOUS
  <2>1. SubSeq(k, 1, i - 1) = [j \in 1..(i - 1) |-> k[j]]
    BY <1>2, <1>5
  <2>2. SubSeq(m, 1, i - 1) = [j \in 1..(i - 1) |-> m[j]]
    BY <1>2
  <2>3. \A j \in 1..(i - 1) : k[j] = m[j]
    <3> SUFFICES ASSUME NEW j \in 1..(i - 1) PROVE k[j] = m[j]
      OBVIOUS
    <3>1. j \in 1..Len(f) /\ j \in 1..(Len(m) - 1)
      BY <1>2
    <3> QED
      BY <1>2, <1>5, <3>1
  <2> QED
    BY <2>1, <2>2, <2>3
<1>8. SubSeq(m, 1, Len(m) - 1) = f
  BY <1>2 DEF Front, f
<1>9. ASSUME NEW i \in 1..Len(k)
      PROVE  /\ s[i].path = SubSeq(k, 1, i - 1)
             /\ s[i].todo = {n \in Names(SubSeq(k, 1, i - 1)) : n > k[i]}
  <2>1. i \in 1..Len(m) /\ (i \in 1..(Len(m) - 1) \/ i = Len(m))
    BY <1>2, <1>5
  <2>2. SubSeq(k, 1, i - 1) = SubSeq(m, 1, i - 1)
    BY <1>7, <2>1
  <2>3. CASE i \in 1..(Len(m) - 1)
    <3>1. i \in 1..Len(g) /\ i \in 1..Len(f)
      BY <1>2, <2>3
    <3>2. s[i] = dirs[i] /\ k[i] = m[i]
      BY <1>2, <1>5, <1>6, <2>3, <3>1
    <3> QED
      BY <2>1, <2>2, <3>2 DEF Stacked
  <2>4. CASE i = Len(m)
    <3>1. Len(f) + 1 = Len(m) /\ Len(g) + 1 = Len(m)
      BY <1>2
    <3>2. s[i] = rest /\ k[i] = name
      BY <1>5, <1>6, <2>4, <3>1
    <3>3. SubSeq(k, 1, i - 1) = f
      BY <1>8, <2>2, <2>4
    <3> QED
      BY <1>4, <3>2, <3>3
  <2> QED
    BY <2>1, <2>3, <2>4
<1>10. Len(s) = Len(k)
  BY <1>2, <1>5, <1>6
<1>11. Stacked(s, k)
  BY <1>5, <1>6, <1>9, <1>10 DEF Stacked
<1> QED
  BY <1>11 DEF s, k, g, f, rest, name

\* The innermost directory, off the stack.
LEMMA PoppedStacked ==
  ASSUME Typed, NEW m, m # <<>>, Stacked(dirs, m)
  PROVE  Stacked(Front(dirs), Front(m))
<1> DEFINE f == Front(m)
           g == Front(dirs)
<1>1. /\ m \in Seq(Nat) /\ Len(m) \in Nat \ {0}
      /\ g \in Seq(OpenDir) /\ Len(g) = Len(m) - 1 /\ \A i \in 1..(Len(m) - 1) : g[i] = dirs[i]
      /\ f \in Seq(Nat) /\ Len(f) = Len(m) - 1 /\ \A i \in 1..(Len(m) - 1) : f[i] = m[i]
  BY InnermostStacked
<1> HIDE DEF f, g
<1>2. ASSUME NEW i \in 1..Len(f)
      PROVE  /\ g[i].path = SubSeq(f, 1, i - 1)
             /\ g[i].todo = {n \in Names(SubSeq(f, 1, i - 1)) : n > f[i]}
  <2>1. g[i] = dirs[i] /\ f[i] = m[i] /\ i \in 1..Len(m)
    BY <1>1
  <2>2. SubSeq(f, 1, i - 1) = SubSeq(m, 1, i - 1)
    <3>1. SubSeq(f, 1, i - 1) = [j \in 1..(i - 1) |-> f[j]]
      BY <1>1
    <3>2. SubSeq(m, 1, i - 1) = [j \in 1..(i - 1) |-> m[j]]
      BY <1>1
    <3>3. \A j \in 1..(i - 1) : f[j] = m[j]
      BY <1>1
    <3> QED
      BY <3>1, <3>2, <3>3
  <2> QED
    BY <2>1, <2>2 DEF Stacked
<1>3. Stacked(g, f)
  BY <1>1, <1>2 DEF Stacked
<1> QED
  BY <1>3 DEF f, g

\* What DirNar adds leads on from where it was: Sent after a step, of a reader that stays.
SentOn(d) ==
    \/ enc' = "start" /\ Leads(d, wire', Outset)
    \/ enc' = "running" /\ \E m : m # <<>> /\ Stacked(dirs', m) /\ Leads(d, wire', Writer(m)')
    \/ enc' = "done" /\ Leads(d, wire', TheEnd)

LEMMA ItemsOfBefore ==
  ASSUME NEW n \in Nat
  PROVE  Tokens(<<"entry", "(", "name">>) \o <<<<"string", n>>, T("node")>> \in Seq(Items)
<1>1. <<"entry", "(", "name">> \in Seq(Symbols)
  BY DEF Symbols
<1>2. Tokens(<<"entry", "(", "name">>) \in Seq(Items)
  BY <1>1, TokensAreItems
<1>3. <<"string", n>> \in Items /\ T("node") \in Items
  BY DEF T, Items, Symbols
<1>4. <<<<"string", n>>, T("node")>> \in Seq(Items)
  BY <1>3
<1> QED
  BY <1>2, <1>4, ConcatProperties

LEMMA DescendLeads ==
  ASSUME Typed, NEW d, NEW e, NEW path \in DOMAIN tree, NEW before \in Seq(Items), NEW stack,
         Stacked(stack, path), Leads(d, wire, e),
         Leads(e, before, Spot("type", <<T("("), T("type")>>, path)),
         ~file.open, Descend(path, before), dirs' = Pushed(stack, path),
         tree[path].kind # "other", path # <<>> \/ tree[path].kind = "dir"
  PROVE  SentOn(d)
<1>1. WellFormed(tree) /\ tree[path] \in Nodes /\ wire \in Seq(Items)
  BY TreeNodes DEF Typed, EncoderTyped
<1>2. Header(tree[path], path # <<>>) \in Seq(Items)
  BY <1>1, HeaderIsItems
<1>3. /\ enc' = "running" /\ wire' = wire \o before \o Header(tree[path], path # <<>>)
      /\ file' = IF tree[path].kind = "file"
                 THEN [open |-> TRUE, size |-> tree[path].size, left |-> tree[path].size]
                 ELSE file
  BY DEF Descend
<1>4. Leads(d, wire', Headed(path))
  <2>1. Leads(d, wire \o before, Spot("type", <<T("("), T("type")>>, path)) /\ wire \o before \in Seq(Items)
    BY <1>1, LeadsConcat, ConcatProperties
  <2>2. Leads(Spot("type", <<T("("), T("type")>>, path), Header(tree[path], path # <<>>), Headed(path))
    BY <1>1, HeaderLeads
  <2>3. Leads(d, (wire \o before) \o Header(tree[path], path # <<>>), Headed(path))
    BY <1>2, <2>1, <2>2, LeadsConcat
  <2> QED
    BY <1>3, <2>3
<1>5. CASE tree[path].kind = "dir"
  <2>1. Stacked(dirs', Append(path, 0)) /\ Append(path, 0) # <<>>
    BY <1>1, <1>5, PushedStacked
  <2>2. file' = file
    BY <1>3, <1>5
  <2>3. Writer(Append(path, 0))' = Headed(path)
    BY <1>5, <2>2 DEF Writer, Headed
  <2> QED
    BY <1>3, <1>4, <2>1, <2>3 DEF SentOn
<1>6. CASE tree[path].kind # "dir"
  <2>1. path # <<>> /\ dirs' = stack
    BY <1>6 DEF Pushed
  <2>2. Writer(path)' = Headed(path)
    <3>1. CASE tree[path].kind = "file"
      <4>1. file'.open /\ file'.size = tree[path].size /\ file'.left = tree[path].size
        BY <1>3, <3>1
      <4> QED
        BY <3>1, <4>1 DEF Writer, Headed, Data, Unclosed, Pad
    <3>2. CASE tree[path].kind = "link"
      <4>1. file' = file
        BY <1>3, <3>2
      <4> QED
        BY <2>1, <3>2, <4>1 DEF Writer, Headed
    <3> QED
      BY <1>1, <1>6, <3>1, <3>2, KindsOfNodes
  <2> QED
    BY <1>3, <1>4, <2>1, <2>2 DEF SentOn
<1> QED
  BY <1>5, <1>6

LEMMA StartLeads ==
  ASSUME Typed, NEW d, Sent(d, wire), Start
  PROVE  SentOn(d)
<1>1. /\ enc = "start" /\ WellFormed(tree) /\ <<>> \in DOMAIN tree /\ tree[<<>>].kind = "dir" /\ file = NoFile
      /\ Descend(<<>>, <<T("nix-archive-1")>>) /\ dirs' = Pushed(<<>>, <<>>)
  BY DEF Typed, EncoderTyped, Start, WellFormed
<1>2. Leads(d, wire, Outset)
  BY <1>1 DEF Sent
<1> DEFINE w == <<T("nix-archive-1")>>
           root == <<>>
<1>3. w \in Seq(Items) /\ Len(w) = 1 /\ w[1] = T("nix-archive-1")
  BY TokenIsItem DEF Symbols
<1>4. Stacked(root, root)
  BY DEF Stacked
<1> HIDE DEF w
<1>5. Leads(Outset, w, Spot("type", <<T("("), T("type")>>, root))
  BY <1>3, TakesThree, LeadsOne DEF Outset
<1>6. ~file.open
  BY <1>1 DEF NoFile
<1>7. Descend(root, w) /\ dirs' = Pushed(root, root) /\ root \in DOMAIN tree /\ tree[root].kind = "dir"
  BY <1>1 DEF w
<1> HIDE DEF root
<1> QED
  BY <1>2, <1>3, <1>4, <1>5, <1>6, <1>7, DescendLeads

\* Between two steps in a directory.
LEMMA InDirectory ==
  ASSUME Typed, NEW d, Sent(d, wire), enc = "running"
  PROVE  \E m : /\ m # <<>> /\ Stacked(dirs, m) /\ Leads(d, wire, Writer(m))
                /\ m \in Seq(Nat) /\ Last(dirs).todo = NamesLeft(m) /\ Last(dirs).path = Front(m)
                /\ Len(dirs) = Len(m) /\ Len(m) \in Nat \ {0} /\ WellFormed(tree) /\ wire \in Seq(Items)
<1>1. PICK m : m # <<>> /\ Stacked(dirs, m) /\ Leads(d, wire, Writer(m))
  BY DEF Sent
<1>2. WellFormed(tree) /\ wire \in Seq(Items)
  BY DEF Typed, EncoderTyped
<1>3. /\ m \in Seq(Nat) /\ Last(dirs).todo = NamesLeft(m) /\ Last(dirs).path = Front(m)
      /\ Len(dirs) = Len(m) /\ Len(m) \in Nat \ {0}
  BY <1>1, InnermostStacked
<1> QED
  BY <1>1, <1>2, <1>3

\* The tokens before the next entry of a directory.
LEMMA EntryLeads ==
  ASSUME NEW m, NamesLeft(m) # {}, FirstOf(NamesLeft(m)) \in Nat
  PROVE  LET n == FirstOf(NamesLeft(m)) IN
         Leads(Spot("body", <<>>, m), Tokens(<<"entry", "(", "name">>) \o <<<<"string", n>>, T("node")>>,
               Spot("type", <<T("("), T("type")>>, Append(Front(m), n)))
<1> DEFINE n == FirstOf(NamesLeft(m))
           u == Tokens(<<"entry", "(", "name">>)
           v == <<<<"string", n>>, T("node")>>
           path == Append(Front(m), n)
<1>1. u = <<T("entry"), T("("), T("name")>>
  BY Tokens3
<1>2. Takes(Spot("body", <<>>, m), T("entry"), Spot("name", <<T("("), T("name")>>, m))
  BY DEF Takes, Fits, Succ, Spot
<1>3. Takes(Spot("name", <<>>, m), <<"string", n>>, Spot("type", <<T("node"), T("("), T("type")>>, path))
  BY DEF Takes, Fits, Succ, Spot
<1>4. Leads(Spot("body", <<>>, m), u, Spot("name", <<>>, m))
  <2> HIDE DEF u
  <2>1. Len(u) = 3 /\ u[1] = T("entry") /\ u[2] = T("(") /\ u[3] = T("name")
    BY <1>1
  <2> QED
    BY <1>2, <2>1, TakesOne, TakesTwo, LeadsThree
<1>5. Leads(Spot("name", <<>>, m), v, Spot("type", <<T("("), T("type")>>, path))
  <2>1. Len(v) = 2 /\ v[1] = <<"string", n>> /\ v[2] = T("node")
    OBVIOUS
  <2> HIDE DEF n, v, path
  <2> QED
    BY <1>3, <2>1, TakesThree, LeadsTwo
<1>6. u \in Seq(Items) /\ v \in Seq(Items)
  <2>1. <<"entry", "(", "name">> \in Seq(Symbols)
    BY DEF Symbols
  <2>2. u \in Seq(Items)
    BY <2>1, TokensAreItems
  <2>3. <<"string", n>> \in Items /\ T("node") \in Items
    BY DEF T, Items, Symbols
  <2>4. v \in Seq(Items)
    BY <2>3
  <2> QED
    BY <2>2, <2>4
<1> HIDE DEF u, v, path
<1>7. Leads(Spot("body", <<>>, m), u \o v, Spot("type", <<T("("), T("type")>>, path))
  BY <1>4, <1>5, <1>6, LeadsConcat
<1> QED
  BY <1>7 DEF u, v, path

LEMMA SendEntryLeads ==
  ASSUME Typed, NEW d, Sent(d, wire), SendEntry, enc' # "failed"
  PROVE  SentOn(d)
<1>1. enc = "running" /\ ~file.open /\ Last(dirs).todo # {}
  BY DEF SendEntry
<1>2. PICK m : /\ m # <<>> /\ Stacked(dirs, m) /\ Leads(d, wire, Writer(m))
               /\ m \in Seq(Nat) /\ Last(dirs).todo = NamesLeft(m) /\ Last(dirs).path = Front(m)
               /\ WellFormed(tree)
  BY <1>1, InDirectory
<1> DEFINE n == FirstOf(NamesLeft(m))
           path == Append(Front(m), n)
           before == Tokens(<<"entry", "(", "name">>) \o <<<<"string", n>>, T("node")>>
           stack == Append(Front(dirs), [Last(dirs) EXCEPT !.todo = @ \ {n}])
<1>3. NamesLeft(m) # {} /\ Leads(d, wire, Spot("body", <<>>, m))
  BY <1>1, <1>2 DEF Writer
<1>4. n \in Nat /\ path \in DOMAIN tree
  BY <1>2, <1>3, NextNameOfDir
<1>5. path # <<>>
  <2>1. Front(m) \in Seq(Nat)
    BY <1>2, FrontOfSeq
  <2> QED
    BY <1>4, <2>1, FrontOfAppend
<1>6. Descend(path, before) /\ dirs' = Pushed(stack, path)
  BY <1>2 DEF SendEntry
<1>7. Stacked(stack, path)
  BY <1>2, <1>3, RenamedStacked
<1>8. Leads(Spot("body", <<>>, m), before, Spot("type", <<T("("), T("type")>>, path))
  BY <1>3, <1>4, EntryLeads
<1>9. before \in Seq(Items)
  BY <1>4, ItemsOfBefore
<1> HIDE DEF path, before, stack
<1>10. tree[path].kind # "other"
  BY <1>6 DEF Descend, Fails
<1> QED
  BY <1>1, <1>3, <1>4, <1>5, <1>6, <1>7, <1>8, <1>9, <1>10, DescendLeads

LEMMA SendCloseLeads ==
  ASSUME Typed, NEW d, Sent(d, wire), SendClose
  PROVE  SentOn(d)
<1>1. enc = "running" /\ ~file.open /\ Last(dirs).todo = {} /\ dirs' = Front(dirs) /\ file' = file
  BY DEF SendClose
<1>2. PICK m : /\ m # <<>> /\ Stacked(dirs, m) /\ Leads(d, wire, Writer(m))
               /\ m \in Seq(Nat) /\ Last(dirs).todo = NamesLeft(m)
               /\ Len(dirs) = Len(m) /\ Len(m) \in Nat \ {0} /\ wire \in Seq(Items)
  BY <1>1, InDirectory
<1>3. NamesLeft(m) = {} /\ Leads(d, wire, Spot("body", <<>>, m))
  BY <1>1, <1>2 DEF Writer
<1>4. CASE Len(m) = 1
  <2> DEFINE w == <<T(")")>>
  <2>1. wire' = wire \o w /\ enc' = "done"
    BY <1>2, <1>4 DEF SendClose
  <2>2. w \in Seq(Items) /\ Len(w) = 1 /\ w[1] = T(")")
    BY CloseIsItems
  <2>3. Takes(Spot("body", <<>>, m), T(")"), TheEnd)
    BY <1>3, <1>4 DEF Takes, Fits, Succ, Spot
  <2> HIDE DEF w
  <2>4. Leads(Spot("body", <<>>, m), w, TheEnd)
    BY <2>2, <2>3, LeadsOne
  <2>5. Leads(d, wire', TheEnd)
    BY <1>2, <1>3, <2>1, <2>2, <2>4, LeadsConcat
  <2> QED
    BY <2>1, <2>5 DEF SentOn
<1>5. CASE Len(m) # 1
  <2> DEFINE w == Tokens(<<")", ")">>)
             f == Front(m)
  <2>1. wire' = wire \o w /\ enc' = "running"
    BY <1>1, <1>2, <1>5 DEF SendClose
  <2>2. w \in Seq(Items) /\ Len(w) = 2 /\ w[1] = T(")") /\ w[2] = T(")")
    BY CloseIsItems, Tokens2
  <2>3. Takes(Spot("body", <<>>, m), T(")"), Spot("body", <<T(")")>>, f))
    BY <1>3, <1>5 DEF Takes, Fits, Succ, Spot
  <2>4. f # <<>> /\ Stacked(dirs', f)
    <3>1. f \in Seq(Nat) /\ Len(f) = Len(m) - 1
      BY <1>2, FrontOfSeq
    <3>2. f # <<>>
      BY <1>2, <1>5, <3>1
    <3> QED
      BY <1>1, <1>2, <3>2, PoppedStacked
  <2> HIDE DEF w, f
  <2>5. Leads(Spot("body", <<>>, m), w, Spot("body", <<>>, f))
    BY <2>2, <2>3, TakesOne, LeadsTwo
  <2>6. Leads(d, wire', Spot("body", <<>>, f))
    BY <1>2, <1>3, <2>1, <2>2, <2>5, LeadsConcat
  <2>7. Writer(f)' = Spot("body", <<>>, f)
    BY <1>1 DEF Writer, Spot
  <2> QED
    BY <2>1, <2>4, <2>6, <2>7 DEF SentOn
<1> QED
  BY <1>4, <1>5

LEMMA SendContentsLeads ==
  ASSUME Typed, NEW d, Sent(d, wire), SendContents
  PROVE  SentOn(d)
<1>1. file.open /\ file.left \in Nat /\ file.size \in Nat /\ wire \in Seq(Items) /\ Len(wire) \in Nat
  BY EncoderTypes DEF SendContents, Typed
<1>2. enc = "running" /\ enc' = enc /\ dirs' = dirs
  <2>1. enc \in {"start", "running"} /\ (enc = "start" => ~file.open)
    BY DEF SendContents, Filling, Typed, EncoderTyped, NoFile
  <2> QED
    BY <1>1, <2>1 DEF SendContents
<1>3. PICK m : m # <<>> /\ Stacked(dirs, m) /\ Leads(d, wire, Writer(m))
  BY <1>2, InDirectory
<1>4. Leads(d, wire, Data(m, file.left + Pad(file.size)))
  BY <1>1, <1>3 DEF Writer
<1> DEFINE n == IF file.left < Room THEN file.left ELSE Room
           pad == Pad(file.size)
           rest == file.left - n
           u == [i \in 1..n |-> Byte]
           v == Zeros(pad)
           c == Tokens(<<")", ")">>)
<1>5. n \in Nat /\ rest \in Nat /\ n + rest = file.left /\ (n = file.left <=> rest = 0)
  <2>1. Room \in Nat \ {0}
    BY <1>1, NarAssumption DEF SendContents, Filling, Room
  <2> QED
    BY <1>1, <2>1
<1>6. pad \in Nat
  BY <1>1, PadIsShort
<1>7. /\ wire' = wire \o u \o (IF n = file.left THEN v \o c ELSE <<>>)
      /\ file' = IF n = file.left THEN NoFile ELSE [file EXCEPT !.left = @ - n]
  BY DEF SendContents
<1>8. file \in [open : BOOLEAN, size : Nat, left : Nat]
  BY EncoderTypes DEF Typed
<1> HIDE DEF n, pad, rest
<1>9. u \in Seq(Items) /\ Len(u) = n
  BY <1>5, BytesAreItems
<1>10. v \in Seq(Items) /\ Len(v) = pad
  BY <1>6, BytesAreItems
<1>11. c \in Seq(Items)
  BY CloseIsItems
<1> HIDE DEF u, v
<1>12. Leads(d, wire \o u, Data(m, rest + pad)) /\ wire \o u \in Seq(Items)
  <2>1. file.left + pad = n + (rest + pad) /\ rest + pad \in Nat
    BY <1>1, <1>5, <1>6
  <2>2. Leads(Data(m, n + (rest + pad)), u, Data(m, rest + pad))
    BY <1>5, <1>9, <2>1, BytesLead
  <2>3. Leads(d, wire, Data(m, n + (rest + pad)))
    BY <1>4, <2>1 DEF pad
  <2> QED
    BY <1>1, <1>9, <2>2, <2>3, LeadsConcat, ConcatProperties
<1>13. CASE n = file.left
  <2>1. rest + pad = pad + 0
    BY <1>5, <1>6, <1>13
  <2>2. Leads(Data(m, pad + 0), v, Data(m, 0))
    BY <1>6, <1>10, BytesLead
  <2>3. Leads(Data(m, 0), c, Spot("body", <<>>, m))
    BY <1>3, ClosingLeads
  <2> HIDE DEF c
  <2>4. Leads(Data(m, pad + 0), v \o c, Spot("body", <<>>, m)) /\ v \o c \in Seq(Items)
    BY <1>10, <1>11, <2>2, <2>3, LeadsConcat, ConcatProperties
  <2>5. Leads(d, (wire \o u) \o (v \o c), Spot("body", <<>>, m))
    BY <1>12, <2>1, <2>4, LeadsConcat
  <2>6. Leads(d, wire', Spot("body", <<>>, m))
    BY <1>7, <1>13, <2>5
  <2>7. Writer(m)' = Spot("body", <<>>, m)
    BY <1>7, <1>13 DEF Writer, NoFile, Spot
  <2> QED
    BY <1>2, <1>3, <2>6, <2>7 DEF SentOn
<1>14. CASE n # file.left
  <2>1. Leads(d, (wire \o u) \o <<>>, Data(m, rest + pad))
    BY <1>12, EmptyItems, LeadsNowhere, LeadsConcat
  <2>2. Leads(d, wire', Data(m, rest + pad))
    BY <1>7, <1>14, <2>1
  <2>3. file'.open /\ file'.left = rest /\ file'.size = file.size
    BY <1>1, <1>7, <1>8, <1>14 DEF rest
  <2>4. Writer(m)' = Data(m, rest + pad)
    BY <2>3 DEF Writer, Data, Unclosed, Pad, pad
  <2> QED
    BY <1>2, <1>3, <2>2, <2>4 DEF SentOn
<1> QED
  BY <1>13, <1>14

\* While something is to come, the reader is not at the end.
LEMMA NotAtTheEnd ==
  ASSUME Typed, NEW d, Sent(d, wire), enc \in {"start", "running"} \/ wire # <<>>
  PROVE  d # TheEnd
<1> SUFFICES ASSUME d = TheEnd PROVE FALSE
  OBVIOUS
<1>1. wire \in Seq(Items)
  BY DEF Typed, EncoderTyped
<1>2. CASE enc = "start"
  <2>1. Outset = TheEnd
    BY <1>1, <1>2, EndLeadsNowhere DEF Sent
  <2> QED
    BY <2>1 DEF Outset, TheEnd, Spot
<1>3. CASE enc = "running"
  <2>1. PICK m : m # <<>> /\ Leads(d, wire, Writer(m))
    BY <1>3 DEF Sent
  <2>2. Writer(m) = TheEnd
    BY <1>1, <2>1, EndLeadsNowhere
  <2>3. Writer(m).at \in {"body", "bytes"}
    BY <2>1 DEF Writer, Data, Unclosed, Spot
  <2> QED
    BY <2>2, <2>3 DEF TheEnd, Spot
<1>4. CASE enc = "done"
  BY <1>1, <1>4, EndLeadsNowhere DEF Sent
<1> QED
  BY <1>2, <1>3, <1>4 DEF Sent

\* Nothing of what InStep says of the decoder is about the encoder.
LEMMA DecoderStays ==
  ASSUME UNCHANGED <<tree, decVars>>
  PROVE  /\ Reader' = Reader /\ Decoding' = Decoding /\ Returned' = Returned
         /\ (EntriesOfTheTree' <=> EntriesOfTheTree)
<1>1. UNCHANGED <<tree, dec, want, frames, pending, exec, left, total, entries, outcome>>
  BY DEF decVars
<1>2. Mark' = Mark /\ Stage' = Stage
  BY <1>1 DEF Mark, Stage, MarkOf
<1>3. Reader' = Reader
  BY <1>1, <1>2 DEF Reader, Data, Unclosed, Spot, Pad
<1>4. Decoding' = Decoding
  BY <1>1, <1>2 DEF Decoding, NamesMatch, InNode
<1>5. EntriesOfTheTree' <=> EntriesOfTheTree
  BY <1>1 DEF EntriesOfTheTree, Before, Decodable
<1> QED
  BY <1>1, <1>3, <1>4, <1>5 DEF Returned

LEMMA EntriesStay ==
  ASSUME EntriesOfTheTree, UNCHANGED <<tree, entries>>
  PROVE  EntriesOfTheTree' /\ Returned' = Returned
<1>1. Returned' = Returned
  BY DEF Returned
<1>2. \A p : Decodable(p)' <=> Decodable(p)
  BY DEF Decodable
<1>3. \A p, q : Before(p, q)' <=> Before(p, q)
  BY DEF Before
<1>4. EntriesOfTheTree'
  BY <1>2, <1>3 DEF EntriesOfTheTree
<1> QED
  BY <1>1, <1>4

\* The cause of an error stays.
LEMMA CauseStays ==
  ASSUME ErrorsHaveACause, UNCHANGED <<tree, entries, outcome>>,
         enc' \notin {"cut", "failed"} => enc \notin {"cut", "failed"}
  PROVE  ErrorsHaveACause'
BY DEF ErrorsHaveACause, Decodable, Before, Returned

LEMMA SentNext ==
  ASSUME tree' = tree, Reader' = Reader, SentOn(Reader)
  PROVE  Sent(Reader, wire)'
<1>1. /\ enc' = "start" => Leads(Reader, wire, Outset)'
      /\ enc' = "done" => Leads(Reader, wire, TheEnd)'
  BY SameGrammar DEF SentOn, Outset, TheEnd, Spot
<1>2. ASSUME enc' = "running" PROVE \E m : m # <<>> /\ Stacked(dirs, m)' /\ Leads(Reader, wire, Writer(m))'
  <2>1. PICK m : m # <<>> /\ Stacked(dirs', m) /\ Leads(Reader, wire', Writer(m)')
    BY <1>2 DEF SentOn
  <2>2. Stacked(dirs, m)' /\ Leads(Reader, wire, Writer(m))'
    BY <2>1, SameGrammar
  <2> QED
    BY <2>1, <2>2
<1> QED
  BY <1>1, <1>2 DEF Sent, SentOn

\* A step of the encoder, or of what goes wrong.
LEMMA EncoderInv ==
  ASSUME NarInv, Encoder \/ Shrunk \/ Cut
  PROVE  NarInv'
<1>1. Typed /\ Typed' /\ UNCHANGED <<tree, decVars>>
  BY StepTyped DEF NarInv, Next, Encoder, Start, SendEntry, SendClose, SendContents, Filled, Shrunk, Cut
<1>2. /\ Reader' = Reader /\ Decoding' = Decoding /\ Returned' = Returned
      /\ EntriesOfTheTree' /\ outcome' = outcome /\ want' = want /\ dec' = dec
  BY <1>1, DecoderStays DEF NarInv, decVars
<1>3. CASE outcome # "none"
  <2>1. Encoder \/ Shrunk
    BY <1>3 DEF Cut
  <2>2. FinishedIsWhole'
    <3> SUFFICES ASSUME outcome = "finished" PROVE Returned = DOMAIN tree /\ wire' = <<>> /\ enc' = "done"
      BY <1>1, <1>2 DEF FinishedIsWhole
    <3>1. Returned = DOMAIN tree /\ wire = <<>> /\ enc = "done"
      BY DEF NarInv, FinishedIsWhole
    <3>2. Filled
      BY <2>1, <3>1 DEF Encoder, Start, SendEntry, SendClose, SendContents, Shrunk, Filling
    <3> QED
      BY <3>1, <3>2 DEF Filled
  <2>3. ErrorsHaveACause'
    <3>1. ASSUME enc \in {"cut", "failed"} PROVE enc' \in {"cut", "failed"}
      <4>1. Filled
        BY <2>1, <3>1 DEF Encoder, Start, SendEntry, SendClose, SendContents, Shrunk, Filling
      <4> QED
        BY <3>1, <4>1 DEF Filled
    <3>2. ErrorsHaveACause /\ UNCHANGED <<tree, entries, outcome>>
      BY <1>1 DEF NarInv, decVars
    <3> QED
      BY <3>1, <3>2, CauseStays
  <2> QED
    BY <1>1, <1>2, <1>3, <2>2, <2>3 DEF NarInv
<1>4. CASE outcome = "none"
  <2>1. InStep /\ Valid(Reader) /\ Decoding /\ Returned = Visited(Reader)
    BY <1>4 DEF NarInv, InStep
  <2>2. Valid(Reader)' /\ Decoding' /\ (Returned = Visited(Reader))'
    BY <1>1, <1>2, <2>1, SameGrammar
  <2>3. ASSUME enc' \in {"start", "running", "done"} PROVE Sent(Reader, wire)'
    <3>1. enc \in {"start", "running", "done"} /\ Encoder
      BY <2>3 DEF Encoder, Start, SendEntry, SendClose, SendContents, Filled, Filling, Shrunk, Cut, Fails
    <3>2. Sent(Reader, wire)
      BY <2>1, <3>1 DEF InStep
    <3>3. SentOn(Reader)
      <4>1. CASE Filled
        <5>1. UNCHANGED <<enc, dirs, file, wire>>
          BY <4>1 DEF Filled
        <5>2. \A m : Writer(m)' = Writer(m)
          BY <5>1 DEF Writer, Data, Unclosed, Spot, Pad
        <5> QED
          BY <3>2, <5>1, <5>2 DEF Sent, SentOn
      <4>2. CASE SendEntry
        BY <1>1, <2>3, <3>2, <4>2, SendEntryLeads
      <4> QED
        BY <1>1, <3>1, <3>2, <4>1, <4>2, StartLeads, SendCloseLeads, SendContentsLeads DEF Encoder
    <3> QED
      BY <1>1, <1>2, <3>3, SentNext
  <2>4. ASSUME enc' \in {"cut", "failed"} PROVE Broken'
    <3>1. CASE enc \in {"cut", "failed"}
      <4>1. Broken /\ Filled
        BY <2>1, <3>1 DEF InStep, Encoder, Start, SendEntry, SendClose, SendContents, Filling, Shrunk, Cut
      <4> QED
        BY <1>2, <4>1 DEF Broken, Filled, TheEnd, Spot, Junk
    <3>2. CASE enc \notin {"cut", "failed"}
      <4>1. enc \in {"start", "running", "done"}
        BY <1>1, <3>2 DEF Typed, EncoderTyped
      <4>2. /\ enc \in {"start", "running"} \/ wire # <<>>
            /\ wire' = <<>> \/ (wire' = Junk /\ (want # <<>> \/ dec \in {"type", "attrs", "body", "name"}))
        <5>1. CASE Cut
          BY <5>1 DEF Cut, Junk
        <5>2. CASE Fails /\ Filling
          BY <5>2 DEF Fails, Filling
        <5>3. Cut \/ (Fails /\ Filling)
          BY <2>4, <3>2 DEF Encoder, Start, SendEntry, SendClose, SendContents, Filled, Shrunk, Descend
        <5> QED
          BY <5>1, <5>2, <5>3
      <4>3. Reader # TheEnd
        BY <1>1, <2>1, <4>1, <4>2, NotAtTheEnd DEF InStep
      <4> QED
        BY <1>2, <4>2, <4>3 DEF Broken, TheEnd, Spot, Junk
    <3> QED
      BY <3>1, <3>2
  <2>5. InStep'
    BY <2>2, <2>3, <2>4 DEF InStep
  <2> QED
    BY <1>1, <1>2, <1>4, <2>5 DEF NarInv, FinishedIsWhole, ErrorsHaveACause
<1> QED
  BY <1>3, <1>4

-----------------------------------------------------------------------------
(* The decoder's steps.                                                    *)

\* The reader takes the next item of what was sent.
LEMMA SentFits ==
  ASSUME Typed, NEW d, Sent(d, wire), wire # <<>>
  PROVE  Fits(d, Item) /\ Sent(Succ(d), Tail(wire))
<1>1. wire \in Seq(Items)
  BY DEF Typed, EncoderTyped
<1>2. \A e : Leads(d, wire, e) => Fits(d, Item) /\ Leads(Succ(d), Tail(wire), e)
  BY <1>1, LeadsOn DEF Item
<1> QED
  BY <1>2 DEF Sent

\* Nothing of what Sent says is about the decoder.
LEMMA SentStays ==
  ASSUME tree' = tree, UNCHANGED <<enc, dirs, file>>, NEW d, NEW w, Sent(d, w)
  PROVE  Sent(d, w)'
<1>1. \A m : Writer(m)' = Writer(m)
  BY DEF Writer, Data, Unclosed, Spot, Pad
<1>2. \A e : Leads(d, w, e)' <=> Leads(d, w, e)
  BY SameGrammar
<1>3. \A m : Stacked(dirs, m)' <=> Stacked(dirs, m)
  BY SameGrammar
<1>4. CASE enc = "start"
  <2>1. Leads(d, w, Outset)'
    BY <1>2, <1>4 DEF Sent, Outset, Spot
  <2> QED
    BY <1>4, <2>1 DEF Sent
<1>5. CASE enc = "done"
  <2>1. Leads(d, w, TheEnd)'
    BY <1>2, <1>5 DEF Sent, TheEnd, Spot
  <2> QED
    BY <1>5, <2>1 DEF Sent
<1>6. CASE enc = "running"
  <2>1. PICK m : m # <<>> /\ Stacked(dirs, m) /\ Leads(d, w, Writer(m))
    BY <1>6 DEF Sent
  <2>2. Stacked(dirs, m)' /\ Leads(d, w, Writer(m))'
    BY <1>1, <1>3, <2>1, SameGrammar
  <2> QED
    BY <1>6, <2>1, <2>2 DEF Sent
<1> QED
  BY <1>4, <1>5, <1>6 DEF Sent

\* What is returned is what has been visited, and an entry more.
LEMMA EntryReturned ==
  ASSUME Typed, EntriesOfTheTree, tree' = tree, Valid(Reader), Returned = Visited(Reader),
         IsReturned(Reader), Decodable(Reader.mark), NEW x, Fits(Reader, x),
         entries' = Append(entries, <<Reader.mark, tree[Reader.mark]>>)
  PROVE  EntriesOfTheTree' /\ Returned' = Visited(Succ(Reader))
<1> DEFINE e == <<Reader.mark, tree[Reader.mark]>>
           n == Len(entries)
<1>1. /\ entries \in Seq(Seq(Nat) \X Entered) /\ n \in Nat /\ WellFormed(tree) /\ DOMAIN entries = 1..n
  BY DEF Typed, DecoderTyped, EncoderTyped
<1>2. Reader.mark \in DOMAIN tree /\ Reader.mark \in Seq(Nat) /\ tree[Reader.mark] \in Nodes
  BY <1>1, VisitedSucc, TreeNodes
<1>3. e \in Seq(Nat) \X Entered /\ e[1] = Reader.mark /\ e[2] = tree[Reader.mark]
  BY <1>2 DEF Entered
<1> HIDE DEF e
<1>4. /\ entries' = Append(entries, e) /\ Len(entries') = n + 1 /\ DOMAIN entries' = 1..(n + 1)
      /\ entries'[n + 1] = e /\ \A i \in 1..n : entries'[i] = entries[i]
  BY <1>1, <1>3, AppendProperties DEF e
<1>5. Returned = {entries[k][1] : k \in 1..n}
  BY <1>1 DEF Returned
<1>6. Visited(Reader) = {p \in DOMAIN tree : Before(p, Reader.mark)}
  BY DEF IsReturned, Visited, OfNode
<1>7. ASSUME NEW i \in 1..(n + 1)
      PROVE  /\ entries'[i][1] \in DOMAIN tree /\ Decodable(entries'[i][1])
             /\ entries'[i][2] = tree[entries'[i][1]]
             /\ {p \in DOMAIN tree : Before(p, entries'[i][1])} = {entries'[k][1] : k \in 1..(i - 1)}
  <2>1. CASE i \in 1..n
    <3>1. entries'[i] = entries[i] /\ \A k \in 1..(i - 1) : entries'[k] = entries[k]
      BY <1>1, <1>4, <2>1
    <3>2. {entries'[k][1] : k \in 1..(i - 1)} = {entries[k][1] : k \in 1..(i - 1)}
      BY <3>1
    <3> QED
      BY <1>1, <2>1, <3>1, <3>2 DEF EntriesOfTheTree
  <2>2. CASE i = n + 1
    <3>1. i - 1 = n /\ entries'[i] = e
      BY <1>1, <1>4, <2>2
    <3>2. {entries'[k][1] : k \in 1..n} = {entries[k][1] : k \in 1..n}
      BY <1>4
    <3>3. e[1] \in DOMAIN tree /\ Decodable(e[1]) /\ e[2] = tree[e[1]]
      BY <1>2, <1>3
    <3> QED
      BY <1>3, <1>5, <1>6, <3>1, <3>2, <3>3
  <2>3. i \in 1..n \/ i = n + 1
    BY <1>1
  <2> QED
    BY <2>1, <2>2, <2>3, Zenon
<1>8. EntriesOfTheTree'
  BY <1>4, <1>7 DEF EntriesOfTheTree, Before, Decodable
<1>9. Returned' = Returned \cup {Reader.mark}
  <2>1. Returned' = {entries'[i][1] : i \in 1..(n + 1)}
    BY <1>4 DEF Returned
  <2>2. \A i \in 1..(n + 1) : i \in 1..n \/ i = n + 1
    BY <1>1
  <2>3. n + 1 \in 1..(n + 1) /\ \A i \in 1..n : i \in 1..(n + 1)
    BY <1>1
  <2>4. {entries'[i][1] : i \in 1..(n + 1)} = {entries'[i][1] : i \in 1..n} \cup {entries'[n + 1][1]}
    BY <2>2, <2>3
  <2>5. {entries'[i][1] : i \in 1..n} = {entries[i][1] : i \in 1..n}
    BY <1>4
  <2> QED
    BY <1>3, <1>4, <1>5, <2>1, <2>4, <2>5
<1>10. Visited(Succ(Reader)) = Visited(Reader) \cup {Reader.mark}
  BY <1>1, VisitedSucc
<1> QED
  BY <1>8, <1>9, <1>10

\* A step of the decoder that reads the item at the reader's place.
LEMMA ReadInv ==
  ASSUME NarInv, outcome = "none", enc \in {"start", "running", "done"}, wire # <<>>, Read,
         Typed', Reader' = Succ(Reader), Decoding', outcome' = "none",
         IF IsReturned(Reader)
         THEN Decodable(Reader.mark) /\ entries' = Append(entries, <<Reader.mark, tree[Reader.mark]>>)
         ELSE entries' = entries
  PROVE  NarInv'
<1>1. /\ Typed /\ EntriesOfTheTree /\ Valid(Reader) /\ Returned = Visited(Reader)
      /\ Sent(Reader, wire) /\ WellFormed(tree)
  BY DEF NarInv, InStep, Typed, EncoderTyped
<1>2. tree' = tree /\ wire' = Tail(wire) /\ UNCHANGED <<enc, dirs, file>>
  BY DEF Read, encVars
<1>3. Fits(Reader, Item) /\ Sent(Succ(Reader), Tail(wire))
  BY <1>1, SentFits
<1>4. Sent(Reader, wire)'
  BY <1>2, <1>3, SentStays
<1>5. Valid(Reader)'
  <2>1. Valid(Reader')
    BY <1>1, <1>3, ValidSucc
  <2> QED
    BY <1>2, <2>1, SameGrammar
<1>6. EntriesOfTheTree' /\ Returned' = Visited(Succ(Reader))
  <2>1. CASE IsReturned(Reader)
    BY <1>1, <1>2, <1>3, <2>1, EntryReturned
  <2>2. CASE ~IsReturned(Reader)
    BY <1>1, <1>2, <1>3, <2>2, EntriesStay, VisitedSucc
  <2> QED
    BY <2>1, <2>2
<1>7. (Returned = Visited(Reader))'
  BY <1>2, <1>6, SameGrammar
<1>8. InStep'
  BY <1>2, <1>4, <1>5, <1>7 DEF InStep
<1> QED
  BY <1>6, <1>8 DEF NarInv, FinishedIsWhole, ErrorsHaveACause

\* An error for which there is a cause.
LEMMA ErrorInv ==
  ASSUME NarInv, Typed', UNCHANGED <<tree, entries, enc>>, enc \in {"cut", "failed"}, outcome' = "error"
  PROVE  NarInv'
<1>1. EntriesOfTheTree'
  BY EntriesStay DEF NarInv
<1> QED
  BY <1>1 DEF NarInv, FinishedIsWhole, ErrorsHaveACause

\* What is read where an item is due.
LEMMA ReadFacts ==
  ASSUME NarInv, Available
  PROVE  /\ outcome = "none" /\ wire # <<>> /\ Typed /\ WellFormed(tree)
         /\ Valid(Reader) /\ Decoding /\ frames \in Seq(Frames) /\ exec \in BOOLEAN
         /\ enc \in {"start", "running", "done"} => Fits(Reader, Item)
         /\ enc \notin {"start", "running", "done"} =>
              /\ enc \in {"cut", "failed"} /\ Item = T("junk")
              /\ want # <<>> \/ dec \in {"type", "attrs", "body", "name"}
<1>1. outcome = "none" /\ wire # <<>> /\ Typed /\ InStep
  BY DEF Available, Reads, NarInv
<1>2. WellFormed(tree) /\ frames \in Seq(Frames) /\ exec \in BOOLEAN
      /\ enc \in {"start", "running", "done", "failed", "cut"}
  BY <1>1 DEF Typed, EncoderTyped, DecoderTyped
<1>3. ASSUME enc \in {"start", "running", "done"} PROVE Fits(Reader, Item)
  BY <1>1, <1>3, SentFits DEF InStep
<1>4. ASSUME enc \in {"cut", "failed"}
      PROVE  Item = T("junk") /\ (want # <<>> \/ dec \in {"type", "attrs", "body", "name"})
  BY <1>1, <1>4 DEF InStep, Broken, Junk, Item
<1> QED
  BY <1>1, <1>2, <1>3, <1>4 DEF InStep

LEMMA ReaderAt ==
  ASSUME Typed, dec \notin {"data", "skip"}
  PROVE  /\ Reader = Spot(Stage, want, Mark) /\ Reader.at = Stage /\ Reader.want = want
         /\ Reader.mark = Mark /\ Reader.rest = 0
         /\ Stage = "mode" <=> dec = "attrs" /\ exec
         /\ Stage # "mode" => Stage = dec
<1>1. Reader = Spot(Stage, want, Mark)
  BY DEF Reader
<1>2. dec # "mode"
  BY DEF Typed, DecoderTyped
<1>3. (Stage = "mode" <=> dec = "attrs" /\ exec) /\ (Stage # "mode" => Stage = dec)
  BY <1>2 DEF Stage
<1> QED
  BY <1>1, <1>3, SpotFields

LEMMA ReaderNext ==
  ASSUME dec' \notin {"data", "skip"}
  PROVE  Reader' = Spot(IF dec' = "attrs" /\ exec' THEN "mode" ELSE dec', want', MarkOf(frames'))
BY DEF Reader, Stage, Spot, Mark, MarkOf

\* What stays of Decoding when the frames and pending do.
LEMMA DecodingStays ==
  ASSUME Decoding, UNCHANGED <<frames, pending>>, InNode' = InNode, dec' # "len"
  PROVE  Decoding'
BY DEF Decoding, NamesMatch

LEMMA ExpectInv == ASSUME NarInv, Expect, Typed' PROVE NarInv'
<1>1. /\ Available /\ want # <<>> /\ Read /\ want' = Tail(want)
      /\ outcome' = (IF Item = Head(want) THEN outcome ELSE "error")
      /\ UNCHANGED <<dec, frames, pending, exec, left, total, entries>>
  BY DEF Expect
<1>2. /\ outcome = "none" /\ wire # <<>> /\ Typed /\ Valid(Reader) /\ Decoding
      /\ want \in Seq(Wanted) /\ dec \notin {"data", "skip"}
  BY <1>1, ReadFacts DEF Typed, DecoderTyped
<1>3. UNCHANGED <<tree, enc>>
  BY <1>1 DEF Read, encVars
<1>4. Reader.want = want
  BY <1>2, ReaderAt
<1>5. CASE enc \in {"start", "running", "done"}
  <2>1. Fits(Reader, Item)
    BY <1>1, <1>5, ReadFacts
  <2>2. Item = Head(want) /\ Succ(Reader) = [Reader EXCEPT !.want = Tail(@)]
    BY <1>1, <1>4, <2>1, SuccOf
  <2>3. outcome' = "none"
    BY <1>1, <1>2, <2>2
  <2>4. Reader' = Spot(Stage, Tail(want), Mark)
    BY <1>1, <1>2, ReaderNext DEF Stage, Mark
  <2>5. Reader' = Succ(Reader)
    BY <1>2, <2>2, <2>4, ReaderAt DEF Spot
  <2>6. Decoding'
    BY <1>1, <1>2, <1>3 DEF Decoding, NamesMatch, InNode, Mark, MarkOf
  <2>7. ~IsReturned(Reader)
    BY <1>1, <1>4 DEF IsReturned
  <2> QED
    BY <1>1, <1>2, <1>5, <2>3, <2>5, <2>6, <2>7, ReadInv
<1>6. CASE enc \notin {"start", "running", "done"}
  <2>1. enc \in {"cut", "failed"} /\ Item = T("junk")
    BY <1>1, <1>6, ReadFacts
  <2>2. Item # Head(want)
    <3>1. Head(want) \in Wanted
      BY <1>1, <1>2, HeadTailProperties
    <3>2. T("junk") \notin Wanted
      BY DEF Wanted, T
    <3> QED
      BY <2>1, <3>1, <3>2
  <2> QED
    BY <1>1, <1>3, <2>1, <2>2, ErrorInv
<1> QED
  BY <1>5, <1>6

\* What is known where next_entry looks at an item.
LEMMA AtFacts ==
  ASSUME NarInv, NEW where, At(where)
  PROVE  /\ Available /\ Read /\ want = <<>> /\ dec = where
         /\ outcome = "none" /\ wire # <<>> /\ Typed /\ WellFormed(tree)
         /\ Valid(Reader) /\ Decoding /\ frames \in Seq(Frames) /\ exec \in BOOLEAN
         /\ UNCHANGED <<tree, enc>>
         /\ enc \in {"start", "running", "done"} => Fits(Reader, Item)
         /\ enc \notin {"start", "running", "done"} =>
              enc \in {"cut", "failed"} /\ Item = T("junk") /\ where \in {"type", "attrs", "body", "name"}
<1>1. Available /\ Read /\ want = <<>> /\ dec = where
  BY DEF At
<1>2. UNCHANGED <<tree, enc>>
  BY <1>1 DEF Read, encVars
<1> QED
  BY <1>1, <1>2, ReadFacts

LEMMA PadOfNone == Pad(0) = 0
<1>1. Align \in Nat \ {0}
  BY NarAssumption
<1>2. 0 % Align = 0
  BY <1>1
<1>3. (Align - 0) % Align = 0
  BY <1>1
<1> QED
  BY <1>2, <1>3 DEF Pad

\* The tokens that next_entry looks for are not junk, and differ.
LEMMA TokensDiffer ==
  /\ T("directory") # T("regular") /\ T("directory") # T("symlink") /\ T("regular") # T("symlink")
  /\ T("executable") # T("contents") /\ T(")") # T("entry")
  /\ \A s \in {"directory", "regular", "symlink", "executable", "contents", ")", "entry"} : T(s) # T("junk")
BY DEF T

LEMMA DirectoryInv == ASSUME NarInv, Directory, Typed' PROVE NarInv'
<1>1. /\ At("type") /\ Item = T("directory") /\ pending \notin NotUtf8 /\ Returns([kind |-> "dir"])
      /\ frames' = Append(frames, [name |-> pending, last |-> 0]) /\ pending' = 0 /\ dec' = "body"
      /\ UNCHANGED <<want, exec, left, total, outcome>>
  BY DEF Directory
<1>2. /\ want = <<>> /\ dec = "type" /\ outcome = "none" /\ wire # <<>> /\ Read /\ Typed /\ WellFormed(tree)
      /\ Valid(Reader) /\ Decoding /\ frames \in Seq(Frames) /\ UNCHANGED <<tree, enc>>
  BY <1>1, AtFacts
<1>3. enc \in {"start", "running", "done"} /\ Fits(Reader, Item)
  BY <1>1, AtFacts, TokensDiffer
<1>4. Reader.at = "type" /\ Reader.want = <<>> /\ Reader.mark = Mark
  BY <1>2, ReaderAt
<1>5. tree[Mark].kind = "dir" /\ Succ(Reader) = Spot("body", <<>>, Append(Mark, 0))
  BY <1>1, <1>3, <1>4, SuccOf, TokensDiffer
<1>6. Mark \in DOMAIN tree /\ tree[Mark] = [kind |-> "dir"]
  <2>1. Mark \in DOMAIN tree
    BY <1>2, <1>4 DEF Valid, OfNode
  <2> QED
    BY <1>2, <1>5, <2>1, TreeNodes, KindsOfNodes
<1> DEFINE f == [name |-> pending, last |-> 0]
<1>7. f \in Frames /\ f.name = pending /\ f.last = 0
  BY <1>2, DecoderTypes DEF Frames, Typed
<1> HIDE DEF f
<1>8. MarkOf(frames') = Append(Mark, 0)
  BY <1>1, <1>2, <1>7, MarkPushed DEF Mark, f
<1>9. Reader' = Succ(Reader)
  BY <1>1, <1>2, <1>5, <1>8, ReaderNext
<1>10. Decoding'
  <2>1. /\ Len(frames') = Len(frames) + 1 /\ Len(frames) \in Nat /\ frames'[Len(frames) + 1] = f
        /\ \A i \in 1..Len(frames) : frames'[i] = frames[i]
    BY <1>1, <1>2, <1>7, AppendProperties DEF f
  <2>2. pending = (IF frames # <<>> THEN frames[Len(frames)].last ELSE 0) /\ NamesMatch(frames)
    BY <1>2 DEF Decoding, InNode, Last
  <2>3. frames = <<>> <=> Len(frames) = 0
    BY <1>2, EmptySeq
  <2>4. ASSUME NEW i \in 1..Len(frames')
        PROVE  frames'[i].name = (IF i = 1 THEN 0 ELSE frames'[i - 1].last)
    <3>1. CASE i \in 1..Len(frames)
      <4>1. frames'[i] = frames[i] /\ (i # 1 => frames'[i - 1] = frames[i - 1])
        BY <2>1, <3>1
      <4> QED
        BY <2>2, <3>1, <4>1 DEF NamesMatch
    <3>2. CASE i = Len(frames) + 1
      <4>1. frames'[i].name = pending /\ (i # 1 => frames'[i - 1] = frames[Len(frames)])
        BY <1>7, <2>1, <3>2
      <4>2. i = 1 <=> Len(frames) = 0
        BY <2>1, <3>2
      <4> QED
        BY <2>2, <2>3, <4>1, <4>2
    <3> QED
      BY <2>1, <3>1, <3>2
  <2>5. NamesMatch(frames')
    BY <2>4 DEF NamesMatch
  <2>6. ~InNode' /\ NamesMatch(frames)'
    BY <1>1, <2>5 DEF InNode, NamesMatch
  <2> QED
    BY <1>1, <2>6 DEF Decoding
<1>11. /\ IsReturned(Reader) /\ Decodable(Reader.mark)
       /\ entries' = Append(entries, <<Reader.mark, tree[Reader.mark]>>)
  <2>1. CurrentPath = Mark
    BY <1>2, <1>6, CurrentPathIs
  <2>2. Decodable(Mark)
    BY <1>1, <1>2, <1>5, <1>6, PendingIsLast DEF Decodable
  <2> QED
    BY <1>1, <1>4, <1>5, <1>6, <2>1, <2>2 DEF IsReturned, Returns
<1> QED
  BY <1>1, <1>2, <1>3, <1>9, <1>10, <1>11, ReadInv

LEMMA RegularInv == ASSUME NarInv, Regular, Typed' PROVE NarInv'
<1>1. /\ At("type") /\ Item = T("regular") /\ dec' = "attrs" /\ exec' = FALSE
      /\ UNCHANGED <<want, frames, pending, left, total, entries, outcome>>
  BY DEF Regular
<1>2. /\ want = <<>> /\ dec = "type" /\ outcome = "none" /\ wire # <<>> /\ Read /\ Typed /\ Decoding
      /\ enc \in {"start", "running", "done"} /\ Fits(Reader, Item)
  BY <1>1, AtFacts, TokensDiffer
<1>3. Reader.at = "type" /\ Reader.want = <<>> /\ Reader.mark = Mark
  BY <1>2, ReaderAt
<1>4. tree[Mark].kind = "file" /\ Succ(Reader) = Spot("attrs", <<>>, Mark)
  BY <1>1, <1>2, <1>3, SuccOf, TokensDiffer
<1>5. Reader' = Succ(Reader)
  BY <1>1, <1>2, <1>4, ReaderNext DEF Mark
<1>6. Decoding'
  BY <1>1, <1>2, DecodingStays DEF InNode
<1>7. ~IsReturned(Reader)
  BY <1>3, <1>4 DEF IsReturned
<1> QED
  BY <1>1, <1>2, <1>5, <1>6, <1>7, ReadInv

LEMMA SymlinkInv == ASSUME NarInv, Symlink, Typed' PROVE NarInv'
<1>1. /\ At("type") /\ Item = T("symlink") /\ dec' = "target" /\ want' = <<T("target")>>
      /\ UNCHANGED <<frames, pending, exec, left, total, entries, outcome>>
  BY DEF Symlink
<1>2. /\ want = <<>> /\ dec = "type" /\ outcome = "none" /\ wire # <<>> /\ Read /\ Typed /\ Decoding
      /\ enc \in {"start", "running", "done"} /\ Fits(Reader, Item)
  BY <1>1, AtFacts, TokensDiffer
<1>3. Reader.at = "type" /\ Reader.want = <<>> /\ Reader.mark = Mark
  BY <1>2, ReaderAt
<1>4. tree[Mark].kind = "link" /\ Succ(Reader) = Spot("target", <<T("target")>>, Mark)
  BY <1>1, <1>2, <1>3, SuccOf, TokensDiffer
<1>5. Reader' = Succ(Reader)
  BY <1>1, <1>2, <1>4, ReaderNext DEF Mark
<1>6. Decoding'
  BY <1>1, <1>2, DecodingStays DEF InNode
<1>7. ~IsReturned(Reader)
  BY <1>3, <1>4 DEF IsReturned
<1> QED
  BY <1>1, <1>2, <1>5, <1>6, <1>7, ReadInv

LEMMA AttributeInv == ASSUME NarInv, Attribute, Typed' PROVE NarInv'
<1>1. /\ At("attrs") /\ Item = T("executable") /\ exec' = TRUE /\ want' = <<T("")>>
      /\ UNCHANGED <<dec, frames, pending, left, total, entries, outcome>>
  BY DEF Attribute
<1>2. /\ want = <<>> /\ dec = "attrs" /\ outcome = "none" /\ wire # <<>> /\ Read /\ Typed /\ Decoding
      /\ enc \in {"start", "running", "done"} /\ Fits(Reader, Item)
  BY <1>1, AtFacts, TokensDiffer
<1>3. Reader.at \in {"attrs", "mode"} /\ Reader.want = <<>> /\ Reader.mark = Mark
  BY <1>2, ReaderAt
<1>4. Succ(Reader) = Spot("mode", <<T("")>>, Mark)
  BY <1>1, <1>2, <1>3, SuccOf, TokensDiffer
<1>5. Reader' = Succ(Reader)
  BY <1>1, <1>2, <1>4, ReaderNext DEF Mark
<1>6. Decoding'
  BY <1>1, <1>2, DecodingStays DEF InNode
<1>7. ~IsReturned(Reader)
  BY <1>3 DEF IsReturned
<1> QED
  BY <1>1, <1>2, <1>5, <1>6, <1>7, ReadInv

LEMMA ContentsInv == ASSUME NarInv, Contents, Typed' PROVE NarInv'
<1>1. /\ At("attrs") /\ Item = T("contents") /\ dec' = "len"
      /\ UNCHANGED <<want, frames, pending, exec, left, total, entries, outcome>>
  BY DEF Contents
<1>2. /\ want = <<>> /\ dec = "attrs" /\ outcome = "none" /\ wire # <<>> /\ Read /\ Typed /\ Decoding
      /\ enc \in {"start", "running", "done"} /\ Fits(Reader, Item) /\ Valid(Reader)
      /\ WellFormed(tree) /\ tree' = tree /\ exec \in BOOLEAN
  BY <1>1, AtFacts, TokensDiffer
<1>3. /\ Reader.at \in {"attrs", "mode"} /\ Reader.want = <<>> /\ Reader.mark = Mark
      /\ Reader.at = "mode" <=> exec
  BY <1>2, ReaderAt
<1>4. Mark \in DOMAIN tree /\ tree[Mark].kind = "file" /\ (Reader.at = "mode" => tree[Mark].exec)
  BY <1>2, <1>3 DEF Valid, OfNode
<1>5. Succ(Reader) = Spot("len", <<>>, Mark) /\ (Reader.at = "attrs" => ~tree[Mark].exec)
  BY <1>1, <1>2, <1>3, SuccOf, TokensDiffer
<1>6. Reader' = Succ(Reader)
  BY <1>1, <1>2, <1>5, ReaderNext DEF Mark
<1>7. Decoding'
  <2>1. tree[Mark].exec \in BOOLEAN
    BY <1>2, <1>4, TreeNodes, KindsOfNodes
  <2>2. exec = tree[Mark].exec
    BY <1>2, <1>3, <1>4, <1>5, <2>1
  <2>3. Mark' = Mark
    BY <1>1 DEF Mark, MarkOf
  <2>4. exec' = tree'[Mark'].exec
    BY <1>1, <1>2, <2>2, <2>3
  <2> QED
    BY <1>1, <1>2, <2>4 DEF Decoding, InNode, NamesMatch
<1>8. ~IsReturned(Reader)
  BY <1>3 DEF IsReturned
<1> QED
  BY <1>1, <1>2, <1>6, <1>7, <1>8, ReadInv

\* In and after the contents the reader is among the bytes that are left.
LEMMA DataNext ==
  ASSUME dec' = "data", NEW m, MarkOf(frames') = m
  PROVE  Reader' = Data(m, left' + Pad(total'))
BY DEF Reader, Mark, MarkOf, Data, Unclosed, Spot, Pad

LEMMA SkipNext ==
  ASSUME dec' = "skip", NEW m, MarkOf(frames') = m
  PROVE  Reader' = Data(m, left')
BY DEF Reader, Mark, MarkOf, Data, Unclosed, Spot

LEMMA LengthInv == ASSUME NarInv, Length, Typed' PROVE NarInv'
<1>1. /\ At("len") /\ pending \notin NotUtf8 /\ total' = Item[2] /\ left' = Item[2] /\ dec' = "data"
      /\ Returns([kind |-> "file", exec |-> exec, size |-> Item[2]])
      /\ UNCHANGED <<want, frames, pending, exec, outcome>>
  BY DEF Length
<1>2. /\ want = <<>> /\ dec = "len" /\ outcome = "none" /\ wire # <<>> /\ Read /\ Typed /\ Decoding
      /\ enc \in {"start", "running", "done"} /\ Fits(Reader, Item) /\ Valid(Reader) /\ WellFormed(tree)
  BY <1>1, AtFacts
<1>3. Reader.at = "len" /\ Reader.want = <<>> /\ Reader.mark = Mark
  BY <1>2, ReaderAt
<1>4. Mark \in DOMAIN tree /\ tree[Mark].kind = "file" /\ tree[Mark] \in Nodes
  BY <1>2, <1>3, TreeNodes DEF Valid, OfNode
<1>5. Item = <<"len", tree[Mark].size>>
      /\ Succ(Reader) = Data(Mark, tree[Mark].size + Pad(tree[Mark].size))
  BY <1>2, <1>3, SuccOf
<1>6. Item[2] = tree[Mark].size
  BY <1>5
<1>7. Reader' = Succ(Reader)
  BY <1>1, <1>5, <1>6, DataNext DEF Mark
<1>8. Decoding'
  BY <1>1, <1>2, DecodingStays DEF InNode
<1>9. /\ IsReturned(Reader) /\ Decodable(Reader.mark)
      /\ entries' = Append(entries, <<Reader.mark, tree[Reader.mark]>>)
  <2>1. CurrentPath = Mark
    BY <1>2, <1>4, CurrentPathIs
  <2>3. Decodable(Mark)
    BY <1>1, <1>2, <1>4, PendingIsLast DEF Decodable
  <2>2. tree[Mark] = [kind |-> "file", exec |-> exec, size |-> Item[2]]
    <3>1. exec = tree[Mark].exec
      BY <1>2 DEF Decoding
    <3>2. tree[Mark] = [kind |-> "file", exec |-> tree[Mark].exec, size |-> tree[Mark].size]
      BY <1>4, KindsOfNodes
    <3> QED
      BY <1>6, <3>1, <3>2
  <2> QED
    BY <1>1, <1>3, <2>1, <2>2, <2>3 DEF IsReturned, Returns
<1> QED
  BY <1>1, <1>2, <1>7, <1>8, <1>9, ReadInv

LEMMA TargetInv == ASSUME NarInv, Target, Typed' PROVE NarInv'
<1>1. /\ At("target") /\ Item # T("bytes") /\ pending \notin NotUtf8
      /\ Returns([kind |-> "link", target |-> Item[1]]) /\ dec' = "data"
      /\ UNCHANGED <<want, frames, pending, exec, left, total, outcome>>
  BY DEF Target
<1>2. /\ want = <<>> /\ dec = "target" /\ outcome = "none" /\ wire # <<>> /\ Read /\ Typed /\ Decoding
      /\ enc \in {"start", "running", "done"} /\ Fits(Reader, Item) /\ Valid(Reader) /\ WellFormed(tree)
  BY <1>1, AtFacts
<1>3. Reader.at = "target" /\ Reader.want = <<>> /\ Reader.mark = Mark
  BY <1>2, ReaderAt
<1>4. Item = T(tree[Mark].target) /\ Succ(Reader) = Unclosed(Mark)
  BY <1>2, <1>3, SuccOf
<1>5. /\ Mark \in DOMAIN tree /\ tree[Mark].kind = "link" /\ tree[Mark].target = "text"
      /\ tree[Mark] = [kind |-> "link", target |-> Item[1]]
  <2>1. Mark \in DOMAIN tree /\ tree[Mark] \in Nodes /\ tree[Mark].kind = "link"
    BY <1>2, <1>3, TreeNodes DEF Valid, OfNode
  <2>2. /\ tree[Mark].target \in {"text", "bytes"}
        /\ tree[Mark] = [kind |-> "link", target |-> tree[Mark].target]
    BY <2>1, KindsOfNodes
  <2>3. Item[1] = tree[Mark].target /\ tree[Mark].target # "bytes"
    BY <1>1, <1>4 DEF T
  <2> QED
    BY <2>1, <2>2, <2>3
<1>6. Reader' = Succ(Reader)
  <2>1. Reader' = Data(Mark, left' + Pad(total'))
    BY <1>1, DataNext DEF Mark
  <2>2. left = 0 /\ total = 0
    BY <1>2 DEF Typed, DecoderTyped
  <2>3. left' + Pad(total') = 0
    BY <1>1, <2>2, PadOfNone
  <2> QED
    BY <1>4, <2>1, <2>3 DEF Data
<1>7. Decoding'
  BY <1>1, <1>2, DecodingStays DEF InNode
<1>8. /\ IsReturned(Reader) /\ Decodable(Reader.mark)
      /\ entries' = Append(entries, <<Reader.mark, tree[Reader.mark]>>)
  <2>1. CurrentPath = Mark
    BY <1>2, <1>5, CurrentPathIs
  <2>2. Decodable(Mark)
    BY <1>1, <1>2, <1>5, PendingIsLast DEF Decodable
  <2> QED
    BY <1>1, <1>3, <1>5, <2>1, <2>2 DEF IsReturned, Returns
<1> QED
  BY <1>1, <1>2, <1>6, <1>7, <1>8, ReadInv

\* The bytes of a file, and those that next_entry skips.
LEMMA BytesInv == ASSUME NarInv, ReadData \/ Skip, Typed' PROVE NarInv'
<1>1. /\ Available /\ Read /\ dec \in {"data", "skip"} /\ left' = left - 1
      /\ UNCHANGED <<dec, want, frames, pending, exec, total, entries, outcome>>
  BY DEF ReadData, Skip
<1>2. /\ outcome = "none" /\ wire # <<>> /\ Typed /\ Decoding /\ tree' = tree
      /\ want = <<>> /\ left \in Nat \ {0} /\ total \in Nat
  BY <1>1, ReadFacts DEF Typed, DecoderTyped, Available, Reads, Read
<1>3. enc \in {"start", "running", "done"} /\ Fits(Reader, Item)
  BY <1>1, <1>2, ReadFacts
<1> DEFINE n == IF dec = "data" THEN left + Pad(total) ELSE left
<1>4. n \in Nat \ {0} /\ Reader = Data(Mark, n) /\ Reader' = Data(Mark, n - 1)
  <2>1. Pad(total) \in Nat
    BY <1>2, PadIsShort
  <2>2. CASE dec = "data"
    <3>1. Reader' = Data(Mark, (left - 1) + Pad(total)) /\ Reader = Data(Mark, left + Pad(total))
      BY <1>1, <2>2, DataNext DEF Mark, Reader
    <3>2. (left - 1) + Pad(total) = n - 1 /\ n = left + Pad(total) /\ n \in Nat \ {0}
      BY <1>2, <2>1, <2>2
    <3> QED
      BY <3>1, <3>2
  <2>3. CASE dec = "skip"
    <3>1. Reader' = Data(Mark, left - 1) /\ Reader = Data(Mark, left)
      BY <1>1, <2>3, SkipNext DEF Mark, Reader
    <3> QED
      BY <1>2, <2>3, <3>1
  <2> QED
    BY <1>1, <2>2, <2>3
<1> HIDE DEF n
<1>5. Reader = [at |-> "bytes", want |-> <<>>, mark |-> Mark, rest |-> n]
  BY <1>4 DEF Data
<1>6. Reader.at = "bytes" /\ Reader.want = <<>> /\ Reader.mark = Mark /\ Reader.rest = n
  BY <1>5
<1>7. Reader' = Succ(Reader)
  <2>1. Succ(Reader) = Data(Reader.mark, Reader.rest - 1)
    BY <1>3, <1>6, SuccOf
  <2> QED
    BY <1>4, <1>6, <2>1
<1>8. Decoding'
  BY <1>1, <1>2, DecodingStays DEF InNode
<1>9. ~IsReturned(Reader)
  BY <1>6 DEF IsReturned
<1> QED
  BY <1>1, <1>2, <1>3, <1>7, <1>8, <1>9, ReadInv

\* A step that reads nothing and leaves the reader where it is.
LEMMA StayInv ==
  ASSUME NarInv, outcome = "none", outcome' = "none", Typed', Reader' = Reader, Decoding',
         UNCHANGED <<tree, enc, dirs, file, wire, entries>>, Broken => Broken'
  PROVE  NarInv'
<1>1. InStep /\ EntriesOfTheTree
  BY DEF NarInv
<1>2. EntriesOfTheTree' /\ Returned' = Returned
  BY <1>1, EntriesStay
<1>3. Valid(Reader)' /\ (Returned = Visited(Reader))'
  BY <1>1, <1>2, SameGrammar DEF InStep
<1>4. enc' \in {"start", "running", "done"} => Sent(Reader, wire)'
  BY <1>1, SentStays DEF InStep
<1>5. InStep'
  BY <1>1, <1>3, <1>4 DEF InStep
<1> QED
  BY <1>2, <1>5 DEF NarInv, FinishedIsWhole, ErrorsHaveACause

LEMMA PollInv == ASSUME NarInv, Poll, Typed' PROVE NarInv'
<1>1. outcome = "none" /\ UNCHANGED <<tree, enc, dirs, file, wire, decVars>>
  BY DEF Poll, Reads
<1>2. Reader' = Reader /\ Decoding' = Decoding
  BY <1>1, DecoderStays
<1>3. Broken => Broken'
  BY <1>1, <1>2 DEF Broken, TheEnd, Spot, Junk, decVars
<1>4. Decoding /\ outcome' = "none" /\ entries' = entries
  BY <1>1 DEF NarInv, InStep, decVars
<1> QED
  BY <1>1, <1>2, <1>3, <1>4, StayInv

LEMMA NextEntryInv == ASSUME NarInv, NextEntry, Typed' PROVE NarInv'
<1>1. /\ outcome = "none" /\ dec = "data" /\ dec' = "skip" /\ left' = left + Pad(total)
      /\ UNCHANGED <<tree, enc, dirs, file, wire, want, frames, pending, exec, total, entries, outcome>>
  BY DEF NextEntry, UnreadPadded, encVars
<1>2. Typed /\ Decoding /\ want = <<>>
  BY <1>1 DEF NarInv, InStep, Typed, DecoderTyped
<1>3. Reader' = Reader
  BY <1>1, SkipNext DEF Mark, Reader
<1>4. Decoding'
  BY <1>1, <1>2, DecodingStays DEF InNode
<1>5. Broken => Broken'
  BY <1>1, <1>2, <1>3 DEF Broken, TheEnd, Spot, Junk
<1> QED
  BY <1>1, <1>3, <1>4, <1>5, StayInv

LEMMA CloseNodeInv == ASSUME NarInv, CloseNode, Typed' PROVE NarInv'
<1>1. /\ outcome = "none" /\ dec = "skip" /\ left = 0 /\ pending' = 0
      /\ want' = (IF frames = <<>> THEN Tokens(<<")">>) ELSE Tokens(<<")", ")">>))
      /\ dec' = (IF frames = <<>> THEN "end" ELSE "body")
      /\ UNCHANGED <<tree, enc, dirs, file, wire, frames, exec, left, entries, outcome>>
  BY DEF CloseNode, encVars
<1>2. Typed /\ Decoding /\ want = <<>> /\ frames \in Seq(Frames)
  BY <1>1 DEF NarInv, InStep, Typed, DecoderTyped
<1>3. Reader = Unclosed(Mark)
  BY <1>1 DEF Reader, Data
<1>4. Reader' = Reader
  <2>1. Mark = <<>> <=> frames = <<>>
    BY <1>2, MarkIsSeq DEF Mark
  <2>2. Reader' = Spot(dec', want', Mark)
    BY <1>1, ReaderNext DEF Mark
  <2>3. CASE frames = <<>>
    <3>1. want' = <<T(")")>> /\ dec' = "end" /\ Mark = <<>>
      BY <1>1, <2>1, <2>3, WantedAreItems
    <3> QED
      BY <1>3, <2>2, <3>1 DEF Unclosed
  <2>4. CASE frames # <<>>
    <3>1. want' = <<T(")"), T(")")>> /\ dec' = "body" /\ Mark # <<>>
      BY <1>1, <2>1, <2>4, WantedAreItems
    <3> QED
      BY <1>3, <2>2, <3>1 DEF Unclosed
  <2> QED
    BY <2>3, <2>4
<1>5. Decoding'
  BY <1>1, <1>2 DEF Decoding, NamesMatch, InNode
<1>6. Broken => Broken'
  BY <1>1, <1>2, <1>4 DEF Broken, TheEnd, Spot, Junk
<1> QED
  BY <1>1, <1>4, <1>5, <1>6, StayInv

LEMMA EntryInv == ASSUME NarInv, Entry, Typed' PROVE NarInv'
<1>1. /\ At("body") /\ Item = T("entry") /\ want' = Tokens(<<"(", "name">>) /\ dec' = "name"
      /\ UNCHANGED <<frames, pending, exec, left, total, entries, outcome>>
  BY DEF Entry
<1>2. /\ want = <<>> /\ dec = "body" /\ outcome = "none" /\ wire # <<>> /\ Read /\ Typed /\ Decoding
      /\ enc \in {"start", "running", "done"} /\ Fits(Reader, Item)
  BY <1>1, AtFacts, TokensDiffer
<1>3. Reader.at = "body" /\ Reader.want = <<>> /\ Reader.mark = Mark
  BY <1>2, ReaderAt
<1>4. Succ(Reader) = Spot("name", <<T("("), T("name")>>, Mark)
  BY <1>1, <1>2, <1>3, SuccOf, TokensDiffer
<1>5. want' = <<T("("), T("name")>>
  BY <1>1, WantedAreItems
<1>6. Reader' = Succ(Reader)
  BY <1>1, <1>2, <1>4, <1>5, ReaderNext DEF Mark
<1>7. Decoding'
  BY <1>1, <1>2, DecodingStays DEF InNode
<1>8. ~IsReturned(Reader)
  BY <1>3 DEF IsReturned
<1> QED
  BY <1>1, <1>2, <1>6, <1>7, <1>8, ReadInv

\* The name is the least that is left: it comes after the last one.
LEMMA NameInv == ASSUME NarInv, Name, Typed' PROVE NarInv'
<1>1. /\ At("name") /\ Item # T("junk") /\ pending' = Item[2] /\ frames' = [frames EXCEPT ![Len(frames)].last = Item[2]]
      /\ outcome' = (IF Item[2] > Last(frames).last THEN outcome ELSE "error")
      /\ want' = Tokens(<<"node", "(", "type">>) /\ dec' = "type"
      /\ UNCHANGED <<exec, left, total, entries>>
  BY DEF Name, ValidName, T
<1>2. /\ want = <<>> /\ dec = "name" /\ outcome = "none" /\ wire # <<>> /\ Read /\ Typed /\ Decoding
      /\ enc \in {"start", "running", "done"} /\ Fits(Reader, Item) /\ Valid(Reader)
      /\ WellFormed(tree) /\ frames \in Seq(Frames)
  BY <1>1, AtFacts
<1>3. Reader.at = "name" /\ Reader.want = <<>> /\ Reader.mark = Mark
  BY <1>2, ReaderAt
<1>4. /\ Mark \in Seq(Nat) /\ Mark # <<>> /\ NamesLeft(Mark) # {}
      /\ frames # <<>> /\ Last(Mark) = Last(frames).last
  BY <1>2, <1>3, MarkIsSeq DEF Valid, Mark
<1> DEFINE n == FirstOf(NamesLeft(Mark))
<1>5. /\ Item = <<"string", n>>
      /\ Succ(Reader) = Spot("type", <<T("node"), T("("), T("type")>>, Append(Front(Mark), n))
  BY <1>2, <1>3, SuccOf
<1>6. n \in Nat /\ n > Last(Mark)
  BY <1>2, <1>4, NextNameOfDir
<1> HIDE DEF n
<1>7. Item[2] = n /\ outcome' = "none"
  BY <1>1, <1>2, <1>4, <1>5, <1>6
<1>8. /\ MarkOf(frames') = Append(Front(Mark), n)
      /\ NamesMatch(frames') /\ frames' # <<>> /\ Last(frames').last = n
  BY <1>1, <1>2, <1>4, <1>6, <1>7, MarkRenamed DEF Mark, Decoding
<1>9. Reader' = Succ(Reader)
  BY <1>1, <1>5, <1>8, WantedAreItems, ReaderNext
<1>10. Decoding'
  BY <1>1, <1>7, <1>8 DEF Decoding, InNode, NamesMatch
<1>11. ~IsReturned(Reader)
  BY <1>3 DEF IsReturned
<1> QED
  BY <1>1, <1>2, <1>7, <1>9, <1>10, <1>11, ReadInv

\* The end: everything has been returned, and nothing more is to come.
LEMMA EndInv ==
  ASSUME NarInv, Typed', enc = "done", outcome' = "finished", wire' = <<>>,
         UNCHANGED <<tree, enc, entries>>, Returned = Visited(TheEnd)
  PROVE  NarInv'
<1>1. EntriesOfTheTree' /\ Returned' = Returned
  BY EntriesStay DEF NarInv
<1>2. WellFormed(tree)
  BY DEF NarInv, Typed, EncoderTyped
<1>3. Returned' = DOMAIN tree'
  BY <1>1, <1>2, VisitedAtTheEnds
<1> QED
  BY <1>1, <1>3 DEF NarInv, FinishedIsWhole, ErrorsHaveACause

LEMMA CloseDirectoryInv == ASSUME NarInv, CloseDirectory, Typed' PROVE NarInv'
<1>1. /\ At("body") /\ Item = T(")") /\ frames' = Front(frames)
      /\ IF Len(frames) = 1 THEN outcome' = "finished" /\ UNCHANGED want
                            ELSE want' = <<T(")")>> /\ UNCHANGED outcome
      /\ UNCHANGED <<dec, pending, exec, left, total, entries>>
  BY DEF CloseDirectory
<1>2. /\ want = <<>> /\ dec = "body" /\ outcome = "none" /\ wire # <<>> /\ Read /\ Typed /\ Decoding
      /\ enc \in {"start", "running", "done"} /\ Fits(Reader, Item) /\ Valid(Reader)
      /\ WellFormed(tree) /\ frames \in Seq(Frames) /\ UNCHANGED <<tree, enc>>
  BY <1>1, AtFacts, TokensDiffer
<1>3. Reader.at = "body" /\ Reader.want = <<>> /\ Reader.mark = Mark
  BY <1>2, ReaderAt
<1>4. Mark \in Seq(Nat) /\ Mark # <<>> /\ frames # <<>> /\ Len(Mark) = Len(frames)
  BY <1>2, <1>3, MarkIsSeq DEF Valid, Mark
<1>5. Succ(Reader) = (IF Len(Mark) = 1 THEN TheEnd ELSE Spot("body", <<T(")")>>, Front(Mark)))
  BY <1>1, <1>2, <1>3, SuccOf, TokensDiffer
<1>6. ~IsReturned(Reader)
  BY <1>3 DEF IsReturned
<1>7. CASE Len(frames) = 1
  <2>1. outcome' = "finished" /\ Succ(Reader) = TheEnd
    BY <1>1, <1>4, <1>5, <1>7
  <2>2. Returned = Visited(TheEnd)
    BY <1>2, <1>6, <2>1, VisitedSucc DEF NarInv, InStep
  <2>3. Sent(TheEnd, Tail(wire)) /\ Tail(wire) \in Seq(Items)
    BY <1>2, <2>1, SentFits, ItemIsItem DEF NarInv, InStep, Typed
  <2>4. wire' = Tail(wire)
    BY <1>2 DEF Read
  <2>5. enc = "done" /\ wire' = <<>>
    <3>1. ASSUME enc = "start" PROVE FALSE
      <4>1. Outset = TheEnd
        BY <2>3, <3>1, EndLeadsNowhere DEF Sent
      <4> QED
        BY <4>1 DEF Outset, TheEnd, Spot
    <3>2. ASSUME enc = "running" PROVE FALSE
      <4>1. PICK m : m # <<>> /\ Leads(TheEnd, Tail(wire), Writer(m))
        BY <2>3, <3>2 DEF Sent
      <4>2. Writer(m) = TheEnd
        BY <2>3, <4>1, EndLeadsNowhere
      <4>3. Writer(m).at \in {"body", "bytes"}
        BY <4>1 DEF Writer, Data, Unclosed, Spot
      <4> QED
        BY <4>2, <4>3 DEF TheEnd, Spot
    <3>3. enc = "done"
      BY <1>2, <3>1, <3>2
    <3> QED
      BY <2>3, <2>4, <3>3, EndLeadsNowhere DEF Sent
  <2> QED
    BY <1>1, <1>2, <2>1, <2>2, <2>5, EndInv
<1>8. CASE Len(frames) # 1
  <2>1. want' = <<T(")")>> /\ outcome' = "none" /\ Succ(Reader) = Spot("body", <<T(")")>>, Front(Mark))
    BY <1>1, <1>2, <1>4, <1>5, <1>8
  <2>2. MarkOf(frames') = Front(Mark) /\ NamesMatch(frames')
    BY <1>1, <1>2, <1>4, MarkPopped DEF Mark, Decoding
  <2>3. Reader' = Succ(Reader)
    BY <1>1, <1>2, <2>1, <2>2, ReaderNext
  <2>4. Decoding'
    BY <1>1, <1>2, <2>2 DEF Decoding, InNode, NamesMatch
  <2> QED
    BY <1>1, <1>2, <1>6, <2>1, <2>3, <2>4, ReadInv
<1> QED
  BY <1>7, <1>8

LEMMA RootClosedInv == ASSUME NarInv, RootClosed, Typed' PROVE NarInv'
<1>1. /\ outcome = "none" /\ dec = "end" /\ want = <<>> /\ outcome' = "finished"
      /\ UNCHANGED <<tree, enc, wire, entries>>
  BY DEF RootClosed, encVars
<1>2. Typed /\ InStep
  BY <1>1 DEF NarInv
<1>3. Reader = TheEnd
  <2>1. Reader = Spot("end", <<>>, Mark) /\ Reader.at = "end" /\ Reader.mark = Mark
    BY <1>1, <1>2, ReaderAt DEF Stage
  <2>2. Mark = <<>>
    BY <1>2, <2>1 DEF InStep, Valid
  <2> QED
    BY <2>1, <2>2 DEF TheEnd
<1>4. enc \in {"start", "running", "done"}
  BY <1>2, <1>3 DEF InStep, Broken, Typed, EncoderTyped
<1>5. enc = "done" /\ wire = <<>>
  BY <1>2, <1>3, <1>4, NotAtTheEnd DEF InStep
<1> QED
  BY <1>1, <1>2, <1>3, <1>5, EndInv DEF InStep

\* The end of the stream comes too early only when it was cut.
LEMMA StarvedInv == ASSUME NarInv, Starved, Typed' PROVE NarInv'
<1>1. /\ Reads /\ wire = <<>> /\ outcome' = "error" /\ outcome = "none" /\ enc \in {"done", "cut", "failed"}
      /\ UNCHANGED <<tree, enc, entries>>
  BY DEF Starved, Reads, EofIs, encVars
<1>2. Typed /\ InStep
  BY <1>1 DEF NarInv
<1>3. enc # "done"
  <2> SUFFICES ASSUME enc = "done" PROVE FALSE
    OBVIOUS
  <2>1. Leads(Reader, <<>>, TheEnd)
    BY <1>1, <1>2 DEF InStep, Sent
  <2>2. Reader = TheEnd
    BY <2>1, NothingLeads
  <2>3. TheEnd.at = "end" /\ TheEnd.want = <<>>
    BY DEF TheEnd, Spot
  <2>4. CASE dec \in {"data", "skip"}
    <3>1. \E k : Reader = Data(Mark, k)
      BY <2>4 DEF Reader
    <3> QED
      BY <2>2, <2>3, <3>1 DEF Data, Unclosed, Spot
  <2>5. CASE dec \notin {"data", "skip"}
    <3>1. Stage = "end" /\ want = <<>>
      BY <1>2, <2>2, <2>3, <2>5, ReaderAt
    <3>2. dec = "end"
      BY <1>2, <2>5, <3>1, ReaderAt
    <3>3. left = 0
      BY <1>2, <2>5 DEF Typed, DecoderTyped
    <3> QED
      BY <1>1, <3>1, <3>2, <3>3 DEF Reads
  <2> QED
    BY <2>4, <2>5
<1> QED
  BY <1>1, <1>3, ErrorInv

LEMMA UnexpectedInv == ASSUME NarInv, Unexpected, Typed' PROVE NarInv'
<1>1. /\ \/ At("type") /\ Item \notin {T("directory"), T("regular"), T("symlink")}
         \/ At("attrs") /\ Item \notin {T("executable"), T("contents")}
         \/ At("body") /\ Item \notin {T(")"), T("entry")}
         \/ At("name") /\ Item[1] # "string"
      /\ outcome' = "error" /\ entries' = entries
  BY DEF Unexpected, ValidName
<1>2. PICK where \in {"type", "attrs", "body", "name"} : At(where)
  BY <1>1
<1>3. /\ want = <<>> /\ dec = where /\ Typed /\ UNCHANGED <<tree, enc>>
      /\ enc \in {"start", "running", "done"} => Fits(Reader, Item)
      /\ enc \notin {"start", "running", "done"} => enc \in {"cut", "failed"}
  BY <1>2, AtFacts
<1>4. Reader.want = <<>> /\ (Reader.at = where \/ (where = "attrs" /\ Reader.at = "mode"))
  BY <1>2, <1>3, ReaderAt
<1>5. enc \notin {"start", "running", "done"}
  <2> SUFFICES ASSUME Fits(Reader, Item) PROVE FALSE
    BY <1>3
  <2>1. CASE where = "type"
    <3>1. Item \in {T("directory"), T("regular"), T("symlink")}
      BY <1>4, <2>1, SuccOf
    <3> QED
      BY <1>1, <1>3, <2>1, <3>1 DEF At
  <2>2. CASE where = "attrs"
    <3>1. Item \in {T("executable"), T("contents")}
      BY <1>4, <2>2, SuccOf
    <3> QED
      BY <1>1, <1>3, <2>2, <3>1 DEF At
  <2>3. CASE where = "body"
    <3>1. Item \in {T(")"), T("entry")}
      BY <1>4, <2>3, SuccOf
    <3> QED
      BY <1>1, <1>3, <2>3, <3>1 DEF At
  <2>4. CASE where = "name"
    <3>1. Item = <<"string", FirstOf(NamesLeft(Reader.mark))>>
      BY <1>4, <2>4, SuccOf
    <3>2. Item[1] = "string"
      BY <3>1
    <3> QED
      BY <1>1, <1>3, <2>4, <3>2 DEF At
  <2> QED
    BY <2>1, <2>2, <2>3, <2>4
<1> QED
  BY <1>1, <1>3, <1>5, ErrorInv

\* The node that is next, if it cannot be an entry, is a cause.
LEMMA FoundCause ==
  ASSUME NEW m \in DOMAIN tree, ~Decodable(m), Returned = {q \in DOMAIN tree : Before(q, m)},
         UNCHANGED <<tree, entries>>
  PROVE  ErrorsHaveACause'
<1>1. Returned' = Returned
  BY DEF Returned
<1>2. ~Decodable(m)'
  BY DEF Decodable
<1>3. \A q : Before(q, m)' <=> Before(q, m)
  BY DEF Before
<1> QED
  BY <1>1, <1>2, <1>3 DEF ErrorsHaveACause

\* The name or target that is not UTF-8 is that of the node which is next.
LEMMA UndecodableInv == ASSUME NarInv, Undecodable, Typed' PROVE NarInv'
<1>1. /\ \/ At("type") /\ Item = T("directory") /\ pending \in NotUtf8
         \/ At("len") /\ pending \in NotUtf8
         \/ At("target") /\ (Item = T("bytes") \/ pending \in NotUtf8)
      /\ outcome' = "error" /\ UNCHANGED entries
  BY DEF Undecodable
<1>2. PICK where \in {"type", "len", "target"} : At(where)
  BY <1>1
<1>3. /\ want = <<>> /\ dec = where /\ outcome = "none" /\ Typed /\ WellFormed(tree) /\ UNCHANGED <<tree, enc>>
      /\ Valid(Reader) /\ Decoding /\ InStep /\ EntriesOfTheTree
      /\ enc \in {"start", "running", "done"} => Fits(Reader, Item)
      /\ enc \notin {"start", "running", "done"} => enc \in {"cut", "failed"}
  BY <1>2, AtFacts DEF NarInv
<1>4. Reader.want = <<>> /\ Reader.at = where /\ Reader.mark = Mark
  BY <1>3, ReaderAt
<1>5. CASE enc \notin {"start", "running", "done"}
  BY <1>1, <1>3, <1>5, ErrorInv
<1>6. CASE enc \in {"start", "running", "done"}
  <2>1. Fits(Reader, Item) /\ Mark \in DOMAIN tree /\ tree[Mark] \in Nodes
    BY <1>3, <1>4, <1>6, TreeNodes DEF Valid, OfNode
  <2>2. Returned = {p \in DOMAIN tree : Before(p, Mark)}
    BY <1>3, <1>4 DEF InStep, Visited, OfNode
  <2>3. ~Decodable(Mark)
    <3>1. CASE pending \in NotUtf8
      <4>1. pending # 0
        BY <3>1, NarAssumption
      <4>2. Mark # <<>> /\ Last(Mark) = pending
        BY <1>3, <2>1, <4>1, PendingIsLast
      <4> QED
        BY <3>1, <4>2 DEF Decodable
    <3>2. CASE where = "target" /\ Item = T("bytes")
      <4>1. tree[Mark].kind = "link" /\ T(tree[Mark].target) = T("bytes")
        BY <1>3, <1>4, <2>1, <3>2, SuccOf DEF Valid
      <4>2. tree[Mark].target = "bytes"
        BY <4>1 DEF T
      <4> QED
        BY <4>1, <4>2 DEF Decodable
    <3> QED
      BY <1>1, <1>3, <3>1, <3>2 DEF At
  <2>4. EntriesOfTheTree' /\ Returned' = Returned
    BY <1>1, <1>3, EntriesStay
  <2>5. ErrorsHaveACause'
    <3>1. PICK m : m = Mark
      OBVIOUS
    <3> QED
      BY <1>1, <1>3, <2>1, <2>2, <2>3, <3>1, FoundCause
  <2> QED
    BY <1>1, <2>4, <2>5 DEF NarInv, FinishedIsWhole
<1> QED
  BY <1>5, <1>6

-----------------------------------------------------------------------------
\* A root that is no directory has its whole archive on the wire from the start.
LEMMA RootArchiveLeads ==
  ASSUME WellFormed(tree), tree[<<>>].kind # "dir"
  PROVE  Leads(Outset, RootArchive(tree[<<>>]), TheEnd)
<1> DEFINE root == <<>>
           node == tree[<<>>]
           u == <<T("nix-archive-1")>>
           h == Header(tree[<<>>], FALSE)
           start == Spot("type", <<T("("), T("type")>>, <<>>)
<1>1. /\ root \in DOMAIN tree /\ node \in Nodes /\ node.kind \in {"file", "link"}
      /\ node.kind = "file" => node.size \in Nat
  <2>1. <<>> \in DOMAIN tree
    BY DEF WellFormed
  <2>2. node \in Nodes /\ node.kind # "other"
    BY <2>1, TreeNodes
  <2> QED
    BY <2>1, <2>2, KindsOfNodes
<1>2. u \in Seq(Items) /\ Len(u) = 1 /\ u[1] = T("nix-archive-1")
  BY TokenIsItem DEF Symbols
<1>3. h \in Seq(Items)
  BY <1>1, HeaderIsItems
<1>4. Leads(start, h, Headed(<<>>))
  <2>1. Leads(start, Header(tree[root], root # <<>>), Headed(root))
    <3> HIDE DEF root
    <3>1. tree[root].kind # "other"
      BY <1>1 DEF root
    <3>2. start = Spot("type", <<T("("), T("type")>>, root)
      BY DEF root
    <3> QED
      BY <1>1, <3>1, <3>2, HeaderLeads
  <2>2. (root # <<>>) = FALSE
    OBVIOUS
  <2> QED
    BY <2>1, <2>2
<1> HIDE DEF u, h, start
<1>5. Leads(Outset, u, start)
  BY <1>2, TakesThree, LeadsOne DEF Outset, start
<1>6. Leads(Outset, u \o h, Headed(<<>>)) /\ u \o h \in Seq(Items)
  BY <1>2, <1>3, <1>4, <1>5, LeadsConcat, ConcatProperties
<1>7. CASE node.kind = "link"
  <2>1. Headed(<<>>) = TheEnd
    BY <1>7 DEF Headed
  <2>2. Leads(Outset, (u \o h) \o <<>>, TheEnd)
    BY <1>6, <2>1, EmptyItems, LeadsNowhere, LeadsConcat
  <2>3. RootArchive(tree[<<>>]) = (u \o h) \o <<>>
    BY <1>7 DEF RootArchive, u, h
  <2> QED
    BY <2>2, <2>3
<1>8. CASE node.kind = "file"
  <2> DEFINE n == tree[<<>>].size
             pad == Pad(tree[<<>>].size)
             b == [i \in 1..n |-> Byte]
             z == Zeros(pad)
             c == <<T(")")>>
  <2>1. n \in Nat /\ pad \in Nat
    BY <1>1, <1>8, PadIsShort
  <2>2. Headed(<<>>) = Data(<<>>, n + pad)
    BY <1>8 DEF Headed
  <2>3. RootArchive(tree[<<>>]) = (u \o h) \o (b \o z \o c)
    BY <1>8 DEF RootArchive, u, h
  <2> HIDE DEF n, pad
  <2>4. b \in Seq(Items) /\ Len(b) = n /\ z \in Seq(Items) /\ Len(z) = pad
    BY <2>1, BytesAreItems
  <2> HIDE DEF b, z
  <2>5. Leads(Data(<<>>, n + pad), b, Data(<<>>, pad))
    BY <2>1, <2>4, BytesLead
  <2>6. Leads(Data(<<>>, pad), z, Data(<<>>, 0))
    <3>1. pad = pad + 0
      BY <2>1
    <3> QED
      BY <2>1, <2>4, <3>1, BytesLead
  <2>7. Leads(Data(<<>>, 0), c, TheEnd) /\ c \in Seq(Items)
    <3>1. Data(<<>>, 0) = Spot("end", <<T(")")>>, <<>>)
      BY DEF Data, Unclosed
    <3>2. c \in Seq(Items) /\ Len(c) = 1 /\ c[1] = T(")")
      BY CloseIsItems
    <3> HIDE DEF c
    <3> QED
      BY <3>1, <3>2, TakesOne, LeadsOne DEF TheEnd
  <2> HIDE DEF c
  <2>8. Leads(Data(<<>>, n + pad), b \o z, Data(<<>>, 0)) /\ b \o z \in Seq(Items)
    BY <2>4, <2>5, <2>6, LeadsConcat, ConcatProperties
  <2>9. Leads(Data(<<>>, n + pad), b \o z \o c, TheEnd) /\ b \o z \o c \in Seq(Items)
    BY <2>7, <2>8, LeadsConcat, ConcatProperties
  <2>10. Leads(Outset, (u \o h) \o (b \o z \o c), TheEnd)
    <3>1. Leads(Outset, u \o h, Data(<<>>, n + pad))
      BY <1>6, <2>2
    <3> QED
      BY <1>6, <2>9, <3>1, LeadsConcat
  <2> QED
    BY <2>3, <2>10
<1> QED
  BY <1>1, <1>7, <1>8

LEMMA InitNar == Init => NarInv
<1> SUFFICES ASSUME Init PROVE NarInv
  OBVIOUS
<1>1. Typed /\ WellFormed(tree)
  BY InitTyped DEF Typed, EncoderTyped
<1>2. /\ dec = "type" /\ want = Tokens(<<"nix-archive-1", "(", "type">>)
      /\ frames = <<>> /\ pending = 0 /\ exec = FALSE /\ entries = <<>> /\ outcome = "none"
  BY DEF Init
<1>3. Mark = <<>>
  BY <1>2 DEF Mark, MarkOf
<1>4. want = <<T("nix-archive-1"), T("("), T("type")>>
  BY <1>2, Tokens3
<1>5. Reader = Outset
  BY <1>1, <1>2, <1>3, <1>4, ReaderAt DEF Stage, Outset
<1>6. Valid(Outset)
  <2>1. want \in Seq(Wanted) /\ <<>> \in DOMAIN tree /\ <<>> \in Seq(Nat)
    BY <1>1 DEF Typed, DecoderTyped, WellFormed
  <2> DEFINE root == <<>>
  <2>2. root \in DOMAIN tree /\ root \in Seq(Nat)
    BY <2>1
  <2>3. Outset = Spot("type", want, root)
    BY <1>4 DEF Outset
  <2> HIDE DEF root
  <2>4. Valid(Spot("type", want, root))
    BY <2>1, <2>2, ValidSpot
  <2> QED
    BY <2>3, <2>4
<1>7. Decoding
  BY <1>2 DEF Decoding, NamesMatch
<1>8. EntriesOfTheTree /\ Returned = {}
  BY <1>2 DEF EntriesOfTheTree, Returned
<1>9. Returned = Visited(Reader)
  BY <1>1, <1>5, <1>8, VisitedAtTheEnds
<1>10. enc \in {"start", "done"} /\ Sent(Reader, wire)
  <2>1. CASE tree[<<>>].kind = "dir"
    <3>1. enc = "start" /\ wire = <<>>
      BY <2>1 DEF Init
    <3> QED
      BY <1>5, <3>1, LeadsNowhere DEF Sent
  <2>2. CASE tree[<<>>].kind # "dir"
    <3>1. enc = "done" /\ wire = RootArchive(tree[<<>>])
      BY <2>2 DEF Init
    <3> QED
      BY <1>1, <1>5, <2>2, <3>1, RootArchiveLeads DEF Sent
  <2> QED
    BY <2>1, <2>2
<1>11. InStep
  BY <1>5, <1>6, <1>7, <1>9, <1>10 DEF InStep
<1> QED
  BY <1>1, <1>2, <1>8, <1>11 DEF NarInv, FinishedIsWhole, ErrorsHaveACause

LEMMA StepNar == NarInv /\ [Next]_vars => NarInv'
<1> SUFFICES ASSUME NarInv, [Next]_vars PROVE NarInv'
  OBVIOUS
<1>1. Typed'
  BY StepTyped DEF NarInv
<1>2. CASE Encoder \/ Shrunk \/ Cut
  BY <1>2, EncoderInv
<1>3. CASE Decoder
  <2>1. CASE Poll \/ Starved \/ Expect
    BY <1>1, <2>1, PollInv, StarvedInv, ExpectInv
  <2>2. CASE Directory \/ Regular \/ Attribute \/ Contents \/ Length \/ Symlink \/ Target
    BY <1>1, <2>2, DirectoryInv, RegularInv, AttributeInv, ContentsInv, LengthInv, SymlinkInv, TargetInv
  <2>3. CASE ReadData \/ NextEntry \/ Skip \/ CloseNode \/ RootClosed
    BY <1>1, <2>3, BytesInv, NextEntryInv, CloseNodeInv, RootClosedInv
  <2>4. CASE CloseDirectory \/ Entry \/ Name \/ Unexpected \/ Undecodable
    BY <1>1, <2>4, CloseDirectoryInv, EntryInv, NameInv, UnexpectedInv, UndecodableInv
  <2> QED
    BY <1>3, <2>1, <2>2, <2>3, <2>4 DEF Decoder
<1>4. CASE UNCHANGED vars
  <2>1. UNCHANGED <<tree, decVars>> /\ UNCHANGED <<enc, dirs, file, wire>>
    BY <1>4 DEF vars, encVars
  <2>2. /\ Reader' = Reader /\ Decoding' = Decoding /\ Returned' = Returned
        /\ EntriesOfTheTree' /\ outcome' = outcome /\ entries' = entries
    BY <2>1, DecoderStays DEF NarInv, decVars
  <2>3. CASE outcome = "none"
    <3>1. Broken => Broken'
      BY <2>1, <2>2 DEF Broken, TheEnd, Spot, Junk, decVars
    <3>2. Decoding'
      BY <2>2, <2>3 DEF NarInv, InStep
    <3> QED
      BY <1>1, <2>1, <2>2, <2>3, <3>1, <3>2, StayInv
  <2>4. CASE outcome # "none"
    <3>1. ErrorsHaveACause'
      BY <2>1, <2>2, CauseStays DEF NarInv
    <3> QED
      BY <1>1, <2>1, <2>2, <2>4, <3>1 DEF NarInv, FinishedIsWhole
  <2> QED
    BY <2>3, <2>4
<1> QED
  BY <1>2, <1>3, <1>4 DEF Next

(* The inductive invariant: as long as there is no outcome, the reader is   *)
(* at a place of the archive, has returned the nodes before it, and what is *)
(* on the wire leads from there to where the encoder is (nar.rs:64-191,     *)
(* lib.rs:122-286).                                                         *)
THEOREM NarInvariant == SafeSpec => []NarInv
BY InitNar, StepNar, PTL DEF SafeSpec

(* Whatever the tree, whatever of it is listed, however large its files and  *)
(* however the caller reads them, next_entry returns the nodes in depth-     *)
(* first pre-order, each at its own path and with its own kind, mode, size   *)
(* and target, and no node whose name or target is not UTF-8                 *)
(* (lib.rs:122-286): an archive that DirNar writes, chunk by chunk, is read  *)
(* back as it was.                                                           *)
THEOREM EntriesOfTheTreeCorrect == SafeSpec => []EntriesOfTheTree
<1>1. NarInv => EntriesOfTheTree
  BY DEF NarInv
<1> QED
  BY <1>1, NarInvariant, PTL

(* next_entry says Ok(None) only when every node that read_dir listed has    *)
(* been returned and every byte of a whole archive has been read             *)
(* (lib.rs:212-219, 277-280); entries that read_dir failed on are no part of *)
(* the archive (nar.rs:73).                                                  *)
THEOREM FinishedIsWholeCorrect == SafeSpec => []FinishedIsWhole
<1>1. NarInv => FinishedIsWhole
  BY DEF NarInv
<1> QED
  BY <1>1, NarInvariant, PTL

(* An archive that was neither cut nor given up by DirNar is refused only at *)
(* the first node whose name or target is not UTF-8, with all the nodes      *)
(* before it returned: for no name's order, no attribute, no padding         *)
(* (nar.rs:64-191, lib.rs:122-312).                                          *)
THEOREM ErrorsHaveACauseCorrect == SafeSpec => []ErrorsHaveACause
<1>1. NarInv => ErrorsHaveACause
  BY DEF NarInv
<1> QED
  BY <1>1, NarInvariant, PTL

=============================================================================
