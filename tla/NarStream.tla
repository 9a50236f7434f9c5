------------------------------ MODULE NarStream ------------------------------
(***************************************************************************)
(* A directory tree through a NAR stream: the encoder DirNar of            *)
(* host/src/nar.rs, polled by the decoder NarDecoder of nar-to-erofs,      *)
(* whose entries write_nar takes, as the task that packs a flake input     *)
(* (tasks/eval.rs:74-85) composes them.                                    *)
(*                                                                         *)
(* A tree maps paths (sequences of names, names are numbers so that they   *)
(* have an order) to nodes.  An item of the stream is a length-prefixed    *)
(* string with its padding, or one byte of a file's contents or of their   *)
(* padding; a file's size counts such bytes.  A NAR whose root is a file   *)
(* comes from elsewhere (a binary cache): DirNar is only given             *)
(* directories.  The stream may be cut, a file may shrink or be of a kind  *)
(* DirNar refuses, and an entry of a directory may not be read: it and     *)
(* what is below it are then left out.  DirNar sends names and targets as  *)
(* the bytes they are; NarDecoder wants UTF-8.                             *)
(***************************************************************************)
EXTENDS Naturals, Sequences, SequencesExt

CONSTANTS Trees,    \* the trees there may be on disk
          NotUtf8,  \* the names that are not UTF-8
          Cap,      \* the size at which DirNar::advance stops (256 KiB in the code)
          Align     \* the alignment of contents (8 in the code)

\* The target of a link is UTF-8 text or other bytes.
Nodes == {[kind |-> "dir"], [kind |-> "other"]}
           \cup [kind : {"link"}, target : {"text", "bytes"}]
           \cup [kind : {"file"}, exec : BOOLEAN, size : Nat]

\* Every path above a node is a directory of the tree.
WellFormed(t) ==
    /\ <<>> \in DOMAIN t /\ t[<<>>].kind # "other"
    /\ \A p \in DOMAIN t :
         /\ p \in Seq(Nat \ {0}) /\ t[p] \in Nodes
         /\ \A k \in 0..(Len(p) - 1) :
              SubSeq(p, 1, k) \in DOMAIN t /\ t[SubSeq(p, 1, k)].kind = "dir"

ASSUME NarAssumption ==
    /\ Cap \in Nat \ {0} /\ Align \in Nat \ {0} /\ NotUtf8 \subseteq Nat \ {0}
    /\ \A t \in Trees : WellFormed(t)

\* What read_dir lists of a tree: entries that could not be read are passed over.
\* Each directory is listed once, so the model settles at the start what it shows.
Listings(t) ==
    {[p \in kept |-> t[p]] :
        kept \in {D \in SUBSET DOMAIN t :
                    /\ <<>> \in D
                    /\ \A p \in D : \A k \in 0..(Len(p) - 1) : SubSeq(p, 1, k) \in D}}

VARIABLES
    source,   \* the tree on disk
    tree,     \* what read_dir lists of it: the tree being sent
    \* DirNar
    enc,      \* "start", "running", "done", "failed"; "cut" if the stream was
    dirs,     \* stack: the directories open, with the names still to send
    file,     \* FileState: whether a file is open, its size, its bytes left
    filling,  \* whether a poll_read is inside advance()
    wire,     \* pending[pos..]
    \* NarDecoder and its caller
    dec,      \* where next_entry is
    want,     \* the tokens it expects before it gets there
    frames,   \* the DirFrames: name, last_name
    pending,  \* name of the entry being descended into (0: none)
    exec,     \* whether the file is executable
    left,     \* data_remaining; once skipping, the contents and padding left
    total,    \* data_total
    entries,  \* the entries next_entry has returned
    outcome   \* "none", "finished" or "error"

encVars == <<enc, dirs, file, filling>>
decVars == <<dec, want, frames, pending, exec, left, total, entries, outcome>>
vars == <<source, tree, encVars, wire, decVars>>

-----------------------------------------------------------------------------
(* The format.                                                             *)

T(s) == <<s, 0>>
Tokens(ss) == [i \in DOMAIN ss |-> T(ss[i])]
Byte == <<"byte", 0>>
Pad(n) == (Align - (n % Align)) % Align
Zeros(n) == [i \in 1..n |-> <<"zero", 0>>]

NoFile == [open |-> FALSE, size |-> 0, left |-> 0]

\* descend(): what it writes for a node.
Header(node, wrapped) ==
    CASE node.kind = "dir" -> Tokens(<<"(", "type", "directory">>)
      [] node.kind = "file" ->
           Tokens(<<"(", "type", "regular">>)
             \o (IF node.exec THEN Tokens(<<"executable", "">>) ELSE <<>>)
             \o <<T("contents"), <<"len", node.size>>>>
      [] node.kind = "link" ->
           Tokens(<<"(", "type", "symlink", "target", node.target, ")">>)
             \o (IF wrapped THEN <<T(")")>> ELSE <<>>)

Names(path) == {Last(p) : p \in {q \in DOMAIN tree : q # <<>> /\ Front(q) = path}}

\* The next of some names: as read_dir has them (a mutant), and sorted.
FirstRead(names) == CHOOSE n \in names : \A m \in names : n >= m
FirstOf(names) == CHOOSE n \in names : \A m \in names : n <= m

\* The whole archive of a root that is no directory.
RootArchive(node) ==
    <<T("nix-archive-1")>> \o Header(node, FALSE)
      \o (IF node.kind = "file"
          THEN [i \in 1..node.size |-> Byte] \o Zeros(Pad(node.size)) \o <<T(")")>>
          ELSE <<>>)

Init ==
    /\ source \in Trees /\ tree \in Listings(source)
    /\ IF tree[<<>>].kind = "dir"
       THEN enc = "start" /\ wire = <<>>
       ELSE enc = "done" /\ wire = RootArchive(tree[<<>>])
    /\ dirs = <<>> /\ file = NoFile /\ filling = FALSE
    /\ dec = "type" /\ want = Tokens(<<"nix-archive-1", "(", "type">>)
    /\ frames = <<>> /\ pending = 0 /\ exec = FALSE /\ left = 0 /\ total = 0
    /\ entries = <<>> /\ outcome = "none"

-----------------------------------------------------------------------------
(* DirNar.                                                                 *)

Filling == filling /\ enc \in {"start", "running"} /\ Len(wire) < Cap

\* poll_read returns the error and none of what is pending.
Fails == enc' = "failed" /\ filling' = FALSE /\ wire' = <<>>

\* descend(path, wrapped), after the tokens before it.
Descend(path, before) ==
    LET node == tree[path]
    IN IF node.kind = "other"
       THEN Fails /\ UNCHANGED file
       ELSE /\ enc' = "running"
            /\ wire' = wire \o before \o Header(node, path # <<>>)
            /\ file' = IF node.kind = "file"
                       THEN [open |-> TRUE, size |-> node.size, left |-> node.size]
                       ELSE file
            /\ UNCHANGED filling

Pushed(stack, path) ==
    IF tree[path].kind = "dir"
    THEN Append(stack, [path |-> path, todo |-> Names(path)])
    ELSE stack

Start ==
    /\ Filling /\ enc = "start"
    /\ Descend(<<>>, <<T("nix-archive-1")>>)
    /\ dirs' = Pushed(<<>>, <<>>)
    /\ UNCHANGED <<source, tree, decVars>>

\* The next entry of the innermost directory.
SendEntry ==
    /\ Filling /\ enc = "running" /\ ~file.open
    /\ Last(dirs).todo # {}
    /\ LET name == FirstOf(Last(dirs).todo)
           path == Append(Last(dirs).path, name)
           rest == [Last(dirs) EXCEPT !.todo = @ \ {name}]
       IN /\ Descend(path, Tokens(<<"entry", "(", "name">>) \o <<<<"string", name>>, T("node")>>)
          /\ dirs' = Pushed(Append(Front(dirs), rest), path)
    /\ UNCHANGED <<source, tree, decVars>>

SendClose ==
    /\ Filling /\ enc = "running" /\ ~file.open
    /\ Last(dirs).todo = {}
    /\ wire' = wire \o (IF Len(dirs) > 1 THEN Tokens(<<")", ")">>) ELSE <<T(")")>>)
    /\ dirs' = Front(dirs)
    /\ enc' = IF Len(dirs) = 1 THEN "done" ELSE enc
    /\ UNCHANGED <<source, tree, file, filling, decVars>>

\* What a chunk may take, one short (a mutant) and as it is.
RoomShort == Cap - Len(wire) - 1
Room == Cap - Len(wire)

\* A chunk of the open file, and its end.
SendContents ==
    /\ Filling /\ file.open
    /\ LET n == IF file.left < Room THEN file.left ELSE Room
           all == n = file.left
       IN /\ wire' = wire \o [i \in 1..n |-> Byte]
                       \o (IF all THEN Zeros(Pad(file.size)) \o Tokens(<<")", ")">>)
                                  ELSE <<>>)
          /\ file' = IF all THEN NoFile ELSE [file EXCEPT !.left = @ - n]
    /\ UNCHANGED <<source, tree, enc, dirs, filling, decVars>>

\* "file truncated while packing nar".
Shrunk ==
    /\ Filling /\ file.open /\ file.left > 0
    /\ Fails
    /\ UNCHANGED <<source, tree, dirs, file, decVars>>

Filled ==
    /\ filling /\ ~Filling
    /\ filling' = FALSE
    /\ UNCHANGED <<source, tree, enc, dirs, file, wire, decVars>>

-----------------------------------------------------------------------------
(* NarDecoder, and write_nar.                                              *)

\* An item is wanted: by expect_token, by the branch next_entry is in, or for contents.
Reads == /\ outcome = "none" /\ ~filling
         /\ want # <<>> \/ dec \notin {"data", "skip", "end"} \/ left > 0
Available == Reads /\ wire # <<>>

\* poll_read with nothing pending: advance().
Poll ==
    /\ Reads /\ wire = <<>> /\ enc \in {"start", "running"}
    /\ filling' = TRUE
    /\ UNCHANGED <<source, tree, enc, dirs, file, wire, decVars>>

\* What the end of the stream is to next_entry: for a mutant, the end of the archive.
EofIsTheEnd == "finished"
EofIs == "error"

\* No more bytes: the end of the stream, or the error of poll_read.
Starved ==
    /\ Reads /\ wire = <<>>
    /\ \/ enc \in {"done", "cut"} /\ outcome' = EofIs
       \/ enc = "failed" /\ outcome' = "error"
    /\ UNCHANGED <<source, tree, encVars, wire, dec, want, frames, pending, exec, left, total, entries>>

Item == Head(wire)
Read == wire' = Tail(wire) /\ UNCHANGED <<source, tree, encVars>>

\* expect_token.
Expect ==
    /\ Available /\ want # <<>>
    /\ Read
    /\ want' = Tail(want)
    /\ outcome' = IF Item = Head(want) THEN outcome ELSE "error"
    /\ UNCHANGED <<dec, frames, pending, exec, left, total, entries>>

\* next_entry looks at an item it cannot foretell.
At(where) == Available /\ want = <<>> /\ dec = where /\ Read

\* current_path, whose last name must be UTF-8 (a frame's is: its directory was
\* returned): the frames that have a name, which all but the root's have. For
\* a mutant, without the directories above.
NameOnly == IF pending = 0 THEN <<>> ELSE <<pending>>
CurrentPath ==
    [i \in 1..(Len(frames) - 1) |-> frames[i + 1].name]
      \o (IF pending = 0 THEN <<>> ELSE <<pending>>)

Returns(node) == entries' = Append(entries, <<CurrentPath, node>>)

Directory ==
    /\ At("type") /\ Item = T("directory") /\ pending \notin NotUtf8
    /\ Returns([kind |-> "dir"])
    /\ frames' = Append(frames, [name |-> pending, last |-> 0])
    /\ pending' = 0
    /\ dec' = "body"
    /\ UNCHANGED <<want, exec, left, total, outcome>>

Regular ==
    /\ At("type") /\ Item = T("regular")
    /\ dec' = "attrs"
    /\ exec' = FALSE
    /\ UNCHANGED <<want, frames, pending, left, total, entries, outcome>>

Attribute ==
    /\ At("attrs") /\ Item = T("executable")
    /\ exec' = TRUE
    /\ want' = <<T("")>>
    /\ UNCHANGED <<dec, frames, pending, left, total, entries, outcome>>

Contents ==
    /\ At("attrs") /\ Item = T("contents")
    /\ dec' = "len"
    /\ UNCHANGED <<want, frames, pending, exec, left, total, entries, outcome>>

Length ==
    /\ At("len") /\ pending \notin NotUtf8
    /\ total' = Item[2] /\ left' = Item[2]
    /\ Returns([kind |-> "file", exec |-> exec, size |-> Item[2]])
    /\ dec' = "data"
    /\ UNCHANGED <<want, frames, pending, exec, outcome>>

Symlink ==
    /\ At("type") /\ Item = T("symlink")
    /\ want' = <<T("target")>>
    /\ dec' = "target"
    /\ UNCHANGED <<frames, pending, exec, left, total, entries, outcome>>

Target ==
    /\ At("target") /\ Item # T("bytes") /\ pending \notin NotUtf8
    /\ Returns([kind |-> "link", target |-> Item[1]])
    /\ dec' = "data"
    /\ UNCHANGED <<want, frames, pending, exec, left, total, outcome>>

\* The caller reads some of NarData...
ReadData ==
    /\ Available /\ dec = "data"
    /\ Read
    /\ left' = left - 1
    /\ UNCHANGED <<dec, want, frames, pending, exec, total, entries, outcome>>

\* ... and calls next_entry, which skips the rest: for mutants, without the padding
\* and with a full block of it where none is due.
Unread == left
UnreadOverpadded == left + Align - (total % Align)
UnreadPadded == left + Pad(total)

NextEntry ==
    /\ outcome = "none" /\ ~filling /\ dec = "data"
    /\ dec' = "skip"
    /\ left' = UnreadPadded
    /\ UNCHANGED <<source, tree, encVars, wire, want, frames, pending, exec, total, entries, outcome>>

Skip ==
    /\ Available /\ dec = "skip"
    /\ Read
    /\ left' = left - 1
    /\ UNCHANGED <<dec, want, frames, pending, exec, total, entries, outcome>>

\* Closes the node, and its entry unless it is the root.
CloseNode ==
    /\ outcome = "none" /\ dec = "skip" /\ left = 0
    /\ want' = IF frames = <<>> THEN Tokens(<<")">>) ELSE Tokens(<<")", ")">>)
    /\ dec' = IF frames = <<>> THEN "end" ELSE "body"
    /\ pending' = 0 /\ total' = 0
    /\ UNCHANGED <<source, tree, encVars, wire, frames, exec, left, entries, outcome>>

RootClosed ==
    /\ outcome = "none" /\ dec = "end" /\ want = <<>>
    /\ outcome' = "finished"
    /\ UNCHANGED <<source, tree, encVars, wire, dec, want, frames, pending, exec, left, total, entries>>

CloseDirectory ==
    /\ At("body") /\ Item = T(")")
    /\ frames' = Front(frames)
    /\ IF Len(frames) = 1
       THEN outcome' = "finished" /\ UNCHANGED want
       ELSE want' = <<T(")")>> /\ UNCHANGED outcome
    /\ UNCHANGED <<dec, pending, exec, left, total, entries>>

Entry ==
    /\ At("body") /\ Item = T("entry")
    /\ want' = Tokens(<<"(", "name">>)
    /\ dec' = "name"
    /\ UNCHANGED <<frames, pending, exec, left, total, entries, outcome>>

\* "entry name is not UTF-8", which shows only once the entry's node is read, and
\* "symlink target is not UTF-8".
Undecodable ==
    /\ \/ At("type") /\ Item = T("directory") /\ pending \in NotUtf8
       \/ At("len") /\ pending \in NotUtf8
       \/ At("target") /\ (Item = T("bytes") \/ pending \in NotUtf8)
    /\ outcome' = "error"
    /\ UNCHANGED <<dec, want, frames, pending, exec, left, total, entries>>

\* A name that read_dir cannot give is "InvalidName".
ValidName == Item[1] = "string"

\* The name, which must come after the entry before it ("UnsortedEntries").
Name ==
    /\ At("name") /\ ValidName
    /\ LET name == Item[2]
       IN /\ pending' = name
          /\ frames' = [frames EXCEPT ![Len(frames)].last = name]
          /\ outcome' = IF name > Last(frames).last THEN outcome ELSE "error"
    /\ want' = Tokens(<<"node", "(", "type">>)
    /\ dec' = "type"
    /\ UNCHANGED <<exec, left, total, entries>>

\* UnexpectedToken, InvalidName.
Unexpected ==
    /\ \/ At("type") /\ Item \notin {T("directory"), T("regular"), T("symlink")}
       \/ At("attrs") /\ Item \notin {T("executable"), T("contents")}
       \/ At("body") /\ Item \notin {T(")"), T("entry")}
       \/ At("name") /\ ~ValidName
    /\ outcome' = "error"
    /\ UNCHANGED <<dec, want, frames, pending, exec, left, total, entries>>

\* The bytes end early, or go wrong where a token or a name is due (elsewhere they are wrong
\* data, for the hash to find): a broken download, say.
Cut ==
    /\ outcome = "none" /\ ~filling
    /\ enc \in {"start", "running"} \/ (enc = "done" /\ wire # <<>>)
    /\ enc' = "cut"
    /\ \/ wire' = <<>>
       \/ (want # <<>> \/ dec \in {"type", "attrs", "body", "name"}) /\ wire' = <<T("junk")>>
    /\ UNCHANGED <<source, tree, dirs, file, filling, decVars>>

-----------------------------------------------------------------------------
Encoder == Start \/ SendEntry \/ SendClose \/ SendContents \/ Filled

Decoder ==
    \/ Poll \/ Starved \/ Expect
    \/ Directory \/ Regular \/ Attribute \/ Contents \/ Length \/ Symlink \/ Target
    \/ ReadData \/ NextEntry \/ Skip \/ CloseNode \/ RootClosed
    \/ CloseDirectory \/ Entry \/ Name \/ Unexpected \/ Undecodable

Next == Encoder \/ Decoder \/ Shrunk \/ Cut

SafeSpec == Init /\ [][Next]_vars

\* One task polls both ends.
Spec == SafeSpec /\ WF_vars(Encoder \/ Decoder)

-----------------------------------------------------------------------------
TypeOK ==
    /\ enc \in {"start", "running", "done", "failed", "cut"}
    /\ \A i \in DOMAIN dirs : dirs[i].path \in DOMAIN tree
    /\ file.left \in 0..file.size /\ file.open \in BOOLEAN /\ filling \in BOOLEAN
    /\ dec \in {"type", "attrs", "len", "target", "data", "skip", "end", "body", "name"}
    /\ Len(want) \in 0..3
    /\ \A i \in DOMAIN frames : frames[i].last >= 0
    /\ exec \in BOOLEAN
    /\ left \in 0..(total + Align - 1)
    /\ outcome \in {"none", "finished", "error"}

\* Pre-order, with the entries of a directory by name.
Before(p, q) ==
    \/ IsStrictPrefix(p, q)
    \/ \E i \in (DOMAIN p) \cap (DOMAIN q) :
         /\ p[i] < q[i]
         /\ \A j \in 1..(i - 1) : p[j] = q[j]

Returned == {entries[i][1] : i \in DOMAIN entries}

\* What next_entry can give as an Entry: names and targets are Strings.
Decodable(p) ==
    /\ p # <<>> => Last(p) \notin NotUtf8
    /\ tree[p].kind = "link" => tree[p].target = "text"

(* The entries come out of the archive in depth-first pre-order, each at   *)
(* its own path and with its own kind, size, mode and target, however much *)
(* of the contents the caller reads, and none is of a node that an Entry   *)
(* cannot hold (lib.rs:1-6, 19, 122-286).                                  *)
EntriesOfTheTree ==
    \A i \in DOMAIN entries :
        /\ entries[i][1] \in DOMAIN tree /\ Decodable(entries[i][1])
        /\ entries[i][2] = tree[entries[i][1]]
        /\ {p \in DOMAIN tree : Before(p, entries[i][1])} = {entries[k][1] : k \in 1..(i - 1)}

(* Ok(None) is the end of a whole archive, and never of the part of it     *)
(* that arrived: every node the encoder listed has been returned, the      *)
(* encoder is done and none of its bytes is unread (lib.rs:251-286,        *)
(* nar.rs:120-180).                                                        *)
FinishedIsWhole ==
    outcome = "finished" => Returned = DOMAIN tree /\ wire = <<>> /\ enc = "done"

(* An archive that ends well holds the whole of the directory ("Serializing*)
(* a real directory tree as a NAR stream", nar.rs:1).  It need not: entries*)
(* that read_dir failed on are passed over (nar.rs:73).  For a flake input *)
(* the rehash of the image (eval.rs:127-132) is what finds that out; the   *)
(* digest of HashReader is dropped (eval.rs:78-82).                        *)
FinishedIsTheSource == outcome = "finished" => Returned = DOMAIN source

(* An archive that was neither cut nor given up by the encoder is refused  *)
(* only for the first node whose name or target is not UTF-8, after every  *)
(* node before that one (nar.rs:74, 102; lib.rs:172-190, 293-312).         *)
ErrorsHaveACause ==
    outcome = "error" /\ enc \notin {"cut", "failed"} =>
        \E p \in DOMAIN tree :
            ~Decodable(p) /\ Returned = {q \in DOMAIN tree : Before(q, p)}

(* next_entry's caller is never left polling: the archive ends or fails.   *)
StreamEnds == <>(outcome # "none")
=============================================================================
