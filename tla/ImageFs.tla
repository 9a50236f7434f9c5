------------------------------- MODULE ImageFs -------------------------------
(***************************************************************************)
(* The read-only virtio-fs device of a machine (host image_fs.rs): its      *)
(* directory lists the image files of the machine by name, each opened once *)
(* when the device is made and later through a bounded cache of open files. *)
(* Meanwhile other runs over the cache directory remove images, replace     *)
(* them by rename, or write them again in place (fetchurl.rs). A file that  *)
(* has lost its name is kept for as long as somebody has it open, and its   *)
(* inode number may be reused after that; one that is written in place      *)
(* changes under those who have it open.                                    *)
(*                                                                          *)
(* A node id is FUSE_ROOT_ID + 1 + the index of the image; here the index.  *)
(* Bytes number the contents of a file as a whole.                          *)
(***************************************************************************)
EXTENDS Naturals, Sequences, SequencesExt

CONSTANTS
  Listed,         \* the files given to the device: names, in their order
  Inodes, Sizes,  \* numbers a file system gives to a file
  FILE_CACHE_SIZE,
  MaxReplaced     \* bound on the files that are replaced or written again

ASSUME FsAssumption ==
  /\ Listed \in Seq(STRING) /\ IsInjective(Listed) /\ 1..Len(Listed) \subseteq Inodes
  /\ FILE_CACHE_SIZE \in Nat \ {0} /\ MaxReplaced \in Nat

VARIABLES
  onDisk,    \* the file at the path of each image, or none
  images,    \* what the device recorded of each image: size and identity
  original,  \* ... and the bytes it had then (what the guest should read)
  open,      \* open files, the longest unused first
  fh,        \* the file handles the guest has open
  reply,     \* the answer to the last request
  replaced,  \* files replaced or written again
  altered    \* images with the recorded number at their path, and other bytes

fsVars == <<onDisk, images, original, open, fh, reply, replaced, altered>>

Indices == 1..Len(Listed)
Nobody == [ino |-> 0, size |-> 0, bytes |-> 0]       \* no file
Contents == 1..(Len(Listed) + MaxReplaced)
FileTypes == [ino : Inodes, size : Sizes, bytes : Contents]
NoBytes == [of |-> 0, bytes |-> 0, size |-> 0]       \* no data, or an error
Replies == [of : Indices, bytes : Contents, size : Sizes]

Identity(f) == <<f.ino, f.size>>

FsInit ==
  /\ \E size \in [Indices -> Sizes] :
       onDisk = [i \in Indices |-> [ino |-> i, size |-> size[i], bytes |-> i]]
  /\ images = << >> /\ original = << >> /\ open = << >>
  /\ fh = {} /\ reply = NoBytes /\ replaced = 0 /\ altered = {}

-----------------------------------------------------------------------------

\* ImageFiles::new opens each file in turn and keeps what it is known by.
Register ==
  LET i == Len(images) + 1 IN
  /\ i \in Indices /\ onDisk[i] # Nobody
  /\ images' = Append(images, Identity(onDisk[i]))
  /\ original' = Append(original, onDisk[i].bytes)
  /\ UNCHANGED <<onDisk, open, fh, reply, replaced, altered>>

Ready == Len(images) = Len(Listed)

\* lookup, get_attr and open answer from what was recorded: the device keeps
\* nothing of them. The guest has the node of a name and a handle, the same.
Open(i) ==
  /\ Ready /\ i \notin fh
  /\ fh' = fh \cup {i} /\ reply' = NoBytes
  /\ UNCHANGED <<onDisk, images, original, open, replaced, altered>>

Release(i) ==
  /\ i \in fh
  /\ fh' = fh \ {i} /\ reply' = NoBytes
  /\ UNCHANGED <<onDisk, images, original, open, replaced, altered>>

\* open_file: an open file moves to the back; one that has to be opened again
\* must be the file it was, and takes the place of the longest unused.
IsOpen(i) == \E k \in DOMAIN open : open[k].index = i
PositionOf(i) == CHOOSE k \in DOMAIN open : open[k].index = i
AtBack(k) == Append(RemoveAt(open, k), open[k])

\* The fault compares only the sizes.
SameSize(i) == onDisk[i] # Nobody /\ onDisk[i].size = images[i][2]
Unchanged(i) == onDisk[i] # Nobody /\ Identity(onDisk[i]) = images[i]

Evicted == IF Len(open) = FILE_CACHE_SIZE THEN Tail(open) ELSE open

ReadOf(i, file) ==
  reply' = [of |-> i, bytes |-> file.bytes, size |-> file.size]

ReadOpen(i) ==
  /\ i \in fh /\ IsOpen(i)
  /\ LET k == PositionOf(i) IN open' = AtBack(k) /\ ReadOf(i, open[k].file)
  /\ UNCHANGED <<onDisk, images, original, fh, replaced, altered>>

ReadReopened(i) ==
  /\ i \in fh /\ ~IsOpen(i) /\ Unchanged(i)
  /\ LET f == [index |-> i, file |-> onDisk[i]] IN
     open' = Append(Evicted, f) /\ ReadOf(i, f.file)
  /\ UNCHANGED <<onDisk, images, original, fh, replaced, altered>>

\* "image changed while VM was running", or it cannot be opened at all.
ReadFails(i) ==
  /\ i \in fh /\ ~IsOpen(i) /\ ~Unchanged(i)
  /\ reply' = NoBytes
  /\ UNCHANGED <<onDisk, images, original, open, fh, replaced, altered>>

-----------------------------------------------------------------------------

\* The host's file system. A number is free when neither a name nor an open
\* file has it.
InUse == {onDisk[j].ino : j \in Indices} \cup {f.file.ino : f \in ToSet(open)}

NewFile(ino, size) == [ino |-> ino, size |-> size, bytes |-> Len(Listed) + replaced + 1]

\* Another file is renamed to the path. The device can not tell it from the old
\* one when it has got both its number and its size.
ReplaceImage(i) ==
  /\ replaced < MaxReplaced /\ replaced' = replaced + 1
  /\ \E ino \in Inodes \ InUse, size \in Sizes :
       LET f == NewFile(ino, size) IN
       /\ onDisk' = [onDisk EXCEPT ![i] = f]
       /\ altered' = altered \cup {j \in {i} \cap DOMAIN images : Identity(f) = images[j]}
  /\ UNCHANGED <<images, original, open, fh, reply>>

\* The run of another process, which did not find the image when it made its plan,
\* realizes a fetchurl: File::create empties the file that is there by now.
RewriteImage(i) ==
  /\ onDisk[i] # Nobody
  /\ replaced < MaxReplaced /\ replaced' = replaced + 1
  /\ \E size \in Sizes :
       LET f == NewFile(onDisk[i].ino, size) IN
       /\ onDisk' = [onDisk EXCEPT ![i] = f]
       /\ open' = [k \in DOMAIN open |->
                     IF open[k].file.ino = f.ino THEN [open[k] EXCEPT !.file = f] ELSE open[k]]
       /\ altered' = altered \cup {j \in DOMAIN images : images[j][1] = f.ino}
  /\ UNCHANGED <<images, original, fh, reply>>

RemoveImage(i) ==
  /\ onDisk[i] # Nobody
  /\ onDisk' = [onDisk EXCEPT ![i] = Nobody]
  /\ UNCHANGED <<images, original, open, fh, reply, replaced, altered>>

FsNext ==
  \/ Register
  \/ \E i \in Indices :
       \/ Open(i) \/ Release(i)
       \/ ReadOpen(i) \/ ReadReopened(i) \/ ReadFails(i)
       \/ ReplaceImage(i) \/ RewriteImage(i) \/ RemoveImage(i)

FsSpec == FsInit /\ [][FsNext]_fsVars

-----------------------------------------------------------------------------

FsTypeOK ==
  /\ onDisk \in [Indices -> FileTypes \cup {Nobody}]
  /\ images \in Seq(Inodes \X Sizes) /\ Len(images) <= Len(Listed)
  /\ original \in Seq(Contents) /\ Len(original) = Len(images)
  /\ \A k \in DOMAIN open : open[k] \in [index : Indices, file : FileTypes]
  /\ Len(open) <= FILE_CACHE_SIZE /\ IsInjective([k \in DOMAIN open |-> open[k].index])
  /\ fh \subseteq Indices
  /\ reply \in Replies \cup {NoBytes} /\ replaced \in 0..MaxReplaced
  /\ altered \subseteq Indices

\* A guest that reads an image it has opened gets the bytes that image had when
\* the machine was given it, of the size that get_attr reports, or an error
\* ("image changed while VM was running", image_fs.rs:148): never those of
\* another image, nor of the file that has its name by now. The code breaks this
\* for a file that has the recorded number and other bytes (image_fs.rs:142-146).
GetsTheImage(r) == r.bytes = original[r.of] /\ r.size = images[r.of][2]
ReadsTheImage == reply.of # 0 => GetsTheImage(reply)

\* What it does keep: so it is of every image that was not written again in place,
\* nor replaced by a file which got its number and has its size; also of those
\* that were removed, or replaced by any other, open or not, and whatever became
\* of the rest.
ReadsUnalteredImage == reply.of # 0 /\ reply.of \notin altered => GetsTheImage(reply)

\* Why, as inductive invariants (MCHostProofs): a file with the identity that
\* was recorded of an image, at its path or open, has the bytes of that image.
SameIsOriginal ==
  \A i \in DOMAIN images \ altered : Unchanged(i) => onDisk[i].bytes = original[i]

OpenIsOriginal ==
  \A k \in DOMAIN open :
    LET i == open[k].index IN
    /\ i \in DOMAIN images /\ open[k].file.ino = images[i][1]
    /\ i \notin altered =>
         open[k].file.size = images[i][2] /\ open[k].file.bytes = original[i]

\* The guest has files open of a device that has them all.
OpenWhenReady == fh # {} => Ready

=============================================================================
