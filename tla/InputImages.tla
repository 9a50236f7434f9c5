----------------------------- MODULE InputImages -----------------------------
(***************************************************************************)
(* The fetch tasks of a flake's locked inputs (tasks/eval.rs, verify.rs):   *)
(* an archive is streamed into "<image>.download", or goes there by way of  *)
(* the disk if it cannot be, and the finished file is hashed and renamed.   *)
(*                                                                          *)
(* The image of an input is named by its narHash, so two inputs of a lock   *)
(* with one narHash have one image, and one temporary: what a task writes   *)
(* goes to the file it has opened, whatever has become of its name since.   *)
(***************************************************************************)
EXTENDS Naturals, FiniteSets

CONSTANTS
  Inputs,      \* names of the inputs in the lock
  InputPath,   \* the store path of each: source_store_path(narHash)
  InputPermits,\* of the fetch semaphore
  Unusual,     \* inputs whose archive tar_to_image refuses
  Faults       \* may downloads, the disk and the hash fail?

ASSUME InputAssumption ==
  InputPermits \in Nat \ {0} /\ Unusual \subseteq Inputs /\ Faults \in BOOLEAN

VARIABLES
  file,     \* what is written of the files named "<image>.download" and "<image>"
  fetch,    \* where the task of each input stands
  handle,   \* the name its open file has by now
  shared    \* paths whose temporary two tasks have been at work on at once

inputVars == <<file, fetch, handle, shared>>

InputPaths == {InputPath[n] : n \in Inputs}
Names == {"download", "image"}
Whole == {"head", "tail"}          \* the parts of an image, written in turn
NoFile == {"no file"}              \* a set, to compare with the others

WritingInput == {"opening", "head", "tail"}
HoldsInputPermit == WritingInput \cup {"disk", "written", "verified"}

InputTypeOK ==
  /\ file \in [InputPaths -> [Names -> (SUBSET Whole) \cup {NoFile}]]
  /\ fetch \in [Inputs -> {"none", "queued", "done", "failed"} \cup HoldsInputPermit]
  /\ handle \in [Inputs -> Names \cup {"closed", "unlinked"}]
  /\ Cardinality({n \in Inputs : fetch[n] \in HoldsInputPermit}) <= InputPermits
  /\ shared \subseteq InputPaths

NoFiles == [name \in Names |-> NoFile]

InputInit ==
  /\ file = [p \in InputPaths |-> NoFiles]
  /\ fetch = [n \in Inputs |-> "none"]
  /\ handle = [n \in Inputs |-> "closed"]
  /\ shared = {}

HasInputImage(n) == file[InputPath[n]]["image"] # NoFile

\* EvalFlake::run spawns a task for every input whose image does not exist.
SpawnFetches(lock) ==
  fetch' = [n \in Inputs |-> IF n \in lock /\ ~HasInputImage(n) THEN "queued" ELSE "none"]

-----------------------------------------------------------------------------

InputStep(n, from, to) == fetch[n] = from /\ fetch' = [fetch EXCEPT ![n] = to]

Twins(n) == {m \in Inputs \ {n} : InputPath[m] = InputPath[n]}
Alone(n) == \A m \in Twins(n) : fetch[m] \notin HoldsInputPermit

InputPermit(n) ==
  /\ InputStep(n, "queued", "opening")
  /\ Cardinality({m \in Inputs : fetch[m] \in HoldsInputPermit}) < InputPermits
  /\ shared' = shared \cup {p \in {InputPath[n]} : ~Alone(n)}
  /\ UNCHANGED <<file, handle>>

\* File::create: an existing file is emptied, under everyone who has it open.
CreateTmp(n) ==
  /\ InputStep(n, "opening", "head")
  /\ file' = [file EXCEPT ![InputPath[n]]["download"] = {}]
  /\ handle' = [handle EXCEPT ![n] = "download"]
  /\ UNCHANGED shared

WritePart(n) ==
  /\ \/ InputStep(n, "head", "tail")
     \/ n \notin Unusual /\ InputStep(n, "tail", "written")
  /\ file' = IF handle[n] \in Names
             THEN [file EXCEPT ![InputPath[n]][handle[n]] = @ \cup {fetch[n]}]
             ELSE file
  /\ UNCHANGED <<handle, shared>>

\* stream_fetch fails: tar_to_image refused the archive, or something broke.
FallBack(n) ==
  /\ fetch[n] \in WritingInput /\ (n \in Unusual \/ Faults)
  /\ fetch' = [fetch EXCEPT ![n] = "disk"]
  /\ handle' = [handle EXCEPT ![n] = "closed"]
  /\ UNCHANGED <<file, shared>>

\* VerifyNarHash opens the temporary by its name, after the task closed its own.
VerifyInput(n) ==
  /\ InputStep(n, "written", "verified")
  /\ file[InputPath[n]]["download"] = Whole
  /\ handle' = [handle EXCEPT ![n] = "closed"]
  /\ UNCHANGED <<file, shared>>

RenameInput(n) ==
  LET p == InputPath[n] tmp == file[p]["download"] IN
  /\ tmp # NoFile /\ InputStep(n, "verified", "done")
  /\ file' = [file EXCEPT ![p] = [download |-> NoFile, image |-> tmp]]
  /\ handle' = [m \in Inputs |->
       CASE InputPath[m] = p /\ handle[m] = "download" -> "image"
         [] InputPath[m] = p /\ handle[m] = "image" -> "unlinked"
         [] OTHER -> handle[m]]
  /\ UNCHANGED shared

\* The hash is not the lock's, or the rename fails: of themselves, or because a
\* twin's task has emptied, renamed or removed the temporary. By way of the disk,
\* the task always fails: fetch_via_disk downloads into "tmp/input-<hash>", a directory that
\* only its own next step would make. The temporary is removed by its name.
FetchInputFails(n) ==
  LET p == InputPath[n] IN
  /\ \/ fetch[n] = "disk"
     \/ fetch[n] = "written" /\ (Faults \/ file[p]["download"] # Whole)
     \/ fetch[n] = "verified" /\ (Faults \/ file[p]["download"] = NoFile)
  /\ fetch' = [fetch EXCEPT ![n] = "failed"]
  /\ file' = [file EXCEPT ![p]["download"] = NoFile]
  /\ handle' = [m \in Inputs |->
       CASE m = n -> "closed"
         [] m # n /\ InputPath[m] = p /\ handle[m] = "download" -> "unlinked"
         [] OTHER -> handle[m]]
  /\ UNCHANGED shared

FetchInput(n) ==
  \/ InputPermit(n) \/ CreateTmp(n) \/ WritePart(n) \/ FallBack(n)
  \/ VerifyInput(n) \/ RenameInput(n) \/ FetchInputFails(n)

\* The run ends: its tasks go, and the files stay.
DropFetches ==
  /\ fetch' = [n \in Inputs |-> "none"]
  /\ handle' = [n \in Inputs |-> "closed"]
  /\ UNCHANGED shared

-----------------------------------------------------------------------------

\* "streams it into a hash-addressed EROFS image, and verifies its NAR hash
\* against the lock" (tasks/eval.rs:85-86): what has the name of an image is
\* all of it, whenever a fetch or the process that made it stopped. The code
\* breaks this where two tasks of one narHash meet: one empties or goes on
\* writing what the other has verified and renames.
InputImagesAreWhole == \A p \in InputPaths : file[p]["image"] \in {NoFile, Whole}

\* What it does keep: an image is all of it unless the tasks of two inputs with
\* its narHash were at work on it at the same time (tasks/eval.rs:116), also if
\* they came one after the other, or a run that was killed left the temporary.
UnsharedImagesAreWhole ==
  \A p \in InputPaths \ shared : file[p]["image"] \in {NoFile, Whole}

\* Why, as an inductive invariant (EvalFlakeProofs): of a path that is not shared
\* one task at most holds a permit; it has the temporary open until it is
\* verified, and what is verified stays whole until it is renamed.
VerifiedStaysWhole ==
  \A n \in Inputs : InputPath[n] \notin shared =>
    /\ handle[n] = "closed" \/ (handle[n] = "download" /\ fetch[n] \in {"head", "tail", "written"})
    /\ fetch[n] = "verified" => file[InputPath[n]]["download"] = Whole
    /\ fetch[n] \in HoldsInputPermit => Alone(n)

\* "Anything structurally unexpected is reported as an error string so the
\* caller can fall back to the unpack-to-disk path" (tarball.rs:13-14): unless
\* something else fails, or twins meet, no fetch fails for it. The code breaks this.
UnusualArchiveIsFetched ==
  ~Faults => \A n \in Inputs : fetch[n] = "failed" => InputPath[n] \in shared

=============================================================================
