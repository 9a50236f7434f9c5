----------------------------- MODULE ImageStore -----------------------------
(***************************************************************************)
(* What the tasks of a run do to the image directory, and what a later run *)
(* makes of it: tasks/fetch.rs, fetchurl.rs (realize_to_image), tasks/     *)
(* build.rs with its guest (guest-runtime/src/builder.rs), and the loops of *)
(* orchestrator/mod.rs, around one build that needs every fetched path. A  *)
(* run may fail or be killed anywhere; the next one trusts an image file   *)
(* because it exists (plan.rs:65-70), and an entry of the narinfo cache    *)
(* because it parses.                                                      *)
(*                                                                         *)
(* A task runs on its own until it has its result; when the run ends its   *)
(* tasks are dropped where they stand, and no clean-up of theirs happens.  *)
(***************************************************************************)
EXTENDS NarinfoCache, FiniteSets

CONSTANTS
  Urls,      \* paths realized by builtin:fetchurl
  Outs,      \* outputs of the derivation to build
  Permits,   \* of the fetch semaphore
  MaxRuns    \* bound on the number of runs

ASSUME StoreAssumption ==
  /\ Nars \cap Urls = {} /\ (Nars \cup Urls) \cap Outs = {}
  /\ Outs # {} /\ Permits \in Nat \ {0} /\ MaxRuns \in Nat \ {0}

VARIABLES
  image,    \* the file at image_path: "absent", "partial" or "complete"
  tmp,      \* the ".download" file of each NAR
  device,   \* the output device file of each output
  task,     \* the fetch task of each path
  run,      \* phase of the current run
  trusted,  \* ws.images
  handled,  \* outputs the current phase of the build is through with
  runs      \* runs started

files == <<image, tmp, device>>
storeVars == <<files, task, run, trusted, handled, runs, narinfoVars>>

Fetched == Nars \cup Urls
Paths == Fetched \cup Outs
Content == {"absent", "partial", "complete"}

StoreInit ==
  /\ NarinfoInit
  /\ image \in [Paths -> {"absent", "complete"}]
  /\ tmp = [p \in Nars |-> "absent"]
  /\ device = [o \in Outs |-> "absent"]
  /\ task = [p \in Fetched |-> "none"]
  /\ run = "ended" /\ trusted = {} /\ handled = {} /\ runs = 0

\* The plan: an image that exists is not looked at again, only its narinfo on
\* disk. Unless all that is asked for exists, the run looks up what is missing.
Existing == {p \in Paths : image[p] # "absent"}

Start ==
  /\ run = "ended" /\ runs < MaxRuns
  /\ runs' = runs + 1
  /\ IF Outs \subseteq Existing
     THEN trusted' = Outs /\ run' = "done" /\ UNCHANGED entry
     ELSE trusted' = Existing /\ run' = "plan" /\ entry' = Swept(Existing)
  /\ UNCHANGED <<files, task, handled, upstream, found>>

\* One lookup at a time. What is neither in the binary cache nor the output of
\* a derivation cannot be had; the lookups of Urls and Outs are misses.
Ask(p) ==
  /\ run = "plan" /\ p \notin trusted
  /\ \A q \in Nars \ {p} : found[q] \notin Asking \cup {"miss", "error"}
  /\ LookupStep(p)
  /\ UNCHANGED <<files, task, run, trusted, handled, runs>>

Planned ==
  /\ run = "plan" /\ \A p \in Nars \ trusted : found[p] \in Usable
  /\ run' = "fetch"
  /\ task' = [p \in Fetched |-> IF p \in trusted THEN "none" ELSE "queued"]
  /\ UNCHANGED <<files, trusted, handled, runs, narinfoVars>>

-----------------------------------------------------------------------------
(* The fetch tasks. All are spawned at once; a permit bounds the running.  *)

Running == {"started", "writing", "synced"}

\* The permit is held from the first await of the task to its end, however it
\* ends: not while the image is written only, nor until the run reads the result.
HoldingToWrite == {p \in Fetched : task[p] = "writing"}
HoldingUntilRead == {p \in Fetched : task[p] \notin {"none", "queued"}}
Holding == {p \in Fetched : task[p] \in Running}

Step(p, from, to) == task[p] = from /\ task' = [task EXCEPT ![p] = to]

TaskOnly == UNCHANGED <<run, trusted, handled, runs, narinfoVars>>

FetchPermit(p) ==
  /\ Step(p, "queued", "started")
  /\ Cardinality(Holding) < Permits
  /\ TaskOnly /\ UNCHANGED files

\* fetch_one_image: create the temporary, and stream the NAR into it. The
\* fault creates the file where the image belongs.
InPlace(p) == image' = [image EXCEPT ![p] = "partial"] /\ UNCHANGED tmp
Aside(p) == tmp' = [tmp EXCEPT ![p] = "partial"] /\ UNCHANGED image

CreateDownload(p) ==
  /\ p \in Nars /\ Step(p, "started", "writing")
  /\ Aside(p)
  /\ TaskOnly /\ UNCHANGED device

\* The stream ended, and what was counted and hashed on the way is what the
\* narinfo says; the file is complete and synced.
Verified(p) ==
  /\ p \in Nars /\ Step(p, "writing", "synced")
  /\ found[p] # "badsize"
  /\ tmp' = [tmp EXCEPT ![p] = "complete"]
  /\ TaskOnly /\ UNCHANGED <<image, device>>

RenameDownload(p) ==
  /\ p \in Nars /\ Step(p, "synced", "done")
  /\ image' = [image EXCEPT ![p] = tmp[p]]
  /\ tmp' = [tmp EXCEPT ![p] = "absent"]
  /\ TaskOnly /\ UNCHANGED device

\* Any step fails: the temporary is removed.
FetchNarFails(p) ==
  /\ p \in Nars /\ task[p] \in Running
  /\ task' = [task EXCEPT ![p] = "failed"]
  /\ tmp' = [tmp EXCEPT ![p] = "absent"]
  /\ TaskOnly /\ UNCHANGED <<image, device>>

\* realize_to_image: once the download is verified the image is created and
\* written at its destination.
CreateImage(p) ==
  /\ p \in Urls /\ Step(p, "started", "writing")
  /\ image' = [image EXCEPT ![p] = "partial"]
  /\ TaskOnly /\ UNCHANGED <<tmp, device>>

ImageWritten(p) ==
  /\ p \in Urls /\ Step(p, "writing", "done")
  /\ image' = [image EXCEPT ![p] = "complete"]
  /\ TaskOnly /\ UNCHANGED <<tmp, device>>

\* Every `?` after File::create returns without removing the file.
FetchurlFails(p) ==
  /\ p \in Urls /\ task[p] \in Running
  /\ task' = [task EXCEPT ![p] = "failed"]
  /\ TaskOnly /\ UNCHANGED files

-----------------------------------------------------------------------------
(* The run awaits its tasks, the downloads before the fetchurls.           *)

Settled(p) == task[p] \in {"none", "done"}

FetchesDone ==
  /\ run = "fetch" /\ \A p \in Fetched : Settled(p)
  /\ trusted' = trusted \cup Fetched
  /\ run' = "prepare"
  /\ UNCHANGED <<files, task, handled, runs, narinfoVars>>

\* The run is over: dropped tasks stop where they are.
RunEnds ==
  /\ run' = "ended"
  /\ task' = [p \in Fetched |-> "none"]
  /\ found' = [p \in Nars |-> "unknown"]
  /\ trusted' = {} /\ handled' = {}
  /\ UNCHANGED <<runs, upstream>>

Stops == RunEnds /\ UNCHANGED <<files, entry>>

PlanFails == run = "plan" /\ (\E p \in Nars : found[p] \in {"miss", "error"}) /\ Stops

AwaitFails(p) ==
  /\ run = "fetch" /\ task[p] = "failed"
  /\ p \in Urls => \A q \in Nars : Settled(q)
  /\ Stops

Killed == run \notin {"ended", "done"} /\ Stops

-----------------------------------------------------------------------------
(* The build. Its outputs are dealt with one after the other in each phase. *)

BuildOnly == UNCHANGED <<image, tmp, task, run, trusted, runs, narinfoVars>>

Handles(phase, o) ==
  /\ run = phase /\ o \notin handled
  /\ handled' = handled \cup {o}

\* The host goes on when every output has been handled.
AnyHandled == handled # {}
AllHandled == handled = Outs

Phase(from, to) ==
  /\ run = from /\ AllHandled
  /\ run' = to /\ handled' = {}
  /\ UNCHANGED <<files, task, trusted, runs, narinfoVars>>

\* prep_output_device: created, or reused as a killed run left it.
PrepDevice(o) ==
  /\ Handles("prepare", o)
  /\ device' = [device EXCEPT ![o] = "partial"]
  /\ BuildOnly

Boot == Phase("prepare", "setup")

\* In the guest: the mounts, the environment and the builder, which exits well.
BuilderExits ==
  /\ run = "setup" /\ run' = "pack"
  /\ UNCHANGED <<files, task, trusted, handled, runs, narinfoVars>>

PackOutput(o) ==
  /\ Handles("pack", o)
  /\ device' = [device EXCEPT ![o] = "complete"]
  /\ BuildOnly

Replied == Phase("pack", "save")

\* On the host, in the guest, or on the way between the two.
BuildFails == run \in {"prepare", "setup", "pack", "save"} /\ Stops

\* if dest.exists() { remove_file(dest)? }, then rename(dev_path, dest).
RemoveOld(o) ==
  /\ run = "save" /\ o \notin handled /\ image[o] # "absent"
  /\ image' = [image EXCEPT ![o] = "absent"]
  /\ UNCHANGED <<tmp, device, task, run, trusted, handled, runs, narinfoVars>>

SaveOutput(o) ==
  /\ Handles("save", o) /\ image[o] = "absent"
  /\ image' = [image EXCEPT ![o] = device[o]]
  /\ device' = [device EXCEPT ![o] = "absent"]
  /\ UNCHANGED <<tmp, task, run, trusted, runs, narinfoVars>>

BuildDone ==
  /\ run = "save" /\ AllHandled
  /\ trusted' = trusted \cup Outs
  /\ run' = "done"
  /\ UNCHANGED <<files, task, handled, runs, narinfoVars>>

\* The process exits, and the user may run it again.
Exit == run = "done" /\ Stops

FetchTask(p) ==
  \/ FetchPermit(p) \/ CreateDownload(p) \/ Verified(p) \/ RenameDownload(p)
  \/ FetchNarFails(p) \/ CreateImage(p) \/ ImageWritten(p) \/ FetchurlFails(p)

BuildStep(o) == PrepDevice(o) \/ PackOutput(o) \/ RemoveOld(o) \/ SaveOutput(o)

Run ==
  \/ (\E p \in Nars : Ask(p)) \/ PlanFails \/ Planned
  \/ FetchesDone \/ (\E p \in Fetched : AwaitFails(p))
  \/ (\E o \in Outs : BuildStep(o))
  \/ Boot \/ BuilderExits \/ Replied \/ BuildFails \/ BuildDone

\* Only the plan reads what others write: what happens in a later phase is as
\* if it happened after the run.
World ==
  /\ run \in {"ended", "plan"}
  /\ \E p \in Nars : Publish(p) \/ OtherProcess(p)
  /\ UNCHANGED <<files, task, run, trusted, handled, runs>>

StoreNext ==
  \/ Start \/ Run \/ Killed \/ Exit \/ World
  \/ \E p \in Fetched : FetchTask(p)

\* The runtime polls the run and its tasks while one of them can go on; nobody
\* has to start a run or to kill it.
StoreFairness == WF_storeVars(Run \/ \E p \in Fetched : FetchTask(p))

StoreSpec == StoreInit /\ [][StoreNext]_storeVars

-----------------------------------------------------------------------------

StoreTypeOK ==
  /\ image \in [Paths -> Content] /\ tmp \in [Nars -> Content]
  /\ device \in [Outs -> Content]
  /\ task \in [Fetched -> {"none", "queued", "started", "writing", "synced", "done", "failed"}]
  /\ run \in {"ended", "plan", "fetch", "prepare", "setup", "pack", "save", "done"}
  /\ trusted \subseteq Paths /\ handled \subseteq Outs /\ runs \in 0..MaxRuns
  /\ NarinfoTypeOK
  /\ Cardinality(Holding) <= Permits

\* "a failed fetch can never leave a partial image where a later run would
\* mistake it for cached" (tasks/fetch.rs:12-15), for the downloads and the
\* builds: whatever failed or was killed in earlier runs, no image of theirs
\* is ever incomplete.
NoPartialStoreImage == \A p \in Nars \cup Outs : image[p] # "partial"

\* Why, as an inductive invariant (MCHostProofs): what is moved to the place
\* of an image is whole by the time it is moved. A download is synced first; an
\* output was packed in the phase before the one that saves it.
MovedIsWhole ==
  /\ \A p \in Nars : task[p] = "synced" => tmp[p] = "complete"
  /\ run \in {"setup", "pack"} => \A o \in handled : device[o] = "complete"
  /\ run = "save" => \A o \in Outs \ handled : device[o] = "complete"

\* The same for everything a run relies on, fetchurl included.
TrustedIsWhole == \A p \in trusted : image[p] # "partial"

\* A run that ends well leaves every output in place, whole, whatever the
\* runs before it left behind.
DoneIsRealized == run = "done" => \A o \in Outs : image[o] = "complete"

\* ... because the outputs it is through with are in place, one by one.
SavedIsInPlace == run = "save" => \A o \in handled : image[o] = "complete"

\* A lookup that answers Miss does so because the binary cache does not have
\* the path at that moment: no earlier answer is remembered ("Misses are not
\* recorded", nix-cache/src/lib.rs:79), nor the marker of an older version.
MissIsFresh ==
  [][\A p \in Nars : found'[p] = "miss" /\ found[p] # "miss" => p \notin upstream]_storeVars

=============================================================================
