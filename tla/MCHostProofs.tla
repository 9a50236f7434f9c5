---------------------------- MODULE MCHostProofs ----------------------------
(***************************************************************************)
(* Theorems about MCHost: each part of the host behaves, in the module     *)
(* that the runs check, as it does on its own, so what is proved of the    *)
(* parts holds there. The parts of the image store and of the image file   *)
(* system are proved here:                                                 *)
(*  - whatever failed or was killed, no download and no output is ever an  *)
(*    incomplete image, a run that ends well has every output, and no      *)
(*    lookup remembers a miss;                                             *)
(*  - however images are replaced and removed while a machine runs, and    *)
(*    whichever of them it keeps open, the device answers a read with the  *)
(*    bytes the image had when the machine was made.                       *)
(***************************************************************************)
EXTENDS MCHost, EvalFlakeProofs, TarImageProofs, SequenceTheorems, FiniteSetTheorems, TLAPS

-----------------------------------------------------------------------------
(* The narinfo cache.                                                      *)

\* A lookup step keeps the cache well typed and answers for its own path.
LEMMA LookupStepType ==
  ASSUME NEW p \in Nars, NarinfoTypeOK, LookupStep(p)
  PROVE  NarinfoTypeOK'
<1> USE DEF NarinfoTypeOK, Entries, Written, Usable, Asking
<1>1. CASE Lookup(p)
  <2>1. entry' \in [Nars -> Entries]
    BY <1>1 DEF Lookup, Swept
  <2>2. found' \in [Nars -> {"unknown", "miss", "error"} \cup Asking \cup Usable]
    BY <1>1 DEF Lookup, Answer
  <2> QED
    BY <1>1, <2>1, <2>2 DEF Lookup
<1>2. CASE NotFound(p) \/ LookupFails(p) \/ CannotWrite(p)
  BY <1>2 DEF NotFound, LookupFails, CannotWrite, Answer
<1>3. CASE WriteLocal(p)
  BY <1>3 DEF WriteLocal, Answer
<1>4. CASE WriteEnds(p)
  BY <1>4 DEF WriteEnds, Answer
<1> QED
  BY <1>1, <1>2, <1>3, <1>4 DEF LookupStep

\* What the world does to the cache keeps it well typed too.
LEMMA WorldType ==
  ASSUME NEW p \in Nars, NarinfoTypeOK, Publish(p) \/ OtherProcess(p)
  PROVE  NarinfoTypeOK'
BY DEF NarinfoTypeOK, Entries, Written, Usable, Asking, Publish, OtherProcess

\* A new miss is the answer of a binary cache that does not have the path.
LEMMA NewMiss ==
  ASSUME NEW p \in Nars, NarinfoTypeOK, LookupStep(p),
         NEW q \in Nars, found'[q] = "miss", found[q] # "miss"
  PROVE  q \notin upstream
<1> USE DEF NarinfoTypeOK, Usable, Answer
<1>1. CASE NotFound(p)
  BY <1>1 DEF NotFound
<1>2. CASE Lookup(p)
  BY <1>2 DEF Lookup
<1>3. CASE LookupFails(p) \/ WriteLocal(p) \/ CannotWrite(p) \/ WriteEnds(p)
  BY <1>3 DEF LookupFails, WriteLocal, CannotWrite, WriteEnds
<1> QED
  BY <1>1, <1>2, <1>3 DEF LookupStep

-----------------------------------------------------------------------------
(* Types, and the bound on the fetches at work.                            *)

TaskStates == {"none", "queued", "started", "writing", "synced", "done", "failed"}

\* The typing part of StoreTypeOK, without the permits.
StoreTyped ==
  /\ image \in [Paths -> Content] /\ tmp \in [Nars -> Content]
  /\ device \in [Outs -> Content]
  /\ task \in [Fetched -> TaskStates]
  /\ run \in {"ended", "plan", "fetch", "prepare", "setup", "pack", "save", "done"}
  /\ trusted \subseteq Paths /\ handled \subseteq Outs /\ runs \in 0..MaxRuns
  /\ NarinfoTypeOK

\* At most Permits fetches hold a permit.
PermitsKept == IsFiniteSet(Holding) /\ Cardinality(Holding) <= Permits

LEMMA InitStoreTyped == StoreInit => StoreTyped /\ PermitsKept
<1> SUFFICES ASSUME StoreInit PROVE StoreTyped /\ PermitsKept
  OBVIOUS
<1>1. NarinfoTypeOK
  BY DEF StoreInit, NarinfoInit, NarinfoTypeOK
<1>2. StoreTyped
  BY <1>1, StoreAssumption DEF StoreInit, StoreTyped, Content, TaskStates, Paths, Fetched
<1>3. Holding = {}
  BY DEF StoreInit, Holding, Running, Fetched
<1> QED
  BY <1>2, <1>3, FS_EmptySet, StoreAssumption DEF PermitsKept

\* One step of one fetch task keeps everything well typed.
LEMMA FetchTaskTyped ==
  ASSUME NEW p \in Fetched, StoreTyped, FetchTask(p) PROVE StoreTyped'
<1> USE DEF StoreTyped, Content, TaskStates, Fetched, Paths, Step, TaskOnly, files,
            narinfoVars, NarinfoTypeOK, Running
<1>1. CASE FetchPermit(p)
  BY <1>1 DEF FetchPermit
<1>2. CASE CreateDownload(p)
  BY <1>2 DEF CreateDownload, Aside
<1>3. CASE Verified(p)
  BY <1>3 DEF Verified
<1>4. CASE RenameDownload(p)
  BY <1>4 DEF RenameDownload
<1>5. CASE FetchNarFails(p)
  BY <1>5 DEF FetchNarFails
<1>6. CASE CreateImage(p)
  BY <1>6 DEF CreateImage
<1>7. CASE ImageWritten(p)
  BY <1>7 DEF ImageWritten
<1>8. CASE FetchurlFails(p)
  BY <1>8 DEF FetchurlFails
<1> QED
  BY <1>1, <1>2, <1>3, <1>4, <1>5, <1>6, <1>7, <1>8 DEF FetchTask

\* So does a step of the run itself, of the user, or of the world.
LEMMA RunTyped ==
  ASSUME StoreTyped, Run \/ Start \/ Killed \/ Exit \/ World PROVE StoreTyped'
<1> USE DEF StoreTyped, Content, TaskStates, Fetched, Paths, files, narinfoVars
<1>e. ASSUME Stops PROVE StoreTyped'
  <2>1. found' \in [Nars -> {"unknown"}] /\ UNCHANGED <<entry, upstream>>
    BY <1>e DEF Stops, RunEnds
  <2>2. NarinfoTypeOK'
    BY <2>1 DEF NarinfoTypeOK
  <2> QED
    BY <1>e, <2>2 DEF Stops, RunEnds
<1>1. CASE Start
  <2>1. NarinfoTypeOK'
    BY <1>1 DEF Start, NarinfoTypeOK, Swept, Entries, Written, Usable
  <2> QED
    BY <1>1, <2>1, StoreAssumption DEF Start, Existing
<1>2. ASSUME NEW p \in Nars, Ask(p) PROVE StoreTyped'
  <2>1. NarinfoTypeOK'
    BY <1>2, LookupStepType DEF Ask
  <2> QED
    BY <1>2, <2>1 DEF Ask
<1>3. CASE Planned
  BY <1>3 DEF Planned, NarinfoTypeOK
<1>4. CASE FetchesDone
  BY <1>4 DEF FetchesDone, NarinfoTypeOK
<1>5. CASE PlanFails \/ Killed \/ Exit \/ BuildFails
  BY <1>5, <1>e DEF PlanFails, Killed, Exit, BuildFails
<1>6. ASSUME NEW p \in Fetched, AwaitFails(p) PROVE StoreTyped'
  BY <1>6, <1>e DEF AwaitFails
<1>7. ASSUME NEW o \in Outs, BuildStep(o) PROVE StoreTyped'
  <2>1. CASE PrepDevice(o) \/ PackOutput(o)
    BY <2>1 DEF PrepDevice, PackOutput, BuildOnly, Handles, NarinfoTypeOK
  <2>2. CASE RemoveOld(o)
    BY <2>2 DEF RemoveOld, NarinfoTypeOK
  <2>3. CASE SaveOutput(o)
    BY <2>3 DEF SaveOutput, Handles, NarinfoTypeOK
  <2> QED
    BY <1>7, <2>1, <2>2, <2>3 DEF BuildStep
<1>8. CASE Boot \/ BuilderExits \/ Replied
  BY <1>8 DEF Boot, BuilderExits, Replied, Phase, NarinfoTypeOK
<1>9. CASE BuildDone
  BY <1>9 DEF BuildDone, NarinfoTypeOK
<1>10. CASE World
  <2>1. NarinfoTypeOK'
    BY <1>10, WorldType DEF World
  <2> QED
    BY <1>10, <2>1 DEF World
<1> QED
  BY <1>1, <1>2, <1>3, <1>4, <1>5, <1>6, <1>7, <1>8, <1>9, <1>10 DEF Run

\* A step after which no other task holds a permit keeps the bound.
LEMMA FewerHold ==
  ASSUME PermitsKept, Holding' \subseteq Holding PROVE PermitsKept'
<1>1. IsFiniteSet(Holding') /\ Cardinality(Holding') <= Cardinality(Holding)
  BY FS_Subset DEF PermitsKept
<1>2. Cardinality(Holding') \in Nat /\ Cardinality(Holding) \in Nat
  BY <1>1, FS_CardinalityType DEF PermitsKept
<1> QED
  BY <1>1, <1>2, StoreAssumption DEF PermitsKept

\* A permit is taken only while one is free; no other step takes one.
LEMMA NextPermits ==
  StoreTyped /\ PermitsKept /\ [StoreNext]_storeVars => PermitsKept'
<1> SUFFICES ASSUME StoreTyped, PermitsKept, [StoreNext]_storeVars PROVE PermitsKept'
  OBVIOUS
<1> USE DEF Fetched, Running, files
<1>1. ASSUME NEW p \in Fetched, FetchPermit(p) PROVE PermitsKept'
  <2>1. Holding' = Holding \cup {p} /\ p \notin Holding
    BY <1>1 DEF FetchPermit, Step, Holding, StoreTyped
  <2>2. Cardinality(Holding') = Cardinality(Holding) + 1 /\ IsFiniteSet(Holding')
    BY <2>1, FS_AddElement DEF PermitsKept
  <2>3. Cardinality(Holding) \in Nat /\ Cardinality(Holding) < Permits
    BY <1>1, FS_CardinalityType DEF FetchPermit, PermitsKept
  <2> QED
    BY <2>2, <2>3, StoreAssumption DEF PermitsKept
<1>2. ASSUME NEW p \in Fetched, FetchTask(p), ~FetchPermit(p) PROVE Holding' \subseteq Holding
  BY <1>2 DEF FetchTask, CreateDownload, Verified, RenameDownload, FetchNarFails,
       CreateImage, ImageWritten, FetchurlFails, Step, Holding, StoreTyped
<1>3. CASE UNCHANGED task
  BY <1>3, FewerHold DEF Holding
<1>4. ASSUME task' = [p \in Fetched |-> "none"] PROVE Holding' \subseteq Holding
  BY <1>4 DEF Holding
<1>5. CASE Planned
  <2>1. Holding' \subseteq Holding
    BY <1>5 DEF Planned, Holding
  <2> QED
    BY <2>1, FewerHold
<1>6. CASE PlanFails \/ Killed \/ Exit \/ BuildFails \/ \E p \in Fetched : AwaitFails(p)
  BY <1>6, <1>4, FewerHold DEF PlanFails, Killed, Exit, BuildFails, AwaitFails, Stops, RunEnds
<1>7. CASE \/ Start \/ World \/ FetchesDone \/ Boot \/ BuilderExits \/ Replied \/ BuildDone
           \/ (\E p \in Nars : Ask(p)) \/ (\E o \in Outs : BuildStep(o))
  <2>1. UNCHANGED task
    BY <1>7 DEF Start, World, FetchesDone, Boot, BuilderExits, Replied, BuildDone, Phase,
         Ask, BuildStep, PrepDevice, PackOutput, RemoveOld, SaveOutput, BuildOnly
  <2> QED
    BY <2>1, <1>3
<1>8. CASE UNCHANGED storeVars
  BY <1>8, <1>3 DEF storeVars
<1> QED
  BY <1>1, <1>2, <1>5, <1>6, <1>7, <1>8, FewerHold DEF StoreNext, Run

\* Every step keeps the store well typed.
LEMMA NextTyped == StoreTyped /\ [StoreNext]_storeVars => StoreTyped'
<1>1. ASSUME StoreTyped, UNCHANGED storeVars PROVE StoreTyped'
  BY <1>1 DEF StoreTyped, storeVars, files, narinfoVars, NarinfoTypeOK
<1> QED
  BY <1>1, FetchTaskTyped, RunTyped DEF StoreNext

\* The store is well typed, and never are more fetches at work than there are
\* permits: a permit is held over every await of a task (tasks/fetch.rs).
THEOREM StoreTypeCorrect == StoreSpec => []StoreTypeOK
<1>1. StoreTyped /\ PermitsKept => StoreTypeOK
  BY DEF StoreTyped, PermitsKept, StoreTypeOK, TaskStates
<1> QED
  BY <1>1, InitStoreTyped, NextTyped, NextPermits, PTL DEF StoreSpec

-----------------------------------------------------------------------------
(* No image of a download or of an output is ever partial.                 *)

\* The inductive invariant: what is moved to the place of an image is whole,
\* and what an earlier move left there still is.
StoreInv == NoPartialStoreImage /\ MovedIsWhole /\ SavedIsInPlace /\ DoneIsRealized

LEMMA InitStoreInv == StoreInit => StoreInv
BY StoreAssumption
DEF StoreInit, StoreInv, NoPartialStoreImage, MovedIsWhole, SavedIsInPlace,
    DoneIsRealized, Paths, Fetched

\* A fetch task: a NAR's image changes by the rename of a synced download only;
\* the images of fetchurl, which are written in place, are no download's and no
\* output's.
LEMMA FetchTaskKeeps ==
  ASSUME NEW p \in Fetched, StoreTyped, StoreInv, FetchTask(p) PROVE StoreInv'
<1> USE DEF StoreInv, NoPartialStoreImage, MovedIsWhole, SavedIsInPlace, DoneIsRealized,
            StoreTyped, Paths, Fetched, Step, TaskOnly, files
<1> USE StoreAssumption
<1>1. CASE FetchPermit(p)
  BY <1>1 DEF FetchPermit
<1>2. CASE CreateDownload(p)
  BY <1>2 DEF CreateDownload, Aside
<1>3. CASE Verified(p)
  BY <1>3 DEF Verified
<1>4. CASE RenameDownload(p)
  BY <1>4 DEF RenameDownload
<1>5. CASE FetchNarFails(p)
  BY <1>5 DEF FetchNarFails, Running
<1>6. CASE CreateImage(p)
  BY <1>6 DEF CreateImage
<1>7. CASE ImageWritten(p)
  BY <1>7 DEF ImageWritten
<1>8. CASE FetchurlFails(p)
  BY <1>8 DEF FetchurlFails
<1> QED
  BY <1>1, <1>2, <1>3, <1>4, <1>5, <1>6, <1>7, <1>8 DEF FetchTask

\* The build: outputs are packed one by one before the first is saved, and saved
\* one by one before the run is done.
LEMMA BuildKeeps ==
  ASSUME NEW o \in Outs, StoreTyped, StoreInv, BuildStep(o) PROVE StoreInv'
<1> USE DEF StoreInv, NoPartialStoreImage, MovedIsWhole, SavedIsInPlace, DoneIsRealized,
            StoreTyped, Paths, Handles, BuildOnly
<1>1. CASE PrepDevice(o)
  BY <1>1 DEF PrepDevice
<1>2. CASE PackOutput(o)
  BY <1>2 DEF PackOutput
<1>3. CASE RemoveOld(o)
  BY <1>3 DEF RemoveOld
<1>4. CASE SaveOutput(o)
  BY <1>4 DEF SaveOutput
<1> QED
  BY <1>1, <1>2, <1>3, <1>4 DEF BuildStep

\* Every step: the phases follow each other only when all outputs are through, a
\* run that ends leaves the files alone, and one that starts has nothing to do
\* only if every output has an image, which no run left half-made.
LEMMA NextStoreInv == StoreTyped /\ StoreInv /\ [StoreNext]_storeVars => StoreInv'
<1> SUFFICES ASSUME StoreTyped, StoreInv, [StoreNext]_storeVars PROVE StoreInv'
  OBVIOUS
<1> USE DEF files
<1>e. ASSUME Stops PROVE StoreInv'
  BY <1>e DEF Stops, RunEnds, StoreInv, NoPartialStoreImage, MovedIsWhole,
       SavedIsInPlace, DoneIsRealized, Fetched
<1>1. CASE Start
  <2>1. Outs \subseteq Existing => \A o \in Outs : image[o] = "complete"
    BY DEF Existing, StoreTyped, Content, Paths, StoreInv, NoPartialStoreImage
  <2> QED
    BY <1>1, <2>1 DEF Start, StoreInv, NoPartialStoreImage, MovedIsWhole,
         SavedIsInPlace, DoneIsRealized
<1>2. ASSUME NEW p \in Nars, Ask(p) PROVE StoreInv'
  BY <1>2 DEF Ask, StoreInv, NoPartialStoreImage, MovedIsWhole, SavedIsInPlace, DoneIsRealized
<1>3. CASE Planned
  BY <1>3 DEF Planned, Fetched, StoreInv, NoPartialStoreImage, MovedIsWhole,
       SavedIsInPlace, DoneIsRealized
<1>4. CASE FetchesDone \/ BuilderExits \/ World
  <2>1. /\ UNCHANGED <<files, task, handled>>
        /\ run' = run \/ run' = "prepare" \/ (run = "setup" /\ run' = "pack")
    BY <1>4 DEF FetchesDone, BuilderExits, World
  <2> QED
    BY <2>1 DEF StoreInv, NoPartialStoreImage, MovedIsWhole, SavedIsInPlace, DoneIsRealized
<1>5. CASE PlanFails \/ Killed \/ Exit \/ BuildFails \/ \E p \in Fetched : AwaitFails(p)
  BY <1>5, <1>e DEF PlanFails, Killed, Exit, BuildFails, AwaitFails
<1>6. CASE Boot
  BY <1>6 DEF Boot, Phase, StoreInv, NoPartialStoreImage, MovedIsWhole, SavedIsInPlace,
       DoneIsRealized
<1>7. CASE Replied
  BY <1>7 DEF Replied, Phase, AllHandled, StoreInv, NoPartialStoreImage, MovedIsWhole,
       SavedIsInPlace, DoneIsRealized
<1>8. CASE BuildDone
  BY <1>8 DEF BuildDone, AllHandled, StoreInv, NoPartialStoreImage, MovedIsWhole,
       SavedIsInPlace, DoneIsRealized
<1>9. CASE UNCHANGED storeVars
  BY <1>9 DEF storeVars, StoreInv, NoPartialStoreImage, MovedIsWhole, SavedIsInPlace,
       DoneIsRealized
<1> QED
  BY <1>1, <1>2, <1>3, <1>4, <1>5, <1>6, <1>7, <1>8, <1>9, FetchTaskKeeps, BuildKeeps
  DEF StoreNext, Run

\* Whatever failed or was killed in earlier runs, a download or an output is never
\* half-made where a later run would take it for an image (tasks/fetch.rs:12-15):
\* it is moved there, and only once it is whole.
THEOREM NoPartialStoreImageCorrect == StoreSpec => []NoPartialStoreImage
BY InitStoreTyped, NextTyped, InitStoreInv, NextStoreInv, PTL DEF StoreSpec, StoreInv

\* A run that ends well leaves every output in place, whole, also when it found
\* them all and did nothing.
THEOREM DoneIsRealizedCorrect == StoreSpec => []DoneIsRealized
BY InitStoreTyped, NextTyped, InitStoreInv, NextStoreInv, PTL DEF StoreSpec, StoreInv

-----------------------------------------------------------------------------
(* Misses.                                                                 *)

\* Only the lookups of the plan answer.
LEMMA StepMissIsFresh ==
  ASSUME StoreTyped, [StoreNext]_storeVars,
         NEW p \in Nars, found'[p] = "miss", found[p] # "miss"
  PROVE  p \notin upstream
<1>1. ASSUME NEW q \in Nars, Ask(q) PROVE p \notin upstream
  BY <1>1, NewMiss DEF Ask, StoreTyped
<1>2. CASE Stops
  BY <1>2 DEF Stops, RunEnds
<1>3. CASE UNCHANGED found
  BY <1>3
<1>4. ASSUME NEW q \in Fetched, FetchTask(q) PROVE UNCHANGED found
  BY <1>4 DEF FetchTask, FetchPermit, CreateDownload, Verified, RenameDownload, FetchNarFails,
       CreateImage, ImageWritten, FetchurlFails, TaskOnly, narinfoVars
<1>5. CASE PlanFails \/ Killed \/ Exit \/ BuildFails \/ \E q \in Fetched : AwaitFails(q)
  BY <1>5, <1>2 DEF PlanFails, Killed, Exit, BuildFails, AwaitFails
<1>6. CASE \/ Start \/ World \/ Planned \/ FetchesDone \/ Boot \/ BuilderExits \/ Replied
           \/ BuildDone \/ (\E o \in Outs : BuildStep(o)) \/ UNCHANGED storeVars
  <2>1. UNCHANGED found
    BY <1>6 DEF Start, World, Publish, OtherProcess, Planned, FetchesDone, Boot, BuilderExits,
         Replied, BuildDone, Phase, BuildStep, PrepDevice, PackOutput, RemoveOld, SaveOutput,
         BuildOnly, narinfoVars, storeVars
  <2> QED
    BY <2>1
<1> QED
  BY <1>1, <1>3, <1>4, <1>5, <1>6 DEF StoreNext, Run

\* A lookup that answers Miss does so because the binary cache does not have the
\* path at that moment ("Misses are not recorded", nix-cache/src/lib.rs:79).
THEOREM MissIsFreshCorrect == StoreSpec => MissIsFresh
<1>1. StoreTyped /\ [StoreNext]_storeVars =>
        [\A p \in Nars : found'[p] = "miss" /\ found[p] # "miss" => p \notin upstream]_storeVars
  BY StepMissIsFresh
<1> QED
  BY <1>1, InitStoreTyped, NextTyped, PTL DEF StoreSpec, MissIsFresh

-----------------------------------------------------------------------------
(* The queue of open files of the image file system.                       *)

\* An element moved to the back: the ones behind it move up by one.
LEMMA MovedToBack ==
  ASSUME NEW S, NEW s \in Seq(S), NEW k \in 1..Len(s)
  PROVE  LET t == Append(RemoveAt(s, k), s[k]) IN
         /\ t \in Seq(S) /\ Len(t) = Len(s)
         /\ \A j \in 1..Len(s) :
              t[j] = IF j < k THEN s[j] ELSE IF j < Len(s) THEN s[j + 1] ELSE s[k]
<1> DEFINE n == Len(s)
           a == SubSeq(s, 1, k - 1)
           b == SubSeq(s, k + 1, n)
           r == a \o b
           t == Append(r, s[k])
<1>1. n \in Nat /\ k \in 1..n /\ \A i \in 1..n : s[i] \in S
  BY LenProperties, ElementOfSeq
<1> HIDE DEF n
<1>2. /\ a \in Seq(S) /\ Len(a) = k - 1
      /\ \A i \in 1..(k - 1) : a[i] = s[i]
  <2>1. 1 \in Int /\ k - 1 \in Int /\ \A i \in 1..(k - 1) : s[i] \in S
    BY <1>1
  <2> QED
    BY <1>1, <2>1, SubSeqProperties
<1>3. /\ b \in Seq(S) /\ Len(b) = n - k
      /\ \A i \in 1..(n - k) : b[i] = s[k + i]
  <2>1. k + 1 \in Int /\ n \in Int /\ \A i \in (k + 1)..n : s[i] \in S
    BY <1>1
  <2>2. /\ b \in Seq(S) /\ Len(b) = IF k + 1 <= n THEN n - (k + 1) + 1 ELSE 0
        /\ \A i \in 1..(n - (k + 1) + 1) : b[i] = s[(k + 1) + i - 1]
    BY <2>1, SubSeqProperties
  <2> HIDE DEF b
  <2> QED
    BY <1>1, <2>2
<1> HIDE DEF a, b
<1>4. /\ r \in Seq(S) /\ Len(r) = n - 1
      /\ \A i \in 1..(n - 1) : r[i] = IF i < k THEN s[i] ELSE s[i + 1]
  <2>1. /\ r \in Seq(S) /\ Len(r) = Len(a) + Len(b)
        /\ \A i \in 1..(Len(a) + Len(b)) : r[i] = IF i <= Len(a) THEN a[i] ELSE b[i - Len(a)]
    BY <1>2, <1>3, ConcatProperties
  <2> HIDE DEF r
  <2> QED
    BY <1>1, <1>2, <1>3, <2>1
<1> HIDE DEF r
<1>5. /\ t \in Seq(S) /\ Len(t) = n
      /\ \A i \in 1..(n - 1) : t[i] = r[i]
      /\ t[n] = s[k]
  <2>1. /\ t \in Seq(S) /\ Len(t) = Len(r) + 1
        /\ \A i \in 1..Len(r) : t[i] = r[i]
        /\ t[Len(r) + 1] = s[k]
    BY <1>1, <1>4, AppendProperties
  <2> HIDE DEF t
  <2> QED
    BY <1>1, <1>4, <2>1
<1>6. t = Append(RemoveAt(s, k), s[k])
  BY DEF RemoveAt, t, r, a, b, n
<1> HIDE DEF t
<1>7. \A j \in 1..n : t[j] = IF j < k THEN s[j] ELSE IF j < n THEN s[j + 1] ELSE s[k]
  BY <1>1, <1>4, <1>5
<1> QED
  BY <1>5, <1>6, <1>7 DEF n

\* The oldest file makes room for a new one, if there is no room.
LEMMA NewAtTheBack ==
  ASSUME NEW S, NEW s \in Seq(S), NEW e \in S,
         NEW max \in Nat \ {0}, Len(s) <= max
  PROVE  LET t == Append(IF Len(s) = max THEN Tail(s) ELSE s, e) IN
         /\ t \in Seq(S) /\ Len(t) \in 1..max /\ t[Len(t)] = e
         /\ \E d \in {0, 1} :
              /\ Len(t) - 1 + d = Len(s)
              /\ \A j \in 1..(Len(t) - 1) : t[j] = s[j + d]
<1> DEFINE u == IF Len(s) = max THEN Tail(s) ELSE s
           t == Append(u, e)
<1>1. Len(s) \in Nat
  BY LenProperties
<1>2. u \in Seq(S) /\ Len(u) \in Nat /\ Len(u) + 1 \in 1..max
      /\ \E d \in {0, 1} : Len(u) + d = Len(s) /\ \A j \in 1..Len(u) : u[j] = s[j + d]
  <2>1. CASE Len(s) = max
    <3>1. s # << >>
      BY <2>1
    <3>2. /\ u \in Seq(S) /\ Len(u) = Len(s) - 1
          /\ \A i \in 1..Len(u) : u[i] = s[i + 1]
      BY <2>1, <3>1, HeadTailProperties
    <3> HIDE DEF u
    <3>3. Len(u) \in Nat /\ Len(u) + 1 \in 1..max /\ Len(u) + 1 = Len(s)
      BY <1>1, <2>1, <3>2
    <3> QED
      BY <3>2, <3>3
  <2>2. CASE Len(s) # max
    <3>1. u = s
      BY <2>2
    <3> HIDE DEF u
    <3>2. Len(u) \in Nat /\ Len(u) + 1 \in 1..max /\ Len(u) + 0 = Len(s)
      BY <1>1, <2>2, <3>1
    <3>3. \A j \in 1..Len(u) : j + 0 = j /\ u[j] = s[j + 0]
      BY <3>1, <3>2
    <3> QED
      BY <3>1, <3>2, <3>3
  <2> QED
    BY <2>1, <2>2
<1> HIDE DEF u
<1>3. /\ t \in Seq(S) /\ Len(t) = Len(u) + 1 /\ t[Len(u) + 1] = e
      /\ \A i \in 1..Len(u) : t[i] = u[i]
  BY <1>2, AppendProperties
<1>4. t = Append(IF Len(s) = max THEN Tail(s) ELSE s, e)
  BY DEF u
<1> HIDE DEF t
<1>5. /\ t \in Seq(S) /\ Len(t) \in 1..max /\ t[Len(t)] = e /\ Len(t) - 1 = Len(u)
  BY <1>2, <1>3
<1>6. \E d \in {0, 1} :
        /\ Len(t) - 1 + d = Len(s)
        /\ \A j \in 1..(Len(t) - 1) : t[j] = s[j + d]
  BY <1>2, <1>3, <1>5
<1> QED
  BY <1>4, <1>5, <1>6

-----------------------------------------------------------------------------
(* Types.                                                                  *)

OpenFiles == [index : Indices, file : FileTypes]

FsTyped ==
  /\ onDisk \in [Indices -> FileTypes \cup {Nobody}]
  /\ images \in Seq(Inodes \X Sizes) /\ Len(images) <= Len(Listed)
  /\ original \in Seq(Contents) /\ Len(original) = Len(images)
  /\ open \in Seq(OpenFiles) /\ Len(open) <= FILE_CACHE_SIZE
  /\ \A j, k \in 1..Len(open) : open[j].index = open[k].index => j = k
  /\ fh \subseteq Indices
  /\ reply \in Replies \cup {NoBytes} /\ replaced \in 0..MaxReplaced
  /\ altered \subseteq Indices

LEMMA ListedLength == Len(Listed) \in Nat /\ Indices = 1..Len(Listed)
BY FsAssumption, LenProperties DEF Indices

LEMMA InitFsTyped == FsInit => FsTyped
<1> SUFFICES ASSUME FsInit PROVE FsTyped
  OBVIOUS
<1>1. onDisk \in [Indices -> FileTypes \cup {Nobody}]
  BY FsAssumption, ListedLength DEF FsInit, FileTypes, Contents
<1> QED
  BY <1>1, FsAssumption, ListedLength DEF FsInit, FsTyped

LEMMA RegisterTyped ==
  ASSUME FsTyped, Register PROVE FsTyped'
<1> DEFINE i == Len(images) + 1
<1>1. /\ onDisk[i] \in FileTypes /\ Len(images) \in Nat
      /\ i \in 1..Len(Listed)
  BY ListedLength, LenProperties DEF Register, FsTyped
<1>2. Identity(onDisk[i]) \in Inodes \X Sizes /\ onDisk[i].bytes \in Contents
  BY <1>1 DEF Identity, FileTypes
<1>3. /\ images' \in Seq(Inodes \X Sizes) /\ Len(images') = Len(images) + 1
      /\ original' \in Seq(Contents) /\ Len(original') = Len(original) + 1
  BY <1>2, AppendProperties DEF Register, FsTyped
<1>4. Len(images') <= Len(Listed) /\ Len(original') = Len(images')
  BY <1>1, <1>3, ListedLength DEF FsTyped
<1> QED
  BY <1>3, <1>4 DEF Register, FsTyped, Indices, OpenFiles, FileTypes, Contents, Replies

\* The queue after a read holds what it held, in another order and without the
\* oldest perhaps, and the file that was read at its end.
LEMMA ReadOpenQueue ==
  ASSUME FsTyped, NEW i \in Indices, ReadOpen(i)
  PROVE  /\ open' \in Seq(OpenFiles) /\ Len(open') <= FILE_CACHE_SIZE
         /\ \A j, k \in 1..Len(open') : open'[j].index = open'[k].index => j = k
         /\ \A j \in 1..Len(open') : \E k \in 1..Len(open) : open'[j] = open[k]
<1> DEFINE p == PositionOf(i)
           n == Len(open)
<1>1. DOMAIN open = 1..n /\ n \in Nat
  BY LenProperties DEF FsTyped
<1>2. p \in 1..n /\ open' = Append(RemoveAt(open, p), open[p])
  BY <1>1 DEF ReadOpen, IsOpen, AtBack, PositionOf
<1> HIDE DEF p
<1>3. /\ open' \in Seq(OpenFiles) /\ Len(open') = n
      /\ \A j \in 1..n : open'[j] = IF j < p THEN open[j] ELSE IF j < n THEN open[j + 1] ELSE open[p]
  BY <1>2, MovedToBack DEF FsTyped
<1> DEFINE from(j) == IF j < p THEN j ELSE IF j < n THEN j + 1 ELSE p
<1> HIDE DEF n
<1>4. \A j \in 1..n : from(j) \in 1..n /\ open'[j] = open[from(j)]
  BY <1>1, <1>2, <1>3
<1>5. \A j, k \in 1..n : from(j) = from(k) => j = k
  BY <1>1, <1>2
<1> HIDE DEF from
<1>6. Len(open') <= FILE_CACHE_SIZE
  BY <1>3 DEF FsTyped, n
<1>7. \A j, k \in 1..n : open'[j].index = open'[k].index => j = k
  BY <1>4, <1>5, SMTT(30) DEF FsTyped, n
<1> QED
  BY <1>3, <1>4, <1>6, <1>7 DEF n

LEMMA ReadReopenedQueue ==
  ASSUME FsTyped, NEW i \in Indices, ReadReopened(i)
  PROVE  /\ open' \in Seq(OpenFiles) /\ Len(open') <= FILE_CACHE_SIZE
         /\ \A j, k \in 1..Len(open') : open'[j].index = open'[k].index => j = k
         /\ \A j \in 1..Len(open') :
              \/ \E k \in 1..Len(open) : open'[j] = open[k]
              \/ open'[j] = [index |-> i, file |-> onDisk[i]]
<1> DEFINE f == [index |-> i, file |-> onDisk[i]]
           n == Len(open)
           m == Len(open')
<1>1. DOMAIN open = 1..n /\ n \in Nat
  BY LenProperties DEF FsTyped
<1>2. \A k \in 1..n : open[k].index # i
  BY <1>1 DEF ReadReopened, IsOpen
<1>3. f \in OpenFiles
  BY DEF ReadReopened, Unchanged, FsTyped, OpenFiles
<1>4. open' = Append(IF n = FILE_CACHE_SIZE THEN Tail(open) ELSE open, f)
  BY DEF ReadReopened, Evicted
<1> HIDE DEF f
<1>5. /\ open' \in Seq(OpenFiles) /\ m \in 1..FILE_CACHE_SIZE /\ open'[m] = f
      /\ \E d \in {0, 1} : m - 1 + d = n /\ \A j \in 1..(m - 1) : open'[j] = open[j + d]
  BY <1>3, <1>4, FsAssumption, NewAtTheBack DEF FsTyped
<1>6. PICK d \in {0, 1} : m - 1 + d = n /\ \A j \in 1..(m - 1) : open'[j] = open[j + d]
  BY <1>5
<1>7. m \in Nat /\ m <= FILE_CACHE_SIZE
  BY <1>5, FsAssumption
<1> HIDE DEF m, n
<1>8. \A j \in 1..(m - 1) : j + d \in 1..n
  BY <1>1, <1>6, <1>7
<1>9. f.index = i
  BY DEF f
<1>10. \A j \in 1..m : j \in 1..(m - 1) \/ j = m
  BY <1>7
<1>11. \A j, k \in 1..(m - 1) : open'[j].index = open'[k].index => j = k
  BY <1>6, <1>7, <1>8 DEF FsTyped, n
<1>12. \A j \in 1..(m - 1) : open'[j].index # i
  BY <1>2, <1>6, <1>8
<1>13. \A j, k \in 1..m : open'[j].index = open'[k].index => j = k
  BY <1>5, <1>9, <1>10, <1>11, <1>12
<1>14. \A j \in 1..m : (\E k \in 1..n : open'[j] = open[k]) \/ open'[j] = f
  BY <1>5, <1>6, <1>8, <1>10
<1> QED
  BY <1>5, <1>7, <1>13, <1>14 DEF m, n, f

\* ... so it stays of the right type, and the reply is of the file's contents.
LEMMA ReadTyped ==
  ASSUME FsTyped, NEW i \in Indices, ReadOpen(i) \/ ReadReopened(i)
  PROVE  FsTyped'
<1>1. /\ open' \in Seq(OpenFiles) /\ Len(open') <= FILE_CACHE_SIZE
      /\ \A j, k \in 1..Len(open') : open'[j].index = open'[k].index => j = k
  BY ReadOpenQueue, ReadReopenedQueue
<1>2. reply' \in Replies
  <2>1. CASE ReadOpen(i)
    <3>1. PositionOf(i) \in DOMAIN open /\ reply' = [of |-> i, bytes |-> open[PositionOf(i)].file.bytes, size |-> open[PositionOf(i)].file.size]
      BY <2>1 DEF ReadOpen, IsOpen, PositionOf, ReadOf
    <3>2. open[PositionOf(i)] \in OpenFiles
      BY <3>1, ElementOfSeq, LenProperties DEF FsTyped
    <3> QED
      BY <3>1, <3>2 DEF OpenFiles, FileTypes, Replies
  <2>2. CASE ReadReopened(i)
    <3>1. onDisk[i] \in FileTypes
      BY <2>2 DEF ReadReopened, Unchanged, FsTyped
    <3>2. reply' = [of |-> i, bytes |-> onDisk[i].bytes, size |-> onDisk[i].size]
      BY <2>2 DEF ReadReopened, ReadOf
    <3> QED
      BY <3>1, <3>2 DEF FileTypes, Replies
  <2> QED
    BY <2>1, <2>2
<1>3. UNCHANGED <<onDisk, images, original, fh, replaced, altered>>
  BY DEF ReadOpen, ReadReopened
<1> QED
  BY <1>1, <1>2, <1>3 DEF FsTyped, Indices, OpenFiles, FileTypes, Contents, Replies

LEMMA DiskTyped ==
  ASSUME FsTyped, NEW i \in Indices, ReplaceImage(i) \/ RemoveImage(i)
  PROVE  FsTyped'
<1>1. onDisk' \in [Indices -> FileTypes \cup {Nobody}] /\ altered' \subseteq Indices
  <2>1. CASE ReplaceImage(i)
    <3>1. PICK ino \in Inodes, size \in Sizes :
            /\ onDisk' = [onDisk EXCEPT ![i] = NewFile(ino, size)]
            /\ altered' = altered \cup
                 {j \in {i} \cap DOMAIN images : Identity(NewFile(ino, size)) = images[j]}
      BY <2>1 DEF ReplaceImage
    <3>2. NewFile(ino, size) \in FileTypes
      BY <2>1, ListedLength, FsAssumption
      DEF ReplaceImage, FsTyped, Contents, NewFile, FileTypes
    <3> QED
      BY <3>1, <3>2 DEF FsTyped
  <2>2. CASE RemoveImage(i)
    BY <2>2 DEF RemoveImage, FsTyped
  <2> QED
    BY <2>1, <2>2
<1>2. replaced' \in 0..MaxReplaced
  BY FsAssumption DEF ReplaceImage, RemoveImage, FsTyped
<1>3. UNCHANGED <<images, original, open, fh, reply>>
  BY DEF ReplaceImage, RemoveImage
<1> QED
  BY <1>1, <1>2, <1>3 DEF FsTyped, Indices, OpenFiles, FileTypes, Contents, Replies

\* A file written in place changes at its path, and in the queue where it stands.
LEMMA RewrittenFile ==
  ASSUME FsTyped, NEW i \in Indices, RewriteImage(i)
  PROVE  \E f \in FileTypes :
           /\ f.ino = onDisk[i].ino
           /\ onDisk' = [onDisk EXCEPT ![i] = f]
           /\ Len(open') = Len(open) /\ open' \in Seq(OpenFiles)
           /\ \A k \in 1..Len(open) :
                open'[k] = IF open[k].file.ino = f.ino THEN [open[k] EXCEPT !.file = f] ELSE open[k]
           /\ altered' = altered \cup {j \in DOMAIN images : images[j][1] = f.ino}
<1> DEFINE new(f) == [k \in DOMAIN open |->
                        IF open[k].file.ino = f.ino THEN [open[k] EXCEPT !.file = f] ELSE open[k]]
<1>1. onDisk[i] \in FileTypes
  BY DEF RewriteImage, FsTyped
<1>2. PICK size \in Sizes :
        LET f == NewFile(onDisk[i].ino, size) IN
        /\ onDisk' = [onDisk EXCEPT ![i] = f]
        /\ open' = new(f)
        /\ altered' = altered \cup {j \in DOMAIN images : images[j][1] = f.ino}
  BY DEF RewriteImage
<1> DEFINE f == NewFile(onDisk[i].ino, size)
<1>3. f \in FileTypes /\ f.ino = onDisk[i].ino
  BY <1>1, ListedLength, FsAssumption DEF RewriteImage, FsTyped, Contents, NewFile, FileTypes
<1> HIDE DEF f
<1>4. DOMAIN open = 1..Len(open) /\ Len(open) \in Nat
  BY LenProperties DEF FsTyped
<1>5. \A k \in 1..Len(open) : open[k] \in OpenFiles
  BY <1>4, ElementOfSeq DEF FsTyped
<1>6. \A k \in 1..Len(open) : [open[k] EXCEPT !.file = f] \in OpenFiles
  BY <1>3, <1>5 DEF OpenFiles
<1>7. open' = new(f)
  BY <1>2 DEF f
<1>8. open' \in [1..Len(open) -> OpenFiles]
  BY <1>4, <1>5, <1>6, <1>7
<1>9. open' \in Seq(OpenFiles) /\ Len(open') = Len(open)
  BY <1>4, <1>8, LenProperties, IsASeq, SeqDef
<1>10. \A k \in 1..Len(open) : open'[k] = new(f)[k]
  BY <1>4, <1>7
<1> QED
  BY <1>2, <1>3, <1>4, <1>9, <1>10 DEF f

LEMMA RewriteTyped ==
  ASSUME FsTyped, NEW i \in Indices, RewriteImage(i) PROVE FsTyped'
<1>1. PICK f \in FileTypes :
        /\ f.ino = onDisk[i].ino
        /\ onDisk' = [onDisk EXCEPT ![i] = f]
        /\ Len(open') = Len(open) /\ open' \in Seq(OpenFiles)
        /\ \A k \in 1..Len(open) :
             open'[k] = IF open[k].file.ino = f.ino THEN [open[k] EXCEPT !.file = f] ELSE open[k]
        /\ altered' = altered \cup {j \in DOMAIN images : images[j][1] = f.ino}
  BY RewrittenFile
<1>2. \A k \in 1..Len(open) : open[k] \in OpenFiles
  BY ElementOfSeq DEF FsTyped
<1>3. \A k \in 1..Len(open) : open'[k].index = open[k].index
  BY <1>1, <1>2 DEF OpenFiles
<1>4. \A j, k \in 1..Len(open') : open'[j].index = open'[k].index => j = k
  BY <1>1, <1>3 DEF FsTyped
<1>5. altered' \subseteq Indices
  BY <1>1, ListedLength, LenProperties DEF FsTyped
<1>6. onDisk' \in [Indices -> FileTypes \cup {Nobody}]
  BY <1>1 DEF FsTyped
<1>7. replaced' \in 0..MaxReplaced /\ UNCHANGED <<images, original, fh, reply>>
  BY FsAssumption DEF RewriteImage, FsTyped
<1> QED
  BY <1>1, <1>4, <1>5, <1>6, <1>7 DEF FsTyped, Indices, OpenFiles, FileTypes, Contents, Replies

LEMMA StepTyped ==
  ASSUME FsTyped, [FsNext]_fsVars PROVE FsTyped'
<1>1. CASE Register
  BY <1>1, RegisterTyped
<1>2. ASSUME NEW i \in Indices, Open(i) PROVE FsTyped'
  BY <1>2 DEF Open, FsTyped, Indices, OpenFiles, FileTypes, Contents, Replies
<1>3. ASSUME NEW i \in Indices, Release(i) PROVE FsTyped'
  BY <1>3 DEF Release, FsTyped, Indices, OpenFiles, FileTypes, Contents, Replies
<1>4. ASSUME NEW i \in Indices, ReadOpen(i) PROVE FsTyped'
  BY <1>4, ReadTyped
<1>5. ASSUME NEW i \in Indices, ReadReopened(i) PROVE FsTyped'
  BY <1>5, ReadTyped
<1>6. ASSUME NEW i \in Indices, ReadFails(i) PROVE FsTyped'
  BY <1>6 DEF ReadFails, FsTyped, Indices, OpenFiles, FileTypes, Contents, Replies
<1>7. ASSUME NEW i \in Indices, ReplaceImage(i) PROVE FsTyped'
  BY <1>7, DiskTyped
<1>8. ASSUME NEW i \in Indices, RemoveImage(i) PROVE FsTyped'
  BY <1>8, DiskTyped
<1>9. ASSUME NEW i \in Indices, RewriteImage(i) PROVE FsTyped'
  BY <1>9, RewriteTyped
<1>10. CASE UNCHANGED fsVars
  BY <1>10 DEF fsVars, FsTyped, Indices, OpenFiles, FileTypes, Contents, Replies
<1> QED
  BY <1>1, <1>2, <1>3, <1>4, <1>5, <1>6, <1>7, <1>8, <1>9, <1>10 DEF FsNext

LEMMA TypedIsTypeOK == FsTyped => FsTypeOK
<1> SUFFICES ASSUME FsTyped PROVE FsTypeOK
  OBVIOUS
<1>1. DOMAIN open = 1..Len(open) /\ \A k \in DOMAIN open : open[k] \in OpenFiles
  BY LenProperties, ElementOfSeq DEF FsTyped
<1>2. IsInjective([k \in DOMAIN open |-> open[k].index])
  BY <1>1 DEF FsTyped, IsInjective
<1> QED
  BY <1>1, <1>2 DEF FsTyped, FsTypeOK, OpenFiles

\* Type correctness of the device: the cache of open files never exceeds
\* FILE_CACHE_SIZE and never holds an image twice (image_fs.rs, open_file).
THEOREM FsTypeCorrect == FsSpec => []FsTypeOK
<1>1. FsSpec => []FsTyped
  BY InitFsTyped, StepTyped, PTL DEF FsSpec
<1> QED
  BY <1>1, TypedIsTypeOK, PTL

-----------------------------------------------------------------------------
(* What is read.                                                           *)

\* The inductive invariant. A handle exists only once every image is recorded,
\* and a reply is of a recorded image.
FsInv ==
  /\ FsTyped /\ SameIsOriginal /\ OpenIsOriginal /\ OpenWhenReady
  /\ ReadsUnalteredImage /\ (reply.of # 0 => Ready)

\* An image with a handle is one of those recorded.
LEMMA HandleIsRecorded ==
  ASSUME FsInv, NEW i \in fh PROVE i \in DOMAIN images /\ Ready
BY ListedLength, LenProperties DEF FsInv, FsTyped, OpenWhenReady, Ready, Indices

\* Appending to what is recorded changes nothing recorded.
LEMMA RegisterKeeps ==
  ASSUME FsTyped, Register
  PROVE  LET n == Len(images) IN
         /\ n \in Nat /\ DOMAIN images = 1..n /\ DOMAIN images' = 1..(n + 1)
         /\ \A i \in 1..n : images'[i] = images[i] /\ original'[i] = original[i]
         /\ images'[n + 1] = Identity(onDisk[n + 1])
         /\ original'[n + 1] = onDisk[n + 1].bytes
<1> DEFINE n == Len(images)
<1>1. /\ n \in Nat /\ n + 1 \in Indices /\ onDisk[n + 1] \in FileTypes
      /\ Len(original) = n /\ DOMAIN images = 1..n
  BY ListedLength, LenProperties DEF Register, FsTyped
<1>2. Identity(onDisk[n + 1]) \in Inodes \X Sizes /\ onDisk[n + 1].bytes \in Contents
  BY <1>1 DEF Identity, FileTypes
<1>3. /\ Len(images') = n + 1 /\ images' \in Seq(Inodes \X Sizes)
      /\ \A i \in 1..n : images'[i] = images[i]
      /\ images'[n + 1] = Identity(onDisk[n + 1])
  BY <1>1, <1>2, AppendProperties DEF Register, FsTyped
<1>4. /\ \A i \in 1..n : original'[i] = original[i]
      /\ original'[n + 1] = onDisk[n + 1].bytes
  BY <1>1, <1>2, AppendProperties DEF Register, FsTyped
<1> QED
  BY <1>1, <1>3, <1>4, LenProperties

LEMMA RegisterReads ==
  ASSUME FsInv, Register PROVE FsInv'
<1> DEFINE n == Len(images)
<1>1. /\ n \in Nat /\ DOMAIN images = 1..n /\ DOMAIN images' = 1..(n + 1)
      /\ \A i \in 1..n : images'[i] = images[i] /\ original'[i] = original[i]
      /\ images'[n + 1] = Identity(onDisk[n + 1])
      /\ original'[n + 1] = onDisk[n + 1].bytes
  BY RegisterKeeps DEF FsInv
<1>2. UNCHANGED <<onDisk, open, fh, reply, altered>> /\ ~Ready
  BY <1>1, ListedLength DEF Register, Ready, Indices
<1>3. FsTyped'
  BY RegisterTyped DEF FsInv
<1>4. SameIsOriginal'
  <2> SUFFICES ASSUME NEW i \in DOMAIN images' \ altered', Unchanged(i)'
               PROVE  onDisk'[i].bytes = original'[i]
    BY DEF SameIsOriginal
  <2>1. CASE i = n + 1
    BY <1>1, <1>2, <2>1
  <2>2. CASE i # n + 1
    <3>1. i \in 1..n /\ Unchanged(i)
      BY <1>1, <1>2, <2>2 DEF Unchanged
    <3> QED
      BY <1>1, <1>2, <3>1 DEF FsInv, SameIsOriginal
  <2> QED
    BY <2>1, <2>2
<1>5. OpenIsOriginal'
  <2>1. 1..n \subseteq 1..(n + 1)
    BY <1>1
  <2> QED
    BY <1>1, <1>2, <2>1 DEF FsInv, OpenIsOriginal
<1>6. fh = {} /\ reply.of = 0
  BY <1>2 DEF FsInv, OpenWhenReady
<1> QED
  BY <1>2, <1>3, <1>4, <1>5, <1>6 DEF FsInv, OpenWhenReady, ReadsUnalteredImage, GetsTheImage

\* A read answers from a file that is open after it, with the image's index.
LEMMA ReadAnswersFromAnOpenFile ==
  ASSUME FsTyped, NEW i \in Indices, ReadOpen(i) \/ ReadReopened(i)
  PROVE  \E f \in OpenFiles :
           /\ f.index = i
           /\ reply' = [of |-> i, bytes |-> f.file.bytes, size |-> f.file.size]
           /\ \/ \E k \in DOMAIN open : f = open[k]
              \/ Unchanged(i) /\ f = [index |-> i, file |-> onDisk[i]]
<1>1. CASE ReadOpen(i)
  <2>1. /\ PositionOf(i) \in DOMAIN open /\ open[PositionOf(i)].index = i
        /\ reply' = [of |-> i, bytes |-> open[PositionOf(i)].file.bytes, size |-> open[PositionOf(i)].file.size]
    BY <1>1 DEF ReadOpen, IsOpen, PositionOf, ReadOf
  <2>2. open[PositionOf(i)] \in OpenFiles
    BY <2>1, ElementOfSeq, LenProperties DEF FsTyped
  <2> QED
    BY <2>1, <2>2
<1>2. CASE ReadReopened(i)
  <2>1. Unchanged(i) /\ onDisk[i] \in FileTypes
    BY <1>2 DEF ReadReopened, Unchanged, FsTyped
  <2> DEFINE f == [index |-> i, file |-> onDisk[i]]
  <2>2. f \in OpenFiles /\ f.index = i /\ f.file = onDisk[i]
    BY <2>1 DEF OpenFiles
  <2>3. reply' = [of |-> i, bytes |-> f.file.bytes, size |-> f.file.size]
    BY <1>2 DEF ReadReopened, ReadOf
  <2> QED
    BY <2>1, <2>2, <2>3
<1> QED
  BY <1>1, <1>2

LEMMA ReadReads ==
  ASSUME FsInv, NEW i \in Indices, ReadOpen(i) \/ ReadReopened(i)
  PROVE  FsInv'
<1>1. UNCHANGED <<onDisk, images, original, fh, altered>> /\ i \in fh
  BY DEF ReadOpen, ReadReopened
<1>2. i \in DOMAIN images /\ Ready
  BY <1>1, HandleIsRecorded
<1> DEFINE Original(f) == /\ f.index \in DOMAIN images
                          /\ f.file.ino = images[f.index][1]
                          /\ f.index \notin altered =>
                               /\ f.file.size = images[f.index][2]
                               /\ f.file.bytes = original[f.index]
<1>3. \A k \in DOMAIN open : Original(open[k])
  BY DEF FsInv, OpenIsOriginal
<1>4. Unchanged(i) => Original([index |-> i, file |-> onDisk[i]])
  BY <1>2 DEF FsInv, SameIsOriginal, Unchanged, Identity
<1>5. FsTyped'
  BY ReadTyped DEF FsInv
<1>6. DOMAIN open = 1..Len(open) /\ DOMAIN open' = 1..Len(open')
  BY <1>5, LenProperties DEF FsInv, FsTyped
<1>7. \A j \in DOMAIN open' : Original(open'[j])
  <2>1. CASE ReadOpen(i)
    BY <1>3, <1>6, <2>1, ReadOpenQueue DEF FsInv
  <2>2. CASE ReadReopened(i)
    <3>1. Unchanged(i)
      BY <2>2 DEF ReadReopened
    <3> HIDE DEF Original
    <3> QED
      BY <1>3, <1>4, <1>6, <2>2, <3>1, ReadReopenedQueue DEF FsInv
  <2> QED
    BY <2>1, <2>2
<1>8. OpenIsOriginal'
  BY <1>1, <1>7 DEF OpenIsOriginal, Identity
<1>9. PICK f \in OpenFiles :
        /\ f.index = i
        /\ reply' = [of |-> i, bytes |-> f.file.bytes, size |-> f.file.size]
        /\ \/ \E k \in DOMAIN open : f = open[k]
           \/ Unchanged(i) /\ f = [index |-> i, file |-> onDisk[i]]
  BY ReadAnswersFromAnOpenFile DEF FsInv
<1>10. Original(f)
  BY <1>3, <1>4, <1>9
<1>11. ReadsUnalteredImage'
  BY <1>1, <1>9, <1>10 DEF ReadsUnalteredImage, GetsTheImage, Identity
<1> QED
  BY <1>1, <1>2, <1>5, <1>8, <1>11
  DEF FsInv, SameIsOriginal, Unchanged, Identity, OpenWhenReady, Ready

\* The file that takes the name of an image is not the one that was recorded, or
\* the image counts as altered.
LEMMA DiskReads ==
  ASSUME FsInv, NEW i \in Indices, ReplaceImage(i) \/ RemoveImage(i)
  PROVE  FsInv'
<1>1. UNCHANGED <<images, original, open, fh, reply>> /\ altered \subseteq altered'
  BY DEF ReplaceImage, RemoveImage
<1>2. /\ \A j \in Indices : j # i => onDisk'[j] = onDisk[j]
      /\ i \in DOMAIN images \ altered' =>
           onDisk'[i] = Nobody \/ Identity(onDisk'[i]) # images[i]
  BY DEF ReplaceImage, RemoveImage, FsInv, FsTyped
<1>3. DOMAIN images = 1..Len(images) /\ DOMAIN images \subseteq Indices
  BY ListedLength, LenProperties DEF FsInv, FsTyped
<1>4. SameIsOriginal'
  <2> SUFFICES ASSUME NEW j \in DOMAIN images \ altered', Unchanged(j)'
               PROVE  onDisk'[j].bytes = original[j]
    BY <1>1 DEF SameIsOriginal
  <2>1. j # i
    BY <1>1, <1>2, <1>3 DEF Unchanged
  <2> QED
    BY <1>1, <1>2, <1>3, <2>1 DEF FsInv, SameIsOriginal, Unchanged
<1>5. FsTyped'
  BY DiskTyped DEF FsInv
<1> QED
  BY <1>1, <1>4, <1>5 DEF FsInv, OpenIsOriginal, OpenWhenReady, ReadsUnalteredImage, GetsTheImage, Ready

\* Whoever has a file open that is written in place has the recorded number of
\* his image, so that it counts as altered.
LEMMA RewriteReads ==
  ASSUME FsInv, NEW i \in Indices, RewriteImage(i) PROVE FsInv'
<1>1. PICK f \in FileTypes :
        /\ f.ino = onDisk[i].ino
        /\ onDisk' = [onDisk EXCEPT ![i] = f]
        /\ Len(open') = Len(open) /\ open' \in Seq(OpenFiles)
        /\ \A k \in 1..Len(open) :
             open'[k] = IF open[k].file.ino = f.ino THEN [open[k] EXCEPT !.file = f] ELSE open[k]
        /\ altered' = altered \cup {j \in DOMAIN images : images[j][1] = f.ino}
  BY RewrittenFile DEF FsInv
<1>2. UNCHANGED <<images, original, fh, reply>>
  BY DEF RewriteImage
<1>3. DOMAIN images \subseteq Indices
  BY ListedLength, LenProperties DEF FsInv, FsTyped
<1>4. /\ DOMAIN open = 1..Len(open) /\ DOMAIN open' = 1..Len(open)
      /\ \A k \in 1..Len(open) : open[k] \in OpenFiles
  BY <1>1, LenProperties, ElementOfSeq DEF FsInv, FsTyped
<1>5. SameIsOriginal'
  <2> SUFFICES ASSUME NEW j \in DOMAIN images \ altered', Unchanged(j)'
               PROVE  onDisk'[j].bytes = original[j]
    BY <1>2 DEF SameIsOriginal
  <2>1. j # i
    BY <1>1, <1>2, <1>3 DEF Unchanged, Identity, FsInv, FsTyped
  <2>2. onDisk'[j] = onDisk[j]
    BY <1>1, <1>3, <2>1 DEF FsInv, FsTyped
  <2> QED
    BY <1>1, <1>2, <2>2 DEF FsInv, SameIsOriginal, Unchanged
<1>6. OpenIsOriginal'
  <2> SUFFICES ASSUME NEW k \in 1..Len(open)
               PROVE  LET j == open'[k].index IN
                      /\ j \in DOMAIN images /\ open'[k].file.ino = images[j][1]
                      /\ j \notin altered' =>
                           /\ open'[k].file.size = images[j][2]
                           /\ open'[k].file.bytes = original[j]
    BY <1>2, <1>4 DEF OpenIsOriginal
  <2> DEFINE j == open[k].index
  <2>1. /\ j \in DOMAIN images /\ open[k].file.ino = images[j][1]
        /\ j \notin altered => open[k].file.size = images[j][2] /\ open[k].file.bytes = original[j]
    BY <1>4 DEF FsInv, OpenIsOriginal
  <2>2. CASE open[k].file.ino = f.ino
    <3>1. open'[k].index = j /\ open'[k].file = f
      BY <1>1, <1>4, <2>2 DEF OpenFiles
    <3> QED
      BY <1>1, <2>1, <2>2, <3>1
  <2>3. CASE open[k].file.ino # f.ino
    BY <1>1, <2>1, <2>3
  <2> QED
    BY <2>2, <2>3
<1>7. FsTyped'
  BY RewriteTyped DEF FsInv
<1> QED
  BY <1>1, <1>2, <1>5, <1>6, <1>7 DEF FsInv, OpenWhenReady, ReadsUnalteredImage, GetsTheImage, Ready

LEMMA StepReads ==
  ASSUME FsInv, [FsNext]_fsVars PROVE FsInv'
<1>0. FsTyped'
  BY StepTyped DEF FsInv
<1>1. CASE Register
  BY <1>1, RegisterReads
<1>2. ASSUME NEW i \in Indices, Open(i) \/ Release(i) \/ ReadFails(i)
      PROVE  FsInv'
  <2>1. UNCHANGED <<onDisk, images, original, open, altered>> /\ reply'.of = 0
    BY <1>2 DEF Open, Release, ReadFails, NoBytes
  <2>2. Ready \/ fh' = {} \/ fh # {}
    BY <1>2 DEF Open, Release, ReadFails
  <2> QED
    BY <1>0, <2>1, <2>2
    DEF FsInv, SameIsOriginal, OpenIsOriginal, OpenWhenReady, ReadsUnalteredImage, GetsTheImage, Ready, Unchanged
<1>3. ASSUME NEW i \in Indices, ReadOpen(i) \/ ReadReopened(i)
      PROVE  FsInv'
  BY <1>3, ReadReads
<1>4. ASSUME NEW i \in Indices, ReplaceImage(i) \/ RemoveImage(i)
      PROVE  FsInv'
  BY <1>4, DiskReads
<1>5. ASSUME NEW i \in Indices, RewriteImage(i)
      PROVE  FsInv'
  BY <1>5, RewriteReads
<1>6. CASE UNCHANGED fsVars
  BY <1>0, <1>6
  DEF fsVars, FsInv, SameIsOriginal, OpenIsOriginal, OpenWhenReady, ReadsUnalteredImage, GetsTheImage, Ready, Unchanged
<1> QED
  BY <1>1, <1>2, <1>3, <1>4, <1>5, <1>6 DEF FsNext

\* Whatever happens to the files behind their names, every answered read has the
\* bytes and the size that the image had when the device was made of it
\* (image_fs.rs, read: a file reopened under another identity is an error), unless
\* that image was written again in place (fetchurl.rs:256) or its number given
\* to a file of its size.
THEOREM ReadsUnalteredImageCorrect == FsSpec => []ReadsUnalteredImage
<1>1. FsInit => FsInv
  <2> SUFFICES ASSUME FsInit PROVE FsInv
    OBVIOUS
  <2>1. FsTyped
    BY InitFsTyped
  <2> QED
    BY <2>1
    DEF FsInit, FsInv, SameIsOriginal, OpenIsOriginal, OpenWhenReady, ReadsUnalteredImage, GetsTheImage, NoBytes
<1>2. FsInv => ReadsUnalteredImage
  BY DEF FsInv
<1> QED
  BY <1>1, <1>2, StepReads, PTL DEF FsSpec

-----------------------------------------------------------------------------
(* The parts in MCHost.                                                    *)

\* A step of one part is a step of that part alone, and leaves the others be.
THEOREM PartsKeepTheirSpecs == SafeSpec => StoreSpec /\ EvalSpec /\ FsSpec /\ TarSpec
<1>1. Init => StoreInit /\ EvalInit /\ FsInit /\ TarInit
  BY DEF Init
<1>2. [Next]_allVars => [StoreNext]_storeVars
  BY DEF Next, allVars
<1>3. [Next]_allVars => [EvalNext]_evalVars
  BY DEF Next, allVars
<1>4. [Next]_allVars => [FsNext]_fsVars
  BY DEF Next, allVars
<1>5. [Next]_allVars => [TarNext]_tarVars
  BY DEF Next, allVars
<1> QED
  BY <1>1, <1>2, <1>3, <1>4, <1>5, PTL DEF SafeSpec, StoreSpec, EvalSpec, FsSpec, TarSpec

\* Nothing of the host's parts ever leaves its type; in particular no more
\* permits are taken than there are (tasks/mod.rs:99-110), and no more files
\* are held open than the cache has room for (image_fs.rs:145-160).
THEOREM HostTypeCorrect == SafeSpec => []TypeOK
BY PartsKeepTheirSpecs, StoreTypeCorrect, EvalTypeCorrect, FsTypeCorrect, TarTypeCorrect, PTL
   DEF TypeOK

\* No image of a download, of an output or of an input is ever incomplete,
\* whatever failed or was killed (tasks/fetch.rs:12-15, tasks/eval.rs:85-86), except
\* an input's over which two tasks of one narHash have met.
THEOREM NoPartialImageCorrect == SafeSpec => []NoPartialImage
BY PartsKeepTheirSpecs, InputImagesCorrect, NoPartialStoreImageCorrect, PTL DEF NoPartialImage

=============================================================================
