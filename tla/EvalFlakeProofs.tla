--------------------------- MODULE EvalFlakeProofs ---------------------------
(***************************************************************************)
(* Theorems about InputImages and EvalFlake: an input's image is all of it *)
(* if no two tasks met over it; every source of a result has an            *)
(* image; and while nobody edits the tree during a run, the cache of       *)
(* results holds what its keys stand for.                                  *)
(***************************************************************************)
EXTENDS EvalFlake, FiniteSetTheorems, TLAPS

-----------------------------------------------------------------------------
(* The fetch tasks of the inputs: types and permits.                       *)

FetchStates == {"none", "queued", "done", "failed"} \cup HoldsInputPermit

\* InputTypeOK without the permits.
InputTyped ==
  /\ file \in [InputPaths -> [Names -> (SUBSET Whole) \cup {NoFile}]]
  /\ fetch \in [Inputs -> FetchStates]
  /\ handle \in [Inputs -> Names \cup {"closed", "unlinked"}]
  /\ shared \subseteq InputPaths

\* A file that a task has open under a name is there.
OpenIsThere ==
  \A n \in Inputs : handle[n] \in Names => file[InputPath[n]][handle[n]] # NoFile

HoldingInputs == {n \in Inputs : fetch[n] \in HoldsInputPermit}

\* At most InputPermits fetches hold a permit.
InputPermitsKept ==
  IsFiniteSet(HoldingInputs) /\ Cardinality(HoldingInputs) <= InputPermits

LEMMA InputTypeParts == InputTyped /\ InputPermitsKept <=> InputTypeOK /\ InputPermitsKept
BY DEF InputTyped, InputPermitsKept, InputTypeOK, HoldingInputs, FetchStates

LEMMA FetchInputTyped ==
  ASSUME NEW n \in Inputs, InputTyped, OpenIsThere, FetchInput(n) PROVE InputTyped'
<1> USE DEF InputTyped, FetchStates, HoldsInputPermit, WritingInput, Names, InputStep
<1>0. InputPath[n] \in InputPaths
  BY DEF InputPaths
<1>1. CASE InputPermit(n)
  <2>1. shared' \subseteq InputPaths
    BY <1>0, <1>1 DEF InputPermit
  <2> QED
    BY <1>1, <2>1 DEF InputPermit
<1>2. CASE CreateTmp(n)
  BY <1>0, <1>2 DEF CreateTmp
<1>3. CASE WritePart(n)
  <2>1. /\ fetch' \in [Inputs -> FetchStates] /\ fetch[n] \in Whole
        /\ UNCHANGED <<handle, shared>>
    BY <1>3 DEF WritePart, Whole
  <2>2. CASE handle[n] \in Names
    <3>1. file[InputPath[n]][handle[n]] \in SUBSET Whole
      BY <1>0, <2>2 DEF OpenIsThere
    <3>2. file[InputPath[n]][handle[n]] \cup {fetch[n]} \in SUBSET Whole
      BY <2>1, <3>1
    <3>3. file' = [file EXCEPT ![InputPath[n]][handle[n]] = @ \cup {fetch[n]}]
      BY <1>3, <2>2 DEF WritePart
    <3> QED
      BY <1>0, <2>1, <2>2, <3>2, <3>3
  <2>3. CASE handle[n] \notin Names
    BY <1>3, <2>1, <2>3 DEF WritePart
  <2> QED
    BY <2>2, <2>3
<1>4. CASE FallBack(n)
  BY <1>4 DEF FallBack
<1>5. CASE VerifyInput(n)
  BY <1>5 DEF VerifyInput
<1>6. CASE RenameInput(n)
  BY <1>0, <1>6 DEF RenameInput
<1>7. CASE FetchInputFails(n)
  BY <1>0, <1>7 DEF FetchInputFails
<1> QED
  BY <1>1, <1>2, <1>3, <1>4, <1>5, <1>6, <1>7 DEF FetchInput

\* A rename or a removal takes the name away from whoever has the file open.
LEMMA FetchInputOpen ==
  ASSUME NEW n \in Inputs, InputTyped, OpenIsThere, FetchInput(n) PROVE OpenIsThere'
<1> USE DEF InputTyped, OpenIsThere, Names, InputStep, NoFile
<1>0. \A m \in Inputs : InputPath[m] \in InputPaths
  BY DEF InputPaths
<1>1. CASE InputPermit(n)
  BY <1>1 DEF InputPermit
<1>2. CASE CreateTmp(n)
  BY <1>0, <1>2 DEF CreateTmp
<1>3. CASE WritePart(n)
  <2>1. fetch[n] # "no file" /\ handle' = handle
    BY <1>3 DEF WritePart
  <2>2. CASE handle[n] \in Names
    <3>1. file' = [file EXCEPT ![InputPath[n]][handle[n]] = @ \cup {fetch[n]}]
      BY <1>3, <2>2 DEF WritePart
    <3> QED
      BY <1>0, <2>1, <2>2, <3>1
  <2>3. CASE handle[n] \notin Names
    BY <1>3, <2>1, <2>3 DEF WritePart
  <2> QED
    BY <2>2, <2>3
<1>4. CASE FallBack(n)
  BY <1>4 DEF FallBack
<1>5. CASE VerifyInput(n)
  BY <1>5 DEF VerifyInput
<1>6. CASE RenameInput(n)
  BY <1>0, <1>6 DEF RenameInput
<1>7. CASE FetchInputFails(n)
  BY <1>0, <1>7 DEF FetchInputFails
<1> QED
  BY <1>1, <1>2, <1>3, <1>4, <1>5, <1>6, <1>7 DEF FetchInput

\* An image that is there stays, whatever a task does.
LEMMA ImageStays ==
  ASSUME NEW n \in Inputs, InputTyped, OpenIsThere, FetchInput(n),
         NEW p \in InputPaths, file[p]["image"] # NoFile
  PROVE  file'[p]["image"] # NoFile
<1> USE DEF InputTyped, Names, InputStep, NoFile
<1>1. InputPath[n] \in InputPaths
  BY DEF InputPaths
<1>2. CASE InputPermit(n) \/ FallBack(n) \/ VerifyInput(n)
  BY <1>2 DEF InputPermit, FallBack, VerifyInput
<1>3. CASE CreateTmp(n)
  BY <1>1, <1>3 DEF CreateTmp
<1>4. CASE WritePart(n)
  <2>1. fetch[n] # "no file"
    BY <1>4 DEF WritePart
  <2> QED
    BY <1>1, <1>4, <2>1, ZenonT(60) DEF WritePart
<1>5. CASE RenameInput(n)
  BY <1>1, <1>5 DEF RenameInput
<1>6. CASE FetchInputFails(n)
  BY <1>1, <1>6 DEF FetchInputFails
<1> QED
  BY <1>2, <1>3, <1>4, <1>5, <1>6 DEF FetchInput

\* A step after which no other task holds a permit keeps the bound; a permit is
\* taken only while one is free.
LEMMA FewerInputsHold ==
  ASSUME InputPermitsKept, HoldingInputs' \subseteq HoldingInputs PROVE InputPermitsKept'
<1>1. /\ IsFiniteSet(HoldingInputs')
      /\ Cardinality(HoldingInputs') <= Cardinality(HoldingInputs)
  BY FS_Subset DEF InputPermitsKept
<1>2. Cardinality(HoldingInputs') \in Nat /\ Cardinality(HoldingInputs) \in Nat
  BY <1>1, FS_CardinalityType DEF InputPermitsKept
<1> QED
  BY <1>1, <1>2, InputAssumption DEF InputPermitsKept

LEMMA FetchInputPermits ==
  ASSUME NEW n \in Inputs, InputTyped, InputPermitsKept, FetchInput(n)
  PROVE  InputPermitsKept'
<1> USE DEF InputTyped, HoldsInputPermit, WritingInput, InputStep
<1>1. CASE InputPermit(n)
  <2>1. HoldingInputs' = HoldingInputs \cup {n} /\ n \notin HoldingInputs
    BY <1>1 DEF InputPermit, HoldingInputs
  <2>2. /\ Cardinality(HoldingInputs') = Cardinality(HoldingInputs) + 1
        /\ IsFiniteSet(HoldingInputs')
    BY <2>1, FS_AddElement DEF InputPermitsKept
  <2>3. Cardinality(HoldingInputs) \in Nat /\ Cardinality(HoldingInputs) < InputPermits
    BY <1>1, FS_CardinalityType DEF InputPermit, InputPermitsKept, HoldingInputs
  <2> QED
    BY <2>2, <2>3, InputAssumption DEF InputPermitsKept
<1>2. ASSUME ~InputPermit(n) PROVE HoldingInputs' \subseteq HoldingInputs
  BY <1>2 DEF FetchInput, CreateTmp, WritePart, FallBack, VerifyInput, RenameInput,
       FetchInputFails, HoldingInputs
<1> QED
  BY <1>1, <1>2, FewerInputsHold

-----------------------------------------------------------------------------
(* The images of inputs are whole.                                         *)

\* What is done to a temporary touches neither its image nor the files of others.
LEMMA OnlyTheDownload ==
  ASSUME InputTyped, NEW p \in InputPaths, NEW x,
         file' = [file EXCEPT ![p]["download"] = x]
  PROVE  /\ file'[p]["download"] = x
         /\ \A q \in InputPaths : file'[q]["image"] = file[q]["image"]
         /\ \A q \in InputPaths \ {p} : file'[q] = file[q]
<1>1. file \in [InputPaths -> [Names -> (SUBSET Whole) \cup {NoFile}]]
  BY DEF InputTyped
<1>2. file[p] \in [Names -> (SUBSET Whole) \cup {NoFile}] /\ {"download", "image"} = Names
  BY <1>1 DEF Names
<1>3. file'[p] = [file[p] EXCEPT !["download"] = x]
  BY <1>1
<1>4. \A q \in InputPaths \ {p} : file'[q] = file[q]
  BY <1>1
<1> QED
  BY <1>2, <1>3, <1>4

\* A task that moves on, with its own temporary at most, and is not at the point
\* where it is verified, leaves what the others verified, and all images.
LEMMA OthersStayWhole ==
  ASSUME VerifiedStaysWhole, UnsharedImagesAreWhole, InputTyped,
         NEW n \in Inputs, shared' = shared,
         fetch[n] \in HoldsInputPermit,
         \A q \in InputPaths : file'[q]["image"] = file[q]["image"],
         \A q \in InputPaths \ {InputPath[n]} : file'[q] = file[q],
         \A m \in Inputs \ {n} : fetch'[m] = fetch[m],
         \A m \in Inputs \ {n} : InputPath[m] \notin shared => handle'[m] = handle[m],
         fetch'[n] # "verified",
         InputPath[n] \notin shared =>
           handle'[n] = "closed" \/
             (handle'[n] = "download" /\ fetch'[n] \in {"head", "tail", "written"})
  PROVE  VerifiedStaysWhole' /\ UnsharedImagesAreWhole'
<1>1. UnsharedImagesAreWhole'
  BY DEF UnsharedImagesAreWhole
<1>2. ASSUME NEW m \in Inputs \ {n}, InputPath[m] \notin shared
      PROVE  /\ handle'[m] = "closed" \/
                  (handle'[m] = "download" /\ fetch'[m] \in {"head", "tail", "written"})
             /\ fetch'[m] = "verified" => file'[InputPath[m]]["download"] = Whole
             /\ fetch'[m] \in HoldsInputPermit => Alone(m)'
  <2>1. CASE InputPath[m] = InputPath[n]
    <3>1. fetch'[m] \notin HoldsInputPermit
      BY <1>2, <2>1 DEF VerifiedStaysWhole, Alone, Twins
    <3>2. fetch'[m] # "verified" /\ handle'[m] = handle[m]
      BY <1>2, <3>1 DEF HoldsInputPermit
    <3> QED
      BY <1>2, <3>1, <3>2 DEF VerifiedStaysWhole
  <2>2. CASE InputPath[m] # InputPath[n]
    <3>1. file'[InputPath[m]] = file[InputPath[m]]
      BY <2>2 DEF InputPaths
    <3>2. fetch'[m] \in HoldsInputPermit => Alone(m)'
      BY <1>2, <2>2 DEF VerifiedStaysWhole, Alone, Twins
    <3> QED
      BY <1>2, <3>1, <3>2 DEF VerifiedStaysWhole
  <2> QED
    BY <2>1, <2>2
<1>3. InputPath[n] \notin shared => Alone(n)'
  BY DEF VerifiedStaysWhole, Alone, Twins
<1>4. VerifiedStaysWhole'
  BY <1>2, <1>3 DEF VerifiedStaysWhole
<1> QED
  BY <1>1, <1>4

\* A permit is taken for a path nobody is at work on, or the path is shared.
LEMMA PermitIsAlone ==
  ASSUME VerifiedStaysWhole, UnsharedImagesAreWhole, InputTyped, NEW n \in Inputs, InputPermit(n)
  PROVE  VerifiedStaysWhole' /\ UnsharedImagesAreWhole'
<1> DEFINE p == InputPath[n]
<1>1. /\ fetch[n] = "queued" /\ fetch' = [fetch EXCEPT ![n] = "opening"]
      /\ shared' = shared \cup {q \in {p} : ~Alone(n)} /\ UNCHANGED <<file, handle>>
  BY DEF InputPermit, InputStep
<1>2. fetch \in [Inputs -> FetchStates] /\ shared \subseteq shared'
  BY <1>1 DEF InputTyped
<1>3. UnsharedImagesAreWhole'
  BY <1>1, <1>2 DEF UnsharedImagesAreWhole
<1>4. fetch'[n] = "opening" /\ \A m \in Inputs \ {n} : fetch'[m] = fetch[m]
  BY <1>1, <1>2
<1>5. p \notin shared' => Alone(n)
  BY <1>1
<1>6. ASSUME NEW m \in Inputs, InputPath[m] \notin shared', fetch'[m] \in HoldsInputPermit
      PROVE  Alone(m)'
  <2>1. CASE InputPath[m] = p
    <3>1. m = n
      BY <1>4, <1>5, <1>6, <2>1 DEF Alone, Twins
    <3> QED
      BY <1>4, <1>5, <1>6, <3>1 DEF Alone, Twins
  <2>2. CASE InputPath[m] # p
    BY <1>2, <1>4, <1>6, <2>2 DEF VerifiedStaysWhole, Alone, Twins
  <2> QED
    BY <2>1, <2>2
<1>7. ASSUME NEW m \in Inputs, InputPath[m] \notin shared'
      PROVE  /\ handle'[m] = "closed" \/
                  (handle'[m] = "download" /\ fetch'[m] \in {"head", "tail", "written"})
             /\ fetch'[m] = "verified" => file'[InputPath[m]]["download"] = Whole
  <2>1. InputPath[m] \notin shared
    BY <1>2, <1>7
  <2> QED
    BY <1>1, <1>4, <2>1 DEF VerifiedStaysWhole
<1> QED
  BY <1>3, <1>6, <1>7 DEF VerifiedStaysWhole

\* As no other task is at work on the temporary, what a task verified is what it
\* renames; nobody has it open by then.
LEMMA RenameIsWhole ==
  ASSUME VerifiedStaysWhole, UnsharedImagesAreWhole, InputTyped, NEW n \in Inputs, RenameInput(n)
  PROVE  VerifiedStaysWhole' /\ UnsharedImagesAreWhole'
<1> DEFINE p == InputPath[n] tmp == file[p]["download"]
<1>1. /\ fetch[n] = "verified" /\ fetch' = [fetch EXCEPT ![n] = "done"] /\ shared' = shared
      /\ file' = [file EXCEPT ![p] = [download |-> NoFile, image |-> tmp]]
      /\ handle' = [m \in Inputs |->
           CASE InputPath[m] = p /\ handle[m] = "download" -> "image"
             [] InputPath[m] = p /\ handle[m] = "image" -> "unlinked"
             [] OTHER -> handle[m]]
  BY DEF RenameInput, InputStep
<1>2. /\ fetch \in [Inputs -> FetchStates]
      /\ p \in InputPaths /\ \A m \in Inputs : InputPath[m] \in InputPaths
      /\ file \in [InputPaths -> [Names -> (SUBSET Whole) \cup {NoFile}]]
  BY DEF InputTyped, InputPaths
<1>3. p \notin shared => tmp = Whole /\ Alone(n)
  BY <1>1 DEF VerifiedStaysWhole, HoldsInputPermit
<1>4. file'[p]["image"] = tmp /\ \A q \in InputPaths \ {p} : file'[q] = file[q]
  BY <1>1, <1>2
<1>5. UnsharedImagesAreWhole'
  BY <1>1, <1>3, <1>4 DEF UnsharedImagesAreWhole
<1>6. fetch'[n] = "done" /\ \A m \in Inputs \ {n} : fetch'[m] = fetch[m]
  BY <1>1, <1>2
<1>7. ASSUME NEW m \in Inputs, InputPath[m] \notin shared
      PROVE  /\ handle'[m] = "closed" \/
                  (handle'[m] = "download" /\ fetch'[m] \in {"head", "tail", "written"})
             /\ fetch'[m] = "verified" => file'[InputPath[m]]["download"] = Whole
  <2>1. CASE InputPath[m] = p
    <3>1. fetch'[m] \notin HoldsInputPermit
      BY <1>3, <1>6, <1>7, <2>1 DEF Alone, Twins, HoldsInputPermit, WritingInput
    <3>2. handle[m] = "closed"
      <4>1. CASE m = n
        BY <1>1, <1>7, <4>1 DEF VerifiedStaysWhole
      <4>2. CASE m # n
        BY <1>6, <1>7, <3>1, <4>2 DEF VerifiedStaysWhole, HoldsInputPermit, WritingInput
      <4> QED
        BY <4>1, <4>2
    <3> QED
      BY <1>1, <3>1, <3>2 DEF HoldsInputPermit
  <2>2. CASE InputPath[m] # p
    <3>1. /\ m # n /\ fetch'[m] = fetch[m] /\ handle'[m] = handle[m]
          /\ file'[InputPath[m]] = file[InputPath[m]]
      BY <1>1, <1>2, <1>4, <1>6, <2>2
    <3> QED
      BY <1>7, <3>1 DEF VerifiedStaysWhole
  <2> QED
    BY <2>1, <2>2
<1>8. ASSUME NEW m \in Inputs, InputPath[m] \notin shared, fetch'[m] \in HoldsInputPermit
      PROVE  Alone(m)'
  <2>1. m # n /\ fetch[m] \in HoldsInputPermit
    BY <1>6, <1>8 DEF HoldsInputPermit, WritingInput
  <2> QED
    BY <1>6, <1>8, <2>1 DEF VerifiedStaysWhole, Alone, Twins, HoldsInputPermit, WritingInput
<1> QED
  BY <1>1, <1>5, <1>7, <1>8 DEF VerifiedStaysWhole

LEMMA FetchInputWhole ==
  ASSUME NEW n \in Inputs, InputTyped, FetchInput(n),
         VerifiedStaysWhole, UnsharedImagesAreWhole
  PROVE  VerifiedStaysWhole' /\ UnsharedImagesAreWhole'
<1> USE DEF InputStep, HoldsInputPermit, WritingInput
<1> DEFINE p == InputPath[n]
<1>a. p \in InputPaths /\ \A m \in Inputs : InputPath[m] \in InputPaths
  BY DEF InputPaths
<1>b. fetch \in [Inputs -> FetchStates] /\ DOMAIN handle = Inputs
  BY DEF InputTyped
<1>c. \A m \in Inputs : InputPath[m] \notin shared => handle[m] \in {"closed", "download"}
  BY DEF VerifiedStaysWhole
<1>1. CASE InputPermit(n)
  BY <1>1, PermitIsAlone
<1>2. CASE CreateTmp(n)
  <2>1. file' = [file EXCEPT ![p]["download"] = {}] /\ shared' = shared
    BY <1>2 DEF CreateTmp
  <2> QED
    BY <1>2, <1>a, <1>b, <2>1, OnlyTheDownload, OthersStayWhole DEF CreateTmp
<1>3. CASE WritePart(n)
  <2>1. /\ handle' = handle /\ shared' = shared /\ fetch[n] \in {"head", "tail"}
        /\ fetch' \in {[fetch EXCEPT ![n] = "tail"], [fetch EXCEPT ![n] = "written"]}
    BY <1>3 DEF WritePart
  <2>2. CASE handle[n] \notin Names
    BY <1>3, <1>b, <1>c, <2>1, <2>2, OthersStayWhole DEF WritePart, Names
  <2>3. CASE handle[n] = "download"
    <3>1. file' = [file EXCEPT ![p]["download"] = file[p]["download"] \cup {fetch[n]}]
      BY <1>3, <2>3 DEF WritePart, Names
    <3> QED
      BY <1>a, <1>b, <2>1, <2>3, <3>1, OnlyTheDownload, OthersStayWhole
  <2>4. CASE handle[n] = "image"
    \* Only the task of a shared path has its file renamed under it.
    <3>1. p \in shared
      BY <1>c, <2>4
    <3>2. \A q \in InputPaths \ {p} : file'[q] = file[q]
      BY <1>3, <1>a, <2>4 DEF WritePart, Names, InputTyped
    <3>3. UnsharedImagesAreWhole'
      BY <2>1, <3>1, <3>2 DEF UnsharedImagesAreWhole
    <3>4. \A m \in Inputs : InputPath[m] \notin shared =>
            m # n /\ fetch'[m] = fetch[m] /\ file'[InputPath[m]] = file[InputPath[m]]
      BY <1>a, <1>b, <2>1, <3>1, <3>2
    <3>5. \A m \in Inputs : InputPath[m] \notin shared => (Alone(m) <=> Alone(m)')
      BY <1>b, <2>1, <3>1 DEF Alone, Twins
    <3> QED
      BY <2>1, <3>3, <3>4, <3>5 DEF VerifiedStaysWhole
  <2> QED
    BY <2>2, <2>3, <2>4 DEF Names
<1>4. CASE FallBack(n)
  BY <1>4, <1>b, <1>c, OthersStayWhole DEF FallBack
<1>5. CASE VerifyInput(n)
  <2>1. /\ fetch[n] = "written" /\ fetch' = [fetch EXCEPT ![n] = "verified"]
        /\ handle' = [handle EXCEPT ![n] = "closed"] /\ UNCHANGED <<file, shared>>
        /\ file[p]["download"] = Whole
    BY <1>5 DEF VerifyInput
  <2>2. \A m \in Inputs : fetch'[m] \in HoldsInputPermit <=> fetch[m] \in HoldsInputPermit
    BY <1>b, <2>1
  <2>3. \A m \in Inputs : Alone(m) <=> Alone(m)'
    BY <2>2 DEF Alone, Twins
  <2> QED
    BY <1>b, <2>1, <2>2, <2>3 DEF VerifiedStaysWhole, UnsharedImagesAreWhole
<1>6. CASE RenameInput(n)
  BY <1>6, RenameIsWhole
<1>7. CASE FetchInputFails(n)
  <2>1. /\ file' = [file EXCEPT ![p]["download"] = NoFile] /\ shared' = shared
        /\ fetch[n] \in HoldsInputPermit /\ fetch' = [fetch EXCEPT ![n] = "failed"]
    BY <1>7 DEF FetchInputFails
  <2>2. /\ handle'[n] = "closed"
        /\ \A m \in Inputs \ {n} :
             handle'[m] = handle[m] \/ (InputPath[m] = p /\ handle[m] = "download")
    BY <1>7 DEF FetchInputFails
  <2>3. ASSUME NEW m \in Inputs \ {n}, InputPath[m] \notin shared PROVE handle'[m] = handle[m]
    BY <2>1, <2>2, <2>3 DEF VerifiedStaysWhole, Alone, Twins
  <2> QED
    BY <1>a, <1>b, <2>1, <2>2, <2>3, OnlyTheDownload, OthersStayWhole
<1> QED
  BY <1>1, <1>2, <1>3, <1>4, <1>5, <1>6, <1>7 DEF FetchInput

-----------------------------------------------------------------------------
(* The graph of derivations.                                               *)

\* There is a least set that is closed under inputs and has r in it: ClosureOf.
LEMMA ClosureIsLeast ==
  ASSUME NEW r \in Drvs
  PROVE  /\ ClosureOf[r] \in SUBSET Drvs /\ r \in ClosureOf[r] /\ Closed(ClosureOf[r])
         /\ \A T \in SUBSET ClosureOf[r] : r \in T /\ Closed(T) => T = ClosureOf[r]
<1> DEFINE Holds(S) == r \in S /\ Closed(S)
           least == {d \in Drvs : \A T \in SUBSET Drvs : Holds(T) => d \in T}
<1>1. least \in SUBSET Drvs /\ r \in least
  OBVIOUS
<1>2. Closed(least)
  BY EvalAssumption DEF Closed
<1>3. \A T \in SUBSET least : Holds(T) => T = least
  OBVIOUS
<1>4. \E S \in SUBSET Drvs :
        /\ r \in S /\ Closed(S)
        /\ \A T \in SUBSET S : r \in T /\ Closed(T) => T = S
  BY <1>1, <1>2, <1>3
<1> QED
  BY <1>4 DEF ClosureOf

\* Of a closure, only its root can be a derivation that no other refers to.
LEMMA RootIsFound ==
  ASSUME NEW r \in Drvs PROVE FindRoot(ClosureOf[r]) \subseteq {r}
<1> DEFINE S == ClosureOf[r]
<1>1. /\ S \in SUBSET Drvs /\ r \in S /\ Closed(S)
      /\ \A T \in SUBSET S : r \in T /\ Closed(T) => T = S
  BY ClosureIsLeast
<1> SUFFICES ASSUME NEW d \in FindRoot(S), d # r PROVE FALSE
  OBVIOUS
<1>2. d \in S /\ \A e \in S : d \notin InputDrvs[e]
  BY DEF FindRoot
<1> HIDE DEF S
<1>3. S \ {d} \in SUBSET S /\ r \in S \ {d}
  BY <1>1
<1>4. Closed(S \ {d})
  BY <1>1, <1>2 DEF Closed
<1> QED
  BY <1>1, <1>2, <1>3, <1>4

\* One of several attributes is more than one of them.
LEMMA OneOrMore ==
  ASSUME NEW S, IsFiniteSet(S), Cardinality(S) <= 1, NEW a \in S
  PROVE  S = {a}
<1> SUFFICES ASSUME NEW b \in S, b # a PROVE FALSE
  OBVIOUS
<1>1. /\ IsFiniteSet({a}) /\ Cardinality({a}) = 1
      /\ Cardinality({a} \cup {b}) = Cardinality({a}) + 1 /\ IsFiniteSet({a} \cup {b})
  BY FS_Singleton, FS_AddElement
<1>2. {a} \cup {b} \subseteq S
  OBVIOUS
<1>3. Cardinality({a} \cup {b}) <= Cardinality(S)
  BY <1>2, FS_Subset
<1>4. Cardinality(S) \in Nat
  BY FS_CardinalityType
<1> QED
  BY <1>1, <1>3, <1>4

-----------------------------------------------------------------------------
(* A run: types, and what it starts from.                                  *)

AllSources == Sources \cup InputPaths

\* The typing part of EvalTypeOK, without the permits.
EvalTyped ==
  /\ InputTyped /\ OpenIsThere
  /\ tree \in Trees /\ imaged \subseteq Sources
  /\ extras \subseteq SUBSET AllSources /\ scratch \in {None, "empty", "packed"}
  /\ phase \in {"idle", "lookup", "fetch", "boot", "show", "pack", "rename", "store", "done"}
  /\ lock \subseteq Inputs /\ asked \subseteq Attrs /\ uncached \subseteq Attrs
  /\ DOMAIN cached \subseteq Attrs \X (SUBSET Inputs) \X Trees
  /\ writing \subseteq DOMAIN cached /\ (writing = {} \/ \E k : writing = {k})
  /\ DOMAIN result \subseteq Attrs /\ DOMAIN packed \subseteq uncached
  /\ \A a \in DOMAIN packed : packed[a] \subseteq AllSources
  /\ evals \in 0..MaxEvals

LEMMA ExtendedIs ==
  ASSUME NEW f, NEW g
  PROVE  /\ DOMAIN Extended(f, g) = DOMAIN f \cup DOMAIN g
         /\ \A x \in DOMAIN g : Extended(f, g)[x] = g[x]
         /\ \A x \in DOMAIN f \ DOMAIN g : Extended(f, g)[x] = f[x]
BY DEF Extended

LEMMA EmptyDomain == DOMAIN << >> = {}
OBVIOUS

LEMMA InitEval ==
  EvalInit => EvalTyped /\ InputPermitsKept /\ RunsAreApart /\ RunIsCovered
<1> SUFFICES ASSUME EvalInit
             PROVE  EvalTyped /\ InputPermitsKept /\ RunsAreApart /\ RunIsCovered
  OBVIOUS
<1>1. InputTyped /\ OpenIsThere
  BY DEF EvalInit, InputInit, NoFiles, InputTyped, OpenIsThere, FetchStates, Names
<1>2. EvalTyped
  BY <1>1, EvalAssumption, EmptyDomain DEF EvalInit, EvalTyped, None
<1>3. HoldingInputs = {}
  BY DEF EvalInit, InputInit, HoldingInputs, HoldsInputPermit, WritingInput
<1>4. InputPermitsKept
  BY <1>3, FS_EmptySet, InputAssumption DEF InputPermitsKept
<1>5. RunsAreApart
  BY EmptyDomain DEF EvalInit, InputInit, RunsAreApart
<1>6. RunIsCovered
  BY EmptyDomain DEF EvalInit, RunIsCovered
<1> QED
  BY <1>2, <1>4, <1>5, <1>6

\* A run that ends, in whatever way, leaves what is on disk.
LEMMA QuitsKeeps ==
  ASSUME EvalTyped, InputPermitsKept, RunsAreApart, RunIsCovered,
         Quits, UNCHANGED <<tree, disk, evals, file>>
  PROVE  /\ EvalTyped' /\ InputPermitsKept' /\ RunsAreApart' /\ RunIsCovered'
<1> USE DEF Quits, DropFetches, disk
<1>1. InputTyped' /\ OpenIsThere'
  BY DEF EvalTyped, InputTyped, OpenIsThere, FetchStates, Names
<1>2. EvalTyped'
  BY <1>1, EmptyDomain DEF EvalTyped
<1>3. HoldingInputs' = {}
  BY DEF HoldingInputs, HoldsInputPermit, WritingInput
<1>4. InputPermitsKept'
  BY <1>3, FS_EmptySet, InputAssumption DEF InputPermitsKept
<1>5. RunsAreApart'
  BY EmptyDomain DEF RunsAreApart
<1>6. RunIsCovered'
  BY EmptyDomain DEF RunIsCovered
<1> QED
  BY <1>2, <1>4, <1>5, <1>6

\* The paths that an evaluation packs are sources that a derivation has.
LEMMA DerivationShowTyped ==
  ASSUME EvalTyped, DerivationShow PROVE EvalTyped'
<1> DEFINE shown == UNION {ClosureOf[RootOf[tree][a]] : a \in uncached}
<1>1. PICK rootOf \in [uncached -> shown] :
        /\ result' = Extended(result, rootOf)
        /\ packed' = [a \in uncached |-> Uncovered(rootOf[a])]
  BY DEF DerivationShow
<1>2. \A a \in uncached : RootOf[tree][a] \in Drvs
  BY EvalAssumption DEF EvalTyped
<1>3. shown \subseteq Drvs
  BY <1>2, ClosureIsLeast
<1>4. \A a \in uncached : Uncovered(rootOf[a]) \subseteq AllSources
  BY <1>1, <1>3, SourcesAssumption DEF Uncovered, AllSources
<1>5. DOMAIN result' = DOMAIN result \cup uncached
  BY <1>1, ExtendedIs
<1>6. /\ DOMAIN packed' = uncached
      /\ \A a \in uncached : packed'[a] = Uncovered(rootOf[a])
  BY <1>1
<1>7. InputTyped' /\ OpenIsThere'
  BY DEF DerivationShow, EvalTyped, InputTyped, OpenIsThere, inputVars
<1>8. /\ UNCHANGED <<tree, cached, imaged, extras, scratch, lock, asked, uncached, writing, evals>>
      /\ phase' = "pack"
  BY DEF DerivationShow, disk, Moves
<1>9. \A a \in DOMAIN packed' : packed'[a] \subseteq AllSources'
  BY <1>4, <1>6 DEF AllSources, InputPaths
<1>10. DOMAIN result' \subseteq Attrs /\ DOMAIN packed' \subseteq uncached'
  BY <1>5, <1>6, <1>8 DEF EvalTyped
<1>11. extras' \subseteq SUBSET AllSources'
  BY <1>8 DEF EvalTyped, AllSources, InputPaths
<1> HIDE DEF shown
<1> QED
  BY <1>7, <1>8, <1>9, <1>10, <1>11 DEF EvalTyped

LEMMA RunEvalTyped ==
  ASSUME EvalTyped, RunsAreApart,
         ReadLock \/ (RunEval /\ ~EvalFails /\ ~InputFails) \/ Edit
  PROVE  EvalTyped'
<1> USE DEF inputVars, disk, work, Moves
<1>a. AllSources' = AllSources
  BY DEF AllSources, InputPaths
<1>i. ASSUME UNCHANGED inputVars PROVE InputTyped' /\ OpenIsThere'
  BY <1>i DEF EvalTyped, InputTyped, OpenIsThere
<1>1. CASE ReadLock
  <2>1. lock' \subseteq Inputs /\ evals' \in 0..MaxEvals /\ asked' \subseteq Attrs
    BY <1>1, EvalAssumption DEF ReadLock, EvalTyped
  <2> QED
    BY <1>1, <1>a, <1>i, <2>1 DEF ReadLock, EvalTyped
<1>2. ASSUME NEW a \in Attrs, LookUp(a) PROVE EvalTyped'
  <2>1. DOMAIN result' \subseteq Attrs /\ uncached \subseteq uncached' /\ uncached' \subseteq Attrs
    <3>1. CASE IsHit(a)
      <4>1. PICK g : result' = Extended(result, g) /\ DOMAIN g = {a} /\ uncached' = uncached
        BY <1>2, <3>1 DEF LookUp
      <4> QED
        BY <4>1, ExtendedIs DEF EvalTyped
    <3>2. CASE ~IsHit(a)
      BY <1>2, <3>2 DEF LookUp, EvalTyped
    <3> QED
      BY <3>1, <3>2
  <2>2. /\ UNCHANGED <<tree, disk, phase, lock, packed, writing, evals, inputVars>>
        /\ asked' \subseteq asked
    BY <1>2 DEF LookUp
  <2> QED
    BY <1>a, <1>i, <2>1, <2>2 DEF EvalTyped
<1>3. CASE LookedUp
  <2>1. fetch' \in [Inputs -> FetchStates]
    BY <1>3 DEF LookedUp, SpawnFetches, EvalTyped, InputTyped, FetchStates
  <2>2. InputTyped' /\ OpenIsThere'
    BY <1>3, <2>1 DEF LookedUp, EvalTyped, InputTyped, OpenIsThere
  <2> QED
    BY <1>3, <1>a, <2>2 DEF LookedUp, EvalTyped
<1>4. CASE InputsFetched \/ PackStorePaths
  BY <1>4, <1>a, <1>i DEF InputsFetched, PackStorePaths, EvalTyped
<1>5. CASE NixEval
  BY <1>5, <1>a, <1>i DEF NixEval, EvalTyped
<1>6. CASE DerivationShow
  BY <1>6, DerivationShowTyped
<1>7. CASE NothingToPack
  BY <1>7, <1>a, <1>i DEF NothingToPack, EvalTyped
<1>8. CASE RenameExtras
  <2>1. AllPacked \subseteq AllSources
    <3>1. uncached \subseteq DOMAIN packed
      BY <1>8 DEF RenameExtras, RunsAreApart
    <3> QED
      BY <3>1 DEF AllPacked, EvalTyped
  <2> QED
    BY <1>8, <1>a, <1>i, <2>1 DEF RenameExtras, EvalTyped
<1>9. ASSUME NEW a \in Attrs, CreateEntry(a) PROVE EvalTyped'
  <2>1. /\ DOMAIN cached' = DOMAIN cached \cup {Key(a)} /\ writing' = {Key(a)}
        /\ asked' \subseteq asked
        /\ UNCHANGED <<tree, imaged, extras, scratch, phase, lock, uncached, result, packed,
                       evals, inputVars>>
    BY <1>9, ExtendedIs DEF CreateEntry
  <2>2. Key(a) \in Attrs \X (SUBSET Inputs) \X Trees
    BY DEF Key, EvalTyped
  <2> QED
    BY <1>a, <1>i, <2>1, <2>2 DEF EvalTyped
<1>10. CASE WriteEntry
  BY <1>10, <1>a, <1>i DEF WriteEntry, EvalTyped
<1>11. CASE Stored
  BY <1>11, <1>a, <1>i DEF Stored, EvalTyped
<1>12. CASE Edit
  BY <1>12, <1>a, <1>i DEF Edit, EvalTyped
<1> QED
  BY <1>1, <1>2, <1>3, <1>4, <1>5, <1>6, <1>7, <1>8, <1>9, <1>10, <1>11, <1>12 DEF RunEval

\* The inputs are fetched in one phase only; images go between the runs only.
LEMMA FetchTasksTyped ==
  ASSUME EvalTyped, FetchTasks \/ (DiskChanges /\ RunsAreApart) PROVE EvalTyped'
<1>a. AllSources' = AllSources
  BY DEF AllSources, InputPaths
<1>1. CASE FetchTasks
  <2>1. InputTyped' /\ OpenIsThere'
    BY <1>1, FetchInputTyped, FetchInputOpen DEF FetchTasks, EvalTyped
  <2> QED
    BY <1>1, <1>a, <2>1 DEF FetchTasks, EvalTyped, disk, work
<1>2. CASE DiskChanges /\ RunsAreApart
  <2>1. \A n \in Inputs : handle[n] = "closed"
    BY <1>2 DEF DiskChanges, Idle, RunsAreApart
  <2>2. file' \in [InputPaths -> [Names -> (SUBSET Whole) \cup {NoFile}]]
    BY <1>2 DEF DiskChanges, EvalTyped, InputTyped, Names
  <2>3. InputTyped' /\ OpenIsThere'
    BY <1>2, <2>1, <2>2 DEF DiskChanges, EvalTyped, InputTyped, OpenIsThere, Names
  <2>4. imaged' \subseteq Sources /\ extras' \subseteq SUBSET AllSources
    BY <1>2 DEF DiskChanges, EvalTyped
  <2> QED
    BY <1>2, <1>a, <2>3, <2>4 DEF DiskChanges, EvalTyped, work
<1> QED
  BY <1>1, <1>2

\* A permit is taken by a fetch task, and by nothing else.
LEMMA NextEvalPermits ==
  ASSUME EvalTyped, InputPermitsKept, RunsAreApart,
         ReadLock \/ RunEval \/ FetchTasks \/ DiskChanges \/ Edit
  PROVE  InputPermitsKept'
<1>a. ASSUME UNCHANGED fetch PROVE InputPermitsKept'
  BY <1>a DEF InputPermitsKept, HoldingInputs
<1>1. CASE FetchTasks
  BY <1>1, FetchInputPermits DEF FetchTasks, EvalTyped
<1>2. CASE ReadLock \/ DiskChanges \/ Edit
  BY <1>2, <1>a DEF ReadLock, DiskChanges, Edit, inputVars
<1>3. CASE LookedUp
  <2>1. HoldingInputs' \subseteq HoldingInputs
    BY <1>3 DEF LookedUp, SpawnFetches, HoldingInputs, HoldsInputPermit, WritingInput
  <2> QED
    BY <2>1, FewerInputsHold
<1>4. CASE InputFails \/ EvalFails
  <2>1. HoldingInputs' \subseteq HoldingInputs
    BY <1>4 DEF InputFails, EvalFails, Quits, DropFetches, HoldingInputs, HoldsInputPermit,
         WritingInput
  <2> QED
    BY <2>1, FewerInputsHold
<1>5. CASE \/ (\E a \in Attrs : LookUp(a) \/ CreateEntry(a)) \/ WriteEntry \/ InputsFetched
           \/ NixEval \/ DerivationShow \/ NothingToPack \/ PackStorePaths \/ RenameExtras
           \/ Stored
  <2>1. UNCHANGED fetch
    BY <1>5 DEF LookUp, CreateEntry, WriteEntry, InputsFetched, NixEval, DerivationShow,
         NothingToPack, PackStorePaths, RenameExtras, Stored, inputVars
  <2> QED
    BY <2>1, <1>a
<1> QED
  BY <1>1, <1>2, <1>3, <1>4, <1>5 DEF RunEval

-----------------------------------------------------------------------------
(* What a run has in hand.                                                 *)

LEMMA NextRunsAreApart ==
  ASSUME EvalTyped, RunsAreApart,
         ReadLock \/ (RunEval /\ ~EvalFails /\ ~InputFails) \/ FetchTasks \/ DiskChanges \/ Edit
  PROVE  RunsAreApart'
<1> USE DEF inputVars, disk, work, Moves
<1>1. CASE ReadLock
  BY <1>1 DEF ReadLock, RunsAreApart, Idle
<1>2. ASSUME NEW a \in Attrs, LookUp(a) PROVE RunsAreApart'
  <2>1. phase = "lookup" /\ UNCHANGED <<phase, lock, packed, writing, inputVars>>
    BY <1>2 DEF LookUp
  <2> QED
    BY <2>1 DEF RunsAreApart
<1>3. CASE LookedUp
  BY <1>3 DEF LookedUp, RunsAreApart
<1>4. CASE InputsFetched \/ PackStorePaths
  BY <1>4 DEF InputsFetched, PackStorePaths, RunsAreApart
<1>5. CASE NixEval
  BY <1>5 DEF NixEval, RunsAreApart
<1>6. CASE DerivationShow
  <2>1. PICK rootOf : /\ DOMAIN rootOf = uncached /\ result' = Extended(result, rootOf)
                      /\ DOMAIN packed' = uncached
    BY <1>6 DEF DerivationShow
  <2>2. DOMAIN result' = DOMAIN result \cup uncached
    BY <2>1, ExtendedIs
  <2>3. phase = "show" /\ phase' = "pack" /\ UNCHANGED <<lock, asked, uncached, writing>>
    BY <1>6 DEF DerivationShow
  <2> QED
    BY <2>1, <2>2, <2>3 DEF RunsAreApart
<1>7. CASE NothingToPack
  BY <1>7 DEF NothingToPack, RunsAreApart
<1>8. CASE RenameExtras
  BY <1>8 DEF RenameExtras, RunsAreApart
<1>9. ASSUME NEW a \in Attrs, CreateEntry(a) PROVE RunsAreApart'
  BY <1>9 DEF CreateEntry, RunsAreApart, Key
<1>10. CASE WriteEntry
  BY <1>10 DEF WriteEntry, RunsAreApart
<1>11. CASE Stored
  BY <1>11 DEF Stored, RunsAreApart
<1>12. CASE FetchTasks
  <2>1. ASSUME phase \in {"idle", "lookup"} PROVE FALSE
    BY <1>12, <2>1 DEF FetchTasks, FetchInput, InputPermit, CreateTmp, WritePart, FallBack,
         VerifyInput, RenameInput, FetchInputFails, InputStep, WritingInput, RunsAreApart
  <2> QED
    BY <1>12, <2>1 DEF FetchTasks, RunsAreApart
<1>13. CASE DiskChanges \/ Edit
  BY <1>13 DEF DiskChanges, Edit, RunsAreApart
<1> QED
  BY <1>1, <1>2, <1>3, <1>4, <1>5, <1>6, <1>7, <1>8, <1>9, <1>10, <1>11, <1>12, <1>13
  DEF RunEval

-----------------------------------------------------------------------------
(* Every source of a result has an image.                                  *)

\* Images that stay leave no more uncovered than there was.
ImagesStay ==
  /\ imaged \subseteq imaged'
  /\ \A p \in InputPaths : file[p]["image"] # NoFile => file'[p]["image"] # NoFile

LEMMA UncoveredShrinks ==
  ASSUME ImagesStay, NEW r PROVE {p \in SourcesOf[r] : ~HasImage(p)'} \subseteq Uncovered(r)
BY DEF ImagesStay, HasImage, Uncovered, InputPaths

\* A step that leaves what is covered and by what.
LEMMA CoveredStays ==
  ASSUME RunIsCovered, ImagesStay, extras \subseteq extras',
         UNCHANGED <<uncached, result, packed, covers>>,
         \A k \in DOMAIN cached' : cached'[k].packed \subseteq cached'[k].extras,
         phase' \in {"pack", "rename", "store", "done"} =>
           uncached = {} \/ phase \in {"pack", "rename", "store", "done"},
         phase' \in {"store", "done"} =>
           \/ phase \in {"store", "done"}
           \/ \A a \in uncached : packed[a] \subseteq DOMAIN covers
  PROVE  RunIsCovered'
<1>1. \A r : Uncovered(r)' \subseteq Uncovered(r)
  BY UncoveredShrinks DEF Uncovered
<1>2. \A p \in DOMAIN covers' : covers'[p] \in extras' /\ p \in covers'[p]
  BY DEF RunIsCovered
<1>3. \A a \in DOMAIN result' \ uncached' : Uncovered(result[a])' \subseteq DOMAIN covers'
  BY <1>1 DEF RunIsCovered
<1> QED
  BY <1>1, <1>2, <1>3 DEF RunIsCovered

LEMMA NextRunIsCovered ==
  ASSUME EvalTyped, RunsAreApart, RunIsCovered,
         ReadLock \/ (RunEval /\ ~EvalFails /\ ~InputFails) \/ FetchTasks \/ DiskChanges \/ Edit
  PROVE  RunIsCovered'
<1> USE DEF inputVars, disk, work, Moves
<1>a. ASSUME UNCHANGED <<imaged, file>> PROVE ImagesStay
  BY <1>a DEF ImagesStay
<1>b. \A k \in DOMAIN cached : cached[k].packed \subseteq cached[k].extras
  BY DEF RunIsCovered
<1>1. CASE ReadLock
  BY <1>1, <1>a, <1>b, CoveredStays DEF ReadLock, Idle
<1>2. ASSUME NEW a \in Attrs, LookUp(a) PROVE RunIsCovered'
  <2>1. phase = "lookup" /\ UNCHANGED <<tree, disk, phase, lock, roots, packed, writing, evals, inputVars>>
    BY <1>2 DEF LookUp
  <2>2. \A r : Uncovered(r)' = Uncovered(r)
    BY <2>1 DEF Uncovered, HasImage, InputPaths
  <2>3. CASE IsHit(a)
    <3> DEFINE e == cached[Key(a)]
    <3>1. /\ result' = Extended(result, [x \in {a} |-> e.root])
          /\ covers' = Extended(covers, Covering(Needed(e), e.extras))
          /\ uncached' = uncached
      BY <1>2, <2>3 DEF LookUp
    <3>2. /\ Needed(e) = Uncovered(e.root) /\ Needed(e) \subseteq e.packed
          /\ Needed(e) = {} \/ e.extras \in extras
          /\ e.packed \subseteq e.extras
      BY <2>3, <1>b DEF IsHit, IsUsable, Needed
    <3> HIDE DEF e
    <3>4. /\ DOMAIN covers' = DOMAIN covers \cup Needed(e)
          /\ \A p \in Needed(e) : covers'[p] = e.extras
          /\ \A p \in DOMAIN covers \ Needed(e) : covers'[p] = covers[p]
      BY <3>1 DEF Extended, Covering
    <3>5. /\ DOMAIN result' = DOMAIN result \cup {a} /\ result'[a] = e.root
          /\ \A b \in DOMAIN result \ {a} : result'[b] = result[b]
      BY <3>1, ExtendedIs, ZenonT(60)
    <3>6. \A p \in DOMAIN covers' : covers'[p] \in extras /\ p \in covers'[p]
      BY <3>2, <3>4 DEF RunIsCovered
    <3>7. \A b \in DOMAIN result' \ uncached : Uncovered(result'[b]) \subseteq DOMAIN covers'
      BY <3>2, <3>4, <3>5 DEF RunIsCovered
    <3>8. \A b : Uncovered(result[b])' = Uncovered(result'[b])
      BY <2>1 DEF Uncovered, HasImage, InputPaths
    <3> QED
      BY <1>b, <2>1, <3>1, <3>6, <3>7, <3>8 DEF RunIsCovered
  <2>4. CASE ~IsHit(a)
    <3>1. UNCHANGED <<result, covers>> /\ uncached' = uncached \cup {a}
      BY <1>2, <2>4 DEF LookUp
    <3> QED
      BY <1>b, <2>1, <2>2, <3>1 DEF RunIsCovered
  <2> QED
    BY <2>3, <2>4
<1>3. CASE LookedUp
  BY <1>3, <1>a, <1>b, CoveredStays DEF LookedUp
<1>4. CASE InputsFetched \/ PackStorePaths \/ NixEval \/ Stored \/ Edit
  BY <1>4, <1>a, <1>b, CoveredStays DEF InputsFetched, PackStorePaths, NixEval, Stored, Edit
<1>5. CASE NothingToPack
  <2>1. \A a \in uncached : packed[a] \subseteq DOMAIN covers
    BY <1>5 DEF NothingToPack, AllPacked
  <2> QED
    BY <1>5, <2>1, <1>a, <1>b, CoveredStays DEF NothingToPack
<1>6. CASE DerivationShow
  <2>1. PICK rootOf : /\ DOMAIN rootOf = uncached /\ result' = Extended(result, rootOf)
                      /\ packed' = [a \in uncached |-> Uncovered(rootOf[a])]
    BY <1>6 DEF DerivationShow
  <2>2. /\ DOMAIN result' = DOMAIN result \cup uncached
        /\ \A a \in uncached : result'[a] = rootOf[a]
        /\ \A a \in DOMAIN result \ uncached : result'[a] = result[a]
    BY <2>1, ExtendedIs, ZenonT(60)
  <2>3. UNCHANGED <<cached, imaged, extras, file, uncached, covers>> /\ phase' = "pack"
    BY <1>6 DEF DerivationShow
  <2>4. \A a : Uncovered(result[a])' = Uncovered(result'[a])
    BY <2>3 DEF Uncovered, HasImage, InputPaths
  <2>5. \A a \in uncached : packed'[a] = Uncovered(result'[a])
    BY <2>1, <2>2
  <2> QED
    BY <1>b, <2>2, <2>3, <2>4, <2>5 DEF RunIsCovered
<1>7. CASE RenameExtras
  <2>1. /\ UNCHANGED <<cached, imaged, file, uncached, result, packed>>
        /\ extras' = extras \cup {AllPacked} /\ phase = "rename" /\ phase' = "store"
        /\ covers' = Extended(covers, Covering(AllPacked, AllPacked))
    BY <1>7 DEF RenameExtras
  <2>3. /\ DOMAIN covers' = DOMAIN covers \cup AllPacked
        /\ \A p \in AllPacked : covers'[p] = AllPacked
        /\ \A p \in DOMAIN covers \ AllPacked : covers'[p] = covers[p]
    BY <2>1 DEF Extended, Covering
  <2>4. \A a \in uncached : packed[a] \subseteq AllPacked
    BY DEF AllPacked
  <2>5. \A a : Uncovered(result[a])' = Uncovered(result[a])
    BY <2>1 DEF Uncovered, HasImage, InputPaths
  <2> QED
    BY <1>b, <2>1, <2>3, <2>4, <2>5 DEF RunIsCovered
<1>8. ASSUME NEW a \in Attrs, CreateEntry(a) PROVE RunIsCovered'
  <2>1. /\ DOMAIN cached' = DOMAIN cached \cup {Key(a)} /\ cached'[Key(a)] = Torn
        /\ \A k \in DOMAIN cached \ {Key(a)} : cached'[k] = cached[k]
    BY <1>8, ExtendedIs DEF CreateEntry
  <2>2. \A k \in DOMAIN cached' : cached'[k].packed \subseteq cached'[k].extras
    BY <1>b, <2>1 DEF Torn
  <2> QED
    BY <1>8, <1>a, <2>2, CoveredStays DEF CreateEntry
<1>9. CASE WriteEntry
  <2>1. PICK key \in writing : cached' = [cached EXCEPT ![key] = EntryOf(key[1])]
    BY <1>9 DEF WriteEntry
  <2>2. key[1] \in uncached
    BY <2>1 DEF RunsAreApart
  <2>3. EntryOf(key[1]).packed \subseteq EntryOf(key[1]).extras
    BY <2>2 DEF EntryOf, AllPacked
  <2>4. \A k \in DOMAIN cached' : cached'[k].packed \subseteq cached'[k].extras
    BY <1>b, <2>1, <2>3
  <2> QED
    BY <1>9, <1>a, <2>4, CoveredStays DEF WriteEntry
<1>10. CASE FetchTasks
  <2>1. ImagesStay
    BY <1>10, ImageStays DEF FetchTasks, EvalTyped, ImagesStay
  <2> QED
    BY <1>10, <1>b, <2>1, CoveredStays DEF FetchTasks
<1>11. CASE DiskChanges
  BY <1>11, <1>b DEF DiskChanges, Idle, RunsAreApart, RunIsCovered
<1> QED
  BY <1>1, <1>2, <1>3, <1>4, <1>5, <1>6, <1>7, <1>8, <1>9, <1>10, <1>11 DEF RunEval

\* The inductive invariant of the runs.
EvalInv == EvalTyped /\ InputPermitsKept /\ RunsAreApart /\ RunIsCovered

LEMMA NextEvalInv == EvalInv /\ [EvalNext]_evalVars => EvalInv'
<1> SUFFICES ASSUME EvalInv, [EvalNext]_evalVars PROVE EvalInv'
  OBVIOUS
<1> USE DEF EvalInv
<1>1. CASE InputFails \/ EvalFails \/ ExitEval \/ KilledEval
  BY <1>1, QuitsKeeps DEF InputFails, EvalFails, ExitEval, KilledEval
<1>2. CASE ReadLock \/ (RunEval /\ ~EvalFails /\ ~InputFails) \/ Edit
  BY <1>2, RunEvalTyped, NextEvalPermits, NextRunsAreApart, NextRunIsCovered
<1>3. CASE FetchTasks \/ DiskChanges
  BY <1>3, FetchTasksTyped, NextEvalPermits, NextRunsAreApart, NextRunIsCovered
<1>4. CASE UNCHANGED evalVars
  <2> USE <1>4 DEF evalVars, inputVars, disk, work
  <2>1. EvalTyped'
    BY DEF EvalTyped, InputTyped, OpenIsThere, AllSources, InputPaths
  <2>2. InputPermitsKept'
    BY DEF InputPermitsKept, HoldingInputs
  <2>3. RunsAreApart'
    BY DEF RunsAreApart
  <2>4. RunIsCovered'
    BY DEF RunIsCovered, Uncovered, HasImage, InputPaths
  <2> QED
    BY <2>1, <2>2, <2>3, <2>4
<1> QED
  BY <1>1, <1>2, <1>3, <1>4 DEF EvalNext, RunEval

LEMMA EvalInvAlways == EvalSpec => []EvalInv
<1>1. EvalInit => EvalInv
  BY InitEval DEF EvalInv
<1> QED
  BY <1>1, NextEvalInv, PTL DEF EvalSpec

\* The state is well typed; one entry at most is being written, and no more
\* inputs are fetched at a time than there are permits.
THEOREM EvalTypeCorrect == EvalSpec => []EvalTypeOK
<1>1. ASSUME EvalInv PROVE EvalTypeOK
  <2> USE <1>1 DEF EvalInv
  <2>1. InputTypeOK
    BY InputTypeParts DEF EvalTyped
  <2>2. Cardinality(writing) <= 1
    <3>1. CASE writing = {}
      BY <3>1, FS_EmptySet
    <3>2. ASSUME NEW k, writing = {k} PROVE Cardinality(writing) <= 1
      BY <3>2, FS_Singleton
    <3> QED
      BY <3>1, <3>2 DEF EvalTyped
  <2>3. \A p \in DOMAIN covers : p \in covers[p]
    BY DEF RunIsCovered
  <2> QED
    BY <2>1, <2>2, <2>3 DEF EvalTyped, EvalTypeOK, AllSources
<1> QED
  BY <1>1, EvalInvAlways, PTL

\* Whatever the run found in its cache, fetched or had packed, every source of
\* every derivation it returns has an image ("every closure source path lacking a
\* per-path image must be covered by the stored extras image", flake.rs:216):
\* also if the tree is edited while the run lasts.
THEOREM ResultIsCoveredCorrect == EvalSpec => []ResultIsCovered
<1>1. ASSUME EvalInv PROVE ResultIsCovered
  <2> SUFFICES ASSUME phase = "done", NEW a \in DOMAIN result,
                      NEW p \in SourcesOf[result[a]], ~HasImage(p)
               PROVE  p \in DOMAIN covers /\ covers[p] \in extras /\ p \in covers[p]
    BY DEF ResultIsCovered
  <2>1. p \in Uncovered(result[a])
    BY DEF Uncovered
  <2> QED
    BY <1>1, <2>1 DEF EvalInv, RunIsCovered
<1> QED
  BY <1>1, EvalInvAlways, PTL

-----------------------------------------------------------------------------
(* The images of inputs, over the runs.                                    *)

\* Nobody is at work on a temporary, and no image was written.
LEMMA NobodyAtWork ==
  ASSUME UnsharedImagesAreWhole, shared' = shared,
         \A p \in InputPaths : file'[p]["image"] \in {NoFile, file[p]["image"]},
         \A n \in Inputs : handle'[n] = "closed" /\ fetch'[n] \in {"none", "queued"}
  PROVE  VerifiedStaysWhole' /\ UnsharedImagesAreWhole'
<1>1. \A n \in Inputs : fetch'[n] \notin HoldsInputPermit
  BY DEF HoldsInputPermit, WritingInput
<1>2. "verified" \in HoldsInputPermit
  BY DEF HoldsInputPermit
<1>3. VerifiedStaysWhole'
  BY <1>1, <1>2 DEF VerifiedStaysWhole
<1> QED
  BY <1>3 DEF UnsharedImagesAreWhole

LEMMA NextInputsWhole ==
  ASSUME EvalInv, VerifiedStaysWhole, UnsharedImagesAreWhole, [EvalNext]_evalVars
  PROVE  VerifiedStaysWhole' /\ UnsharedImagesAreWhole'
<1> USE DEF EvalInv, inputVars
<1>1. CASE FetchTasks
  BY <1>1, FetchInputWhole DEF FetchTasks, EvalTyped
<1>2. ASSUME Quits, UNCHANGED file
      PROVE  VerifiedStaysWhole' /\ UnsharedImagesAreWhole'
  BY <1>2, NobodyAtWork DEF Quits, DropFetches
<1>3. CASE InputFails \/ EvalFails \/ ExitEval \/ KilledEval
  BY <1>2, <1>3 DEF InputFails, EvalFails, ExitEval, KilledEval
<1>4. CASE LookedUp
  <2>1. UNCHANGED <<file, handle, shared>> /\ \A n \in Inputs : handle[n] = "closed"
    BY <1>4 DEF LookedUp, Moves, RunsAreApart
  <2>2. \A n \in Inputs : fetch'[n] \in {"none", "queued"}
    BY <1>4, <2>1 DEF LookedUp, SpawnFetches, RunsAreApart
  <2> QED
    BY <2>1, <2>2, NobodyAtWork
<1>5. CASE DiskChanges
  <2>1. /\ UNCHANGED <<fetch, handle, shared>>
        /\ \A n \in Inputs : fetch[n] = "none" /\ handle[n] = "closed"
    BY <1>5 DEF DiskChanges, Idle, RunsAreApart
  <2>2. \A p \in InputPaths : file'[p]["image"] \in {NoFile, file[p]["image"]}
    BY <1>5 DEF DiskChanges, EvalTyped, InputTyped, Names
  <2> QED
    BY <2>1, <2>2, NobodyAtWork
<1>6. CASE UNCHANGED inputVars
  <2>1. \A n \in Inputs : Alone(n) <=> Alone(n)'
    BY <1>6 DEF Alone, Twins
  <2> QED
    BY <1>6, <2>1 DEF VerifiedStaysWhole, UnsharedImagesAreWhole
<1>7. CASE \/ ReadLock \/ (\E a \in Attrs : LookUp(a) \/ CreateEntry(a)) \/ WriteEntry
           \/ InputsFetched \/ NixEval \/ DerivationShow \/ NothingToPack
           \/ PackStorePaths \/ RenameExtras \/ Stored \/ Edit \/ UNCHANGED evalVars
  <2>1. UNCHANGED inputVars
    BY <1>7 DEF ReadLock, LookUp, CreateEntry, WriteEntry, InputsFetched, NixEval, DerivationShow,
         NothingToPack, PackStorePaths, RenameExtras, Stored, Edit, evalVars
  <2> QED
    BY <1>6, <2>1
<1> QED
  BY <1>1, <1>3, <1>4, <1>5, <1>7 DEF EvalNext, RunEval

\* What has the name of an input's image is all of it, wherever a fetch or the
\* process stopped ("streams it into a hash-addressed EROFS image, and verifies
\* its NAR hash against the lock", tasks/eval.rs:85-86), whatever inputs of the
\* lock have one narHash, unless two tasks of it held a permit at the same time.
THEOREM InputImagesCorrect == EvalSpec => []UnsharedImagesAreWhole
<1>1. EvalInit => VerifiedStaysWhole /\ UnsharedImagesAreWhole
  BY DEF EvalInit, InputInit, NoFiles, Names, HoldsInputPermit, WritingInput,
     VerifiedStaysWhole, UnsharedImagesAreWhole
<1>2. EvalInv /\ (VerifiedStaysWhole /\ UnsharedImagesAreWhole) /\ [EvalNext]_evalVars
        => (VerifiedStaysWhole /\ UnsharedImagesAreWhole)'
  BY NextInputsWhole
<1> QED
  BY <1>1, <1>2, EvalInvAlways, PTL DEF EvalSpec

-----------------------------------------------------------------------------
(* The cache of results.                                                   *)

\* The evaluation in the machine: "nix eval" tells several attributes apart, and
\* the root of a single one is the derivation that no other refers to.
LEMMA ShownIsOfTheTree ==
  ASSUME EvalTyped, RunIsOfTheTree, DerivationShow
  PROVE  \A a \in DOMAIN result' : result'[a] = RootOf[tree][a]
<1> DEFINE shown == UNION {ClosureOf[RootOf[tree][a]] : a \in uncached}
<1>1. PICK rootOf \in [uncached -> shown] :
        /\ \A a \in uncached :
             rootOf[a] \in IF a \in DOMAIN roots THEN {roots[a]} ELSE FindRoot(shown)
        /\ result' = Extended(result, rootOf)
  BY DEF DerivationShow
<1>2. phase = "show"
  BY DEF DerivationShow, Moves
<1>3. ASSUME NEW a \in uncached PROVE rootOf[a] = RootOf[tree][a]
  <2>1. CASE a \in DOMAIN roots
    BY <1>1, <1>2, <2>1 DEF RunIsOfTheTree
  <2>2. CASE a \notin DOMAIN roots
    <3>1. IsFiniteSet(uncached) /\ Cardinality(uncached) <= 1
      BY <1>2, <2>2, EvalAssumption, FS_Subset DEF EvalTyped, RunIsOfTheTree
    <3>2. uncached = {a}
      BY <3>1, OneOrMore
    <3>3. shown = ClosureOf[RootOf[tree][a]]
      BY <3>2
    <3>4. RootOf[tree][a] \in Drvs
      BY EvalAssumption DEF EvalTyped
    <3>5. FindRoot(shown) \subseteq {RootOf[tree][a]}
      BY <3>3, <3>4, RootIsFound
    <3> QED
      BY <1>1, <2>2, <3>5
  <2> QED
    BY <2>1, <2>2
<1>4. /\ DOMAIN result' = DOMAIN result \cup uncached
      /\ \A a \in uncached : result'[a] = rootOf[a]
      /\ \A a \in DOMAIN result \ uncached : result'[a] = result[a]
  <2>1. DOMAIN rootOf = uncached /\ result' = Extended(result, rootOf)
    BY <1>1
  <2> QED
    BY <2>1 DEF Extended
<1> QED
  BY <1>3, <1>4 DEF RunIsOfTheTree

\* Nothing that is not of the tree gets into a result or into the cache, as long
\* as the tree is what it was when the run started.
LEMMA NextOfTheTree ==
  ASSUME ~EditsDuringRuns, EvalInv, RunIsOfTheTree, EntriesMatchTheirKey,
         [EvalNext]_evalVars
  PROVE  RunIsOfTheTree' /\ EntriesMatchTheirKey'
<1> USE DEF disk, work, Moves
<1>1. ASSUME UNCHANGED <<tree, cached, result, writing>>, phase' # "show"
      PROVE  RunIsOfTheTree' /\ EntriesMatchTheirKey'
  BY <1>1 DEF RunIsOfTheTree, EntriesMatchTheirKey
<1>2. CASE Quits /\ UNCHANGED <<tree, cached>>
  BY <1>2, EmptyDomain DEF Quits, RunIsOfTheTree, EntriesMatchTheirKey
<1>3. CASE InputFails \/ EvalFails \/ ExitEval \/ KilledEval
  BY <1>2, <1>3 DEF InputFails, EvalFails, ExitEval, KilledEval
<1>4. CASE LookedUp \/ InputsFetched \/ NothingToPack \/ PackStorePaths \/ RenameExtras \/ Stored
  BY <1>1, <1>4 DEF LookedUp, InputsFetched, NothingToPack, PackStorePaths, RenameExtras, Stored
<1>5. ASSUME NEW a \in Attrs, LookUp(a) PROVE RunIsOfTheTree' /\ EntriesMatchTheirKey'
  <2>1. UNCHANGED <<tree, cached, phase, writing, roots, lock>> /\ phase = "lookup"
    BY <1>5 DEF LookUp
  <2>2. CASE IsHit(a)
    <3> DEFINE e == cached[Key(a)]
    <3>1. result' = Extended(result, [x \in {a} |-> e.root])
      BY <1>5, <2>2 DEF LookUp
    <3>2. e.root = RootOf[tree][a]
      BY <2>2 DEF IsHit, IsUsable, Key, EntriesMatchTheirKey
    <3> HIDE DEF e
    <3>3. /\ DOMAIN result' = DOMAIN result \cup {a} /\ result'[a] = e.root
          /\ \A b \in DOMAIN result \ {a} : result'[b] = result[b]
      BY <3>1, ExtendedIs, ZenonT(60)
    <3> QED
      BY <2>1, <3>2, <3>3 DEF RunIsOfTheTree, EntriesMatchTheirKey
  <2>3. CASE ~IsHit(a)
    BY <1>5, <1>1, <2>1, <2>3 DEF LookUp
  <2> QED
    BY <2>2, <2>3
<1>6. CASE NixEval
  <2>1. /\ UNCHANGED <<tree, cached, result, writing, uncached>>
        /\ roots' = IF Cardinality(uncached) > 1
                    THEN [a \in uncached |-> RootOf[tree][a]] ELSE << >>
    BY <1>6 DEF NixEval
  <2>2. IsFiniteSet(uncached) /\ Cardinality(uncached) \in Nat
    BY EvalAssumption, FS_Subset, FS_CardinalityType DEF EvalInv, EvalTyped
  <2>3. /\ \A a \in DOMAIN roots' : roots'[a] = RootOf[tree][a]
        /\ DOMAIN roots' = uncached \/ Cardinality(uncached) <= 1
    BY <2>1, <2>2, EmptyDomain
  <2> QED
    BY <2>1, <2>3 DEF RunIsOfTheTree, EntriesMatchTheirKey
<1>7. CASE DerivationShow
  <2>1. UNCHANGED <<tree, cached, writing>> /\ phase' # "show"
    BY <1>7 DEF DerivationShow
  <2> QED
    BY <1>7, <2>1, ShownIsOfTheTree DEF RunIsOfTheTree, EntriesMatchTheirKey, EvalInv
<1>8. ASSUME NEW a \in Attrs, CreateEntry(a) PROVE RunIsOfTheTree' /\ EntriesMatchTheirKey'
  <2>1. UNCHANGED <<tree, result, roots, uncached, phase>> /\ writing' = {Key(a)} /\ phase = "store"
    BY <1>8 DEF CreateEntry
  <2>2. /\ DOMAIN cached' = DOMAIN cached \cup {Key(a)} /\ cached'[Key(a)] = Torn
        /\ \A k \in DOMAIN cached \ {Key(a)} : cached'[k] = cached[k]
    BY <1>8, ExtendedIs DEF CreateEntry
  <2>3. EntriesMatchTheirKey'
    BY <2>2 DEF EntriesMatchTheirKey
  <2>4. RunIsOfTheTree'
    BY <2>1 DEF RunIsOfTheTree, Key
  <2> QED
    BY <2>3, <2>4
<1>9. CASE WriteEntry
  <2>1. PICK key \in writing : cached' = [cached EXCEPT ![key] = EntryOf(key[1])]
    BY <1>9 DEF WriteEntry
  <2>2. UNCHANGED <<tree, result, roots, uncached, phase>> /\ writing' = {}
    BY <1>9 DEF WriteEntry
  <2>3. key[3] = tree /\ key[1] \in DOMAIN result
    BY <2>1 DEF RunIsOfTheTree, RunsAreApart, EvalInv
  <2>4. EntryOf(key[1]).root = RootOf[key[3]][key[1]]
    BY <2>3 DEF EntryOf, RunIsOfTheTree
  <2>5. EntriesMatchTheirKey'
    BY <2>1, <2>4 DEF EntriesMatchTheirKey
  <2>6. RunIsOfTheTree'
    BY <2>2 DEF RunIsOfTheTree
  <2> QED
    BY <2>5, <2>6
<1>10. CASE ReadLock \/ FetchTasks \/ DiskChanges \/ UNCHANGED evalVars
  <2>1. /\ UNCHANGED <<tree, cached, result, writing, roots, uncached>>
        /\ phase' = phase \/ phase' # "show"
    BY <1>10 DEF ReadLock, FetchTasks, DiskChanges, evalVars
  <2> QED
    BY <2>1 DEF RunIsOfTheTree, EntriesMatchTheirKey
<1>11. CASE Edit
  <2>1. phase = "idle" /\ DOMAIN result = {} /\ writing = {}
    BY <1>11 DEF Edit, Idle, EvalInv, RunsAreApart
  <2>2. UNCHANGED <<cached, result, writing, phase>>
    BY <1>11 DEF Edit
  <2> QED
    BY <2>1, <2>2 DEF RunIsOfTheTree, EntriesMatchTheirKey
<1> QED
  BY <1>3, <1>4, <1>5, <1>6, <1>7, <1>8, <1>9, <1>10, <1>11 DEF EvalNext, RunEval

\* While nobody edits the tree during a run, an entry that can be read holds what
\* its key stands for ("Eval output is determined by the attr, the locked inputs,
\* the flake's own source tree", flake.rs:184), however many runs were killed and
\* whatever became of the images.
THEOREM EntriesMatchCorrect ==
  ASSUME ~EditsDuringRuns PROVE EvalSpec => []EntriesMatchTheirKey
<1>1. EvalInit => RunIsOfTheTree /\ EntriesMatchTheirKey
  BY EmptyDomain DEF EvalInit, RunIsOfTheTree, EntriesMatchTheirKey
<1>2. EvalInv /\ (RunIsOfTheTree /\ EntriesMatchTheirKey) /\ [EvalNext]_evalVars
        => (RunIsOfTheTree /\ EntriesMatchTheirKey)'
  BY NextOfTheTree
<1> QED
  BY <1>1, <1>2, EvalInvAlways, PTL DEF EvalSpec

=============================================================================
