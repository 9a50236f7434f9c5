------------------------------ MODULE EvalFlake ------------------------------
(***************************************************************************)
(* The evaluation of a flake (host flake.rs and tasks/eval.rs, with the     *)
(* guest's flake_eval) and the cache of its results: per attribute, under a *)
(* hash of the attribute, the lock's inputs and the flake's own tree, an    *)
(* entry with the derivations and the name of the image that holds the      *)
(* sources nix made on the way. An entry is written in place, images come   *)
(* and go between the runs, and the tree belongs to somebody who edits it.  *)
(*                                                                          *)
(* Derivations are nodes of a graph that does not change: what a tree       *)
(* decides is which of them an attribute evaluates to.                      *)
(***************************************************************************)
EXTENDS InputImages

CONSTANTS
  Attrs, Trees,
  LockOf,          \* the inputs a tree's flake.lock has; {} if it is refused
  RootOf,          \* RootOf[t][a]: the derivation attribute a of tree t is
  Drvs, InputDrvs, \* the derivations, and those each depends on
  InputSrcs,       \* the sources of each derivation
  DrvOutputs,      \* the outputs of each derivation
  Sources,         \* paths that may have an image of their own
  EditsDuringRuns, \* may the tree change while a run is under way?
  MaxEvals         \* bound on the number of runs

ASSUME EvalAssumption ==
  /\ LockOf \in [Trees -> SUBSET Inputs] /\ RootOf \in [Trees -> [Attrs -> Drvs]]
  /\ InputDrvs \in [Drvs -> SUBSET Drvs] /\ EditsDuringRuns \in BOOLEAN
  /\ IsFiniteSet(Attrs) /\ MaxEvals \in Nat

VARIABLES
  tree,       \* the flake's tree, as it is now
  cached,     \* eval/<key>.json: a function from keys to entries
  imaged,     \* sources with an image of their own
  extras,     \* the images of packed sources on disk, each named by its paths
  scratch,    \* the device the guest packs onto
  phase,      \* where the run stands
  lock,       \* the inputs read at its start
  asked,      \* attributes still to look up, and later to store
  uncached,   \* attributes to evaluate
  roots,      \* the guest's answer to "nix eval": the root of each attribute
  result,     \* the derivation of each attribute, once it has one
  packed,     \* for each evaluated attribute, its sources without an image
  covers,     \* extra_images: the paths an image of packed sources stands for
  writing,    \* the key whose file is being written, if there is one
  evals       \* runs started

disk == <<cached, imaged, extras, scratch>>
work == <<lock, asked, uncached, roots, result, packed, covers, writing>>
evalVars == <<tree, disk, phase, work, evals, inputVars>>

None == "none"
Closed(S) == \A d \in S : InputDrvs[d] \subseteq S

\* closure, and the paths of it that no derivation of it produces.
ClosureOf ==
  [r \in Drvs |-> CHOOSE S \in SUBSET Drvs :
     /\ r \in S /\ Closed(S)
     /\ \A T \in SUBSET S : r \in T /\ Closed(T) => T = S]

SourcesOf ==
  [r \in Drvs |-> (UNION {InputSrcs[d] : d \in ClosureOf[r]})
                    \ UNION {DrvOutputs[d] : d \in ClosureOf[r]}]

\* Sources names every path nothing produces, apart from the inputs.
ASSUME SourcesAssumption ==
  \A r \in Drvs : SourcesOf[r] \subseteq Sources \cup InputPaths

\* find_root: the first derivation that no other refers to.
FindRoot(drvs) == {d \in drvs : \A e \in drvs : d \notin InputDrvs[e]}

\* A path has an image: its own, or that of the input it is.
HasImage(p) ==
  p \in imaged \/ (p \in InputPaths /\ file[p]["image"] # NoFile)

Uncovered(root) == {p \in SourcesOf[root] : ~HasImage(p)}

EvalInit ==
  /\ InputInit
  /\ tree \in Trees
  /\ cached = << >> /\ imaged \in SUBSET Sources /\ extras = {} /\ scratch = None
  /\ phase = "idle" /\ lock = {} /\ asked = {} /\ uncached = {}
  /\ roots = << >> /\ result = << >> /\ packed = << >> /\ covers = << >>
  /\ writing = {} /\ evals = 0

-----------------------------------------------------------------------------
(* flake.rs: the lock is read, and each attribute looked up.               *)

Idle == phase = "idle"

Quits ==
  /\ phase' = "idle"
  /\ lock' = {} /\ asked' = {} /\ uncached' = {}
  /\ roots' = << >> /\ result' = << >> /\ packed' = << >> /\ covers' = << >>
  /\ writing' = {}
  /\ DropFetches

\* lock_inputs refuses a lock that is not all github inputs of the root.
ReadLock ==
  /\ Idle /\ evals < MaxEvals /\ evals' = evals + 1
  /\ lock' = LockOf[tree]
  /\ IF lock' = {}
     THEN UNCHANGED <<phase, asked>>
     ELSE phase' = "lookup" /\ asked' \in (SUBSET Attrs) \ {{}}
  /\ UNCHANGED <<tree, disk, uncached, roots, result, packed, covers, writing, inputVars>>

\* eval_cache_key: the tree is hashed when the key is wanted. The fault leaves
\* the tree out.
KeyOfLock(a) == <<a, lock, CHOOSE t \in Trees : TRUE>>
Key(a) == <<a, lock, tree>>

Torn == [root |-> None, packed |-> {}, extras |-> {}]

\* extras_from_eval: what has no image has to be packed, and the image it is
\* packed in has to be there.
\* The fault takes the image for granted.
Needed(e) == Uncovered(e.root)
IsUsableIfPacked(e) == e # Torn /\ Needed(e) \subseteq e.packed
IsUsable(e) ==
  /\ e # Torn
  /\ Needed(e) \subseteq e.packed
  /\ Needed(e) = {} \/ e.extras \in extras
IsHit(a) == Key(a) \in DOMAIN cached /\ IsUsable(cached[Key(a)])

Covering(paths, image) == [p \in paths |-> image]
Extended(f, g) ==
  [x \in DOMAIN f \cup DOMAIN g |-> IF x \in DOMAIN g THEN g[x] ELSE f[x]]

LookUp(a) ==
  /\ phase = "lookup" /\ a \in asked
  /\ asked' = asked \ {a}
  /\ IF IsHit(a)
     THEN LET e == cached[Key(a)] IN
          /\ result' = Extended(result, [x \in {a} |-> e.root])
          /\ covers' = Extended(covers, Covering(Needed(e), e.extras))
          /\ UNCHANGED uncached
     ELSE uncached' = uncached \cup {a} /\ UNCHANGED <<result, covers>>
  /\ UNCHANGED <<tree, disk, phase, lock, roots, packed, writing, evals, inputVars>>

LookedUp ==
  /\ phase = "lookup" /\ asked = {}
  /\ IF uncached = {}
     THEN phase' = "done" /\ UNCHANGED fetch
     ELSE phase' = "fetch" /\ SpawnFetches(lock)
  /\ UNCHANGED <<tree, disk, work, evals, file, handle, shared>>

-----------------------------------------------------------------------------
(* tasks/eval.rs: the inputs, the guest's evaluation, the packed sources.  *)

Moves(from, to) == phase = from /\ phase' = to

InputsFetched ==
  /\ Moves("fetch", "boot") /\ \A n \in Inputs : fetch[n] \in {"none", "done"}
  /\ scratch' = "empty"
  /\ UNCHANGED <<tree, cached, imaged, extras, work, evals, inputVars>>

InputFails ==
  /\ phase = "fetch" /\ \E n \in Inputs : fetch[n] = "failed"
  /\ Quits /\ UNCHANGED <<tree, disk, evals, file>>

\* In the guest, over the live tree: first the root of each attribute, if
\* there are several, and then their derivations.
NixEval ==
  /\ Moves("boot", "show")
  /\ roots' = IF Cardinality(uncached) > 1
              THEN [a \in uncached |-> RootOf[tree][a]]
              ELSE << >>
  /\ UNCHANGED <<tree, disk, lock, asked, uncached, result, packed, covers, writing, evals, inputVars>>

\* On the host, per attribute: its root, the closure of it, and what of it
\* has no image. A root that was not shown fails the evaluation.
DerivationShow ==
  LET shown == UNION {ClosureOf[RootOf[tree][a]] : a \in uncached} IN
  /\ Moves("show", "pack")
  /\ \E rootOf \in [uncached -> shown] :
       /\ \A a \in uncached :
            rootOf[a] \in IF a \in DOMAIN roots THEN {roots[a]} ELSE FindRoot(shown)
       /\ result' = Extended(result, rootOf)
       /\ packed' = [a \in uncached |-> Uncovered(rootOf[a])]
  /\ UNCHANGED <<tree, disk, lock, asked, uncached, roots, covers, writing, evals, inputVars>>

AllPacked == UNION {packed[a] : a \in uncached}

NothingToPack ==
  /\ Moves("pack", "store") /\ AllPacked = {}
  /\ scratch' = None /\ asked' = uncached
  /\ UNCHANGED <<tree, cached, imaged, extras, lock, uncached, roots, result, packed,
                 covers, writing, evals, inputVars>>

PackStorePaths ==
  /\ Moves("pack", "rename") /\ AllPacked # {}
  /\ scratch' = "packed"
  /\ UNCHANGED <<tree, cached, imaged, extras, work, evals, inputVars>>

\* The image is named by the paths in it; the machine is reaped.
RenameExtras ==
  /\ Moves("rename", "store")
  /\ scratch' = None /\ extras' = extras \cup {AllPacked}
  /\ covers' = Extended(covers, Covering(AllPacked, AllPacked))
  /\ asked' = uncached
  /\ UNCHANGED <<tree, cached, imaged, lock, uncached, roots, result, packed, writing, evals, inputVars>>

\* Booting, an RPC, the guest, the disk: the machine is reaped all the same.
EvalFails ==
  /\ phase \in {"boot", "show", "pack", "rename", "store"}
  /\ Quits /\ UNCHANGED <<tree, disk, evals, file>>

-----------------------------------------------------------------------------
(* flake.rs: the entry of each evaluated attribute is written.             *)

EntryOf(a) ==
  [root |-> result[a], packed |-> packed[a],
   extras |-> IF packed[a] = {} THEN {} ELSE AllPacked]

\* The key is made again; the file is created, or emptied, and then written.
CreateEntry(a) ==
  /\ phase = "store" /\ a \in asked /\ writing = {}
  /\ writing' = {Key(a)}
  /\ cached' = Extended(cached, [k \in {Key(a)} |-> Torn])
  /\ asked' = asked \ {a}
  /\ UNCHANGED <<tree, imaged, extras, scratch, phase, lock, uncached, roots, result, packed,
                 covers, evals, inputVars>>

WriteEntry ==
  /\ \E key \in writing : cached' = [cached EXCEPT ![key] = EntryOf(key[1])]
  /\ writing' = {}
  /\ UNCHANGED <<tree, imaged, extras, scratch, phase, lock, asked, uncached, roots, result,
                 packed, covers, evals, inputVars>>

Stored ==
  /\ Moves("store", "done") /\ asked = {} /\ writing = {}
  /\ UNCHANGED <<tree, disk, work, evals, inputVars>>

\* The caller has the result, and the process exits in the end.
ExitEval == phase = "done" /\ Quits /\ UNCHANGED <<tree, disk, evals, file>>

KilledEval == phase \notin {"idle", "done"} /\ Quits /\ UNCHANGED <<tree, disk, evals, file>>

-----------------------------------------------------------------------------
(* Between the runs: builds make images, and users remove them.            *)

DiskChanges ==
  /\ Idle
  /\ \/ \E p \in Sources :
          imaged' \in {imaged \cup {p}, imaged \ {p}} /\ UNCHANGED <<extras, file>>
     \/ \E x \in extras : extras' = extras \ {x} /\ UNCHANGED <<imaged, file>>
     \/ \E p \in InputPaths :
          file' = [file EXCEPT ![p]["image"] = NoFile] /\ UNCHANGED <<imaged, extras>>
  /\ UNCHANGED <<tree, cached, scratch, phase, work, evals, fetch, handle, shared>>

Edit ==
  /\ Idle \/ EditsDuringRuns
  /\ tree' \in Trees \ {tree}
  /\ UNCHANGED <<disk, phase, work, evals, inputVars>>

RunEval ==
  \/ (\E a \in Attrs : LookUp(a) \/ CreateEntry(a)) \/ WriteEntry \/ LookedUp
  \/ InputsFetched \/ InputFails \/ NixEval \/ DerivationShow
  \/ NothingToPack \/ PackStorePaths \/ RenameExtras \/ EvalFails \/ Stored

FetchTasks ==
  /\ \E n \in Inputs : FetchInput(n)
  /\ UNCHANGED <<tree, disk, phase, work, evals>>

EvalNext ==
  ReadLock \/ RunEval \/ FetchTasks \/ ExitEval \/ KilledEval \/ DiskChanges \/ Edit

\* The run and its tasks are polled; nobody has to start, kill, edit or remove.
EvalFairness == WF_evalVars(RunEval \/ FetchTasks)

EvalSpec == EvalInit /\ [][EvalNext]_evalVars

-----------------------------------------------------------------------------

EvalTypeOK ==
  /\ InputTypeOK /\ tree \in Trees /\ imaged \subseteq Sources
  /\ extras \subseteq SUBSET (Sources \cup InputPaths) /\ scratch \in {None, "empty", "packed"}
  /\ phase \in {"idle", "lookup", "fetch", "boot", "show", "pack", "rename", "store", "done"}
  /\ lock \subseteq Inputs /\ asked \subseteq Attrs /\ uncached \subseteq Attrs
  /\ DOMAIN cached \subseteq Attrs \X (SUBSET Inputs) \X Trees
  /\ writing \subseteq DOMAIN cached /\ Cardinality(writing) <= 1
  /\ DOMAIN result \subseteq Attrs /\ DOMAIN packed \subseteq uncached
  /\ \A p \in DOMAIN covers : p \in covers[p]
  /\ evals \in 0..MaxEvals

\* Whatever the run found in its cache, fetched or had packed: every source of
\* every derivation it returns has an image, its own or one of packed sources
\* that is on disk and has it inside ("every closure source path lacking a
\* per-path image must be covered by the stored extras image", flake.rs:216).
ResultIsCovered ==
  phase = "done" =>
    \A a \in DOMAIN result : \A p \in SourcesOf[result[a]] :
      \/ HasImage(p)
      \/ p \in DOMAIN covers /\ covers[p] \in extras /\ p \in covers[p]

\* An entry that can be read holds what its key stands for: "Eval output is
\* determined by the attr, the locked inputs, the flake's own source tree"
\* (flake.rs:184). Later runs return it without looking at the flake.
EntriesMatchTheirKey ==
  \A k \in DOMAIN cached : cached[k] # Torn => cached[k].root = RootOf[k[3]][k[1]]

-----------------------------------------------------------------------------
(* Why they hold, as inductive invariants (EvalFlakeProofs).               *)

\* What a run works with is empty between the runs, and what it writes belongs
\* to attributes it evaluated.
RunsAreApart ==
  /\ phase \in {"idle", "lookup"} =>
       \A n \in Inputs : fetch[n] = "none" /\ handle[n] = "closed"
  /\ phase = "idle" =>
       /\ lock = {} /\ asked = {} /\ uncached = {}
       /\ DOMAIN result = {} /\ DOMAIN covers = {}
  /\ phase \in {"pack", "rename", "store", "done"} =>
       uncached \subseteq DOMAIN result /\ uncached \subseteq DOMAIN packed
  /\ phase = "store" => asked \subseteq uncached
  /\ writing # {} => phase = "store"
  /\ \A key \in writing : key[1] \in uncached

\* While a run lasts no image goes, so that what was found to have one, or was
\* packed, keeps it: a hit is covered from its lookup on, an evaluated attribute
\* once the image of the packed sources has its name.
RunIsCovered ==
  /\ \A k \in DOMAIN cached : cached[k].packed \subseteq cached[k].extras
  /\ \A p \in DOMAIN covers : covers[p] \in extras /\ p \in covers[p]
  /\ \A a \in DOMAIN result \ uncached : Uncovered(result[a]) \subseteq DOMAIN covers
  /\ phase \in {"pack", "rename", "store", "done"} =>
       \A a \in uncached : Uncovered(result[a]) \subseteq packed[a]
  /\ phase \in {"store", "done"} => \A a \in uncached : packed[a] \subseteq DOMAIN covers

\* While the tree stays as it is, all a run knows of an attribute is its root in
\* that tree, whichever way it learnt it.
RunIsOfTheTree ==
  /\ \A a \in DOMAIN result : result[a] = RootOf[tree][a]
  /\ phase = "show" =>
       /\ \A a \in DOMAIN roots : roots[a] = RootOf[tree][a]
       /\ DOMAIN roots = uncached \/ Cardinality(uncached) <= 1
  /\ \A key \in writing : key[3] = tree

=============================================================================
