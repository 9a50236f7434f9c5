------------------------------- MODULE MCHost -------------------------------
(***************************************************************************)
(* The parts of the host that live on the cache directory, for TLC: the    *)
(* image store with its narinfo cache, the evaluation of a flake with its  *)
(* input images, the archive that is streamed into one of these, and the   *)
(* file system that hands images to a machine. Each initial state picks    *)
(* one of them, and the others stand still.                                *)
(***************************************************************************)
EXTENDS ImageStore, EvalFlake, ImageFs, TarImage

CONSTANT Parts    \* which of them
VARIABLE part

allVars == <<storeVars, evalVars, fsVars, tarVars, part>>

\* Two trees that differ in one attribute and in their locks, the second attribute
\* being the same derivation in both, and a tree whose lock is refused. "lib"
\* needs the first input, which the first lock has under two names.
MCLockOf == [t1 |-> {"nixpkgs", "stable"}, t2 |-> {"nixpkgs", "utils"}, t3 |-> {}]
MCInputPath == [nixpkgs |-> "src1", stable |-> "src1", utils |-> "src2"]
MCRootOf == [t1 |-> [a |-> "a1", b |-> "b"], t2 |-> [a |-> "a2", b |-> "b"],
             t3 |-> [a |-> "a1", b |-> "b"]]
MCInputDrvs == [a1 |-> {"lib"}, a2 |-> {"lib"}, b |-> {"lib"}, lib |-> {}]
MCInputSrcs ==
  [a1 |-> {"tree1"}, a2 |-> {"tree2", "src2"}, b |-> {"tree2", "o"}, lib |-> {"src1"}]
MCDrvOutputs == [a1 |-> {}, a2 |-> {}, b |-> {}, lib |-> {"o"}]

MCListed == <<"x", "y", "z">>

\* Trees that differ in one thing each: a mode, a size, what holds a file. Some
\* archives have another order on top, a bad path or a hard link.
File(size, exec) == [kind |-> "file", size |-> size, exec |-> exec]
Link == [kind |-> "link"]
Root == << >> :> Directory
MCLockedTrees ==
  { Root,
    Root @@ <<1>> :> File(3, TRUE),
    Root @@ <<1>> :> File(3, FALSE) @@ <<2>> :> Link,
    Root @@ <<1>> :> Directory @@ <<2>> :> File(4, FALSE),
    Root @@ <<1>> :> Directory @@ <<1, 2>> :> File(4, FALSE),
    Root @@ <<1>> :> Directory @@ <<1, 1>> :> Directory @@ <<1, 1, 1>> :> File(0, TRUE)
         @@ <<2>> :> Directory @@ <<2, 1>> :> Link @@ <<2, 2>> :> File(1, FALSE) }
MCArchives ==
  MCLockedTrees \cup
  { NoEntries,
    <<1>> :> File(3, FALSE),
    Root @@ <<1>> :> File(3, FALSE),
    Root @@ <<1>> :> File(3, TRUE) @@ <<0>> :> Link,
    Root @@ <<1>> :> File(3, TRUE) @@ <<2>> :> [kind |-> "hard link"] }

Other(p, first) == part # p => first

\* The others' entries, the paths published and outputs of which some are in
\* place all come about in a first run.
Init ==
  /\ part \in Parts
  /\ StoreInit
  /\ upstream = {} /\ Cardinality({p \in Nars : entry[p] # "absent"}) <= 1
  /\ \A o, q \in Outs : image[o] = image[q]
  /\ Other("store", (\A p \in Paths : image[p] = "absent")
                      /\ \A p \in Nars : entry[p] = "absent")
  /\ EvalInit /\ Other("eval", tree = "t1" /\ imaged = {})
  /\ FsInit /\ Other("fs", \A i \in Indices : onDisk[i].size = 1)
  /\ TarInit /\ Other("tar", lockedTree = Root /\ archive = NoEntries)

Next ==
  \/ part = "store" /\ StoreNext /\ UNCHANGED <<evalVars, fsVars, tarVars, part>>
  \/ part = "eval" /\ EvalNext /\ UNCHANGED <<storeVars, fsVars, tarVars, part>>
  \/ part = "fs" /\ FsNext /\ UNCHANGED <<storeVars, evalVars, tarVars, part>>
  \/ part = "tar" /\ TarNext /\ UNCHANGED <<storeVars, evalVars, fsVars, part>>

SafeSpec == Init /\ [][Next]_allVars
Spec == SafeSpec /\ StoreFairness /\ EvalFairness

TypeOK == StoreTypeOK /\ EvalTypeOK /\ FsTypeOK /\ TarTypeOK

\* No image is ever half of one, not a download's, an output's or an input's, but
\* for an input's that two tasks of one narHash have worked on at once.
NoPartialImage == NoPartialStoreImage /\ UnsharedImagesAreWhole

\* Every run that is started ends, well or not, without being killed: one of
\* the orchestrator, where no task waits for a permit for ever and no phase of
\* the build for an output, and one of an evaluation.
Busy == run \notin {"ended", "done"} \/ phase \notin {"idle", "done"}
EveryRunEnds == Busy ~> ~Busy

=============================================================================
