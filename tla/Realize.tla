------------------------------- MODULE Realize ------------------------------
(***************************************************************************)
(* A realization run: orchestrator::realize (host/src/orchestrator/mod.rs) *)
(* around the planning of module Plan. After the plan comes the topologi-  *)
(* cal order of the builds (plan.rs topo_order), then the fetch phase,     *)
(* then one build after the other over the images gathered so far.         *)
(*                                                                         *)
(* What a fetch or a build does to the disk is ImageStore's subject; here  *)
(* each one succeeds or fails.                                             *)
(***************************************************************************)
EXTENDS Plan, Sequences

VARIABLES
  pc,      \* "plan", "topo", "fetch", "build", "done", "error", and the two
           \* errors of the orchestrator itself: "missing" and "incomplete"
  stack,   \* the recursion of visit: <<drv, inputDrvs still to be visited>>
  seen,    \* derivations visit has entered
  order,   \* the result of topo_order
  next     \* index in order of the next build

topo == <<stack, seen, order>>
realizeVars == <<pc, topo, next>>
allVars == <<vars, realizeVars>>

RInit ==
  /\ Init
  /\ pc = "plan"
  /\ stack = <<>> /\ seen = {} /\ order = <<>>
  /\ next = 1

Planning ==
  /\ pc = "plan"
  /\ Next
  /\ UNCHANGED realizeVars

Frame(d) == <<d, Deps[d]>>

\* visit(drvs, to_build, root, ..), unless the fast path planned nothing.
TopoStart ==
  /\ pc = "plan" /\ phase = "planned" /\ done # {}
  /\ pc' = "topo"
  /\ stack' = <<Frame(Root)>>
  /\ seen' = {Root}
  /\ UNCHANGED <<vars, order, next>>

TopoSkipped ==
  /\ pc = "plan" /\ phase = "planned" /\ done = {}
  /\ pc' = "fetch"
  /\ UNCHANGED <<vars, topo, next>>

Top == stack[Len(stack)]
Below == SubSeq(stack, 1, Len(stack) - 1)

\* for dep in d.inputDrvs.keys() { visit(dep) }, in any order of the keys.
TopoDescend(dep) ==
  /\ pc = "topo" /\ stack # <<>> /\ dep \in Top[2]
  /\ LET rest == Append(Below, <<Top[1], Top[2] \ {dep}>>)
     IN stack' = IF dep \in seen THEN rest ELSE Append(rest, Frame(dep))
  /\ seen' = seen \cup {dep}
  /\ UNCHANGED <<vars, pc, order, next>>

\* out.push after the recursion; the fault has the dependents first.
EmitFront(d) == IF d \in to_build THEN <<d>> \o order ELSE order
Emit(d) == IF d \in to_build THEN Append(order, d) ELSE order

TopoReturn ==
  /\ pc = "topo" /\ stack # <<>> /\ Top[2] = {}
  /\ order' = Emit(Top[1])
  /\ stack' = Below
  /\ UNCHANGED <<vars, pc, seen, next>>

TopoDone ==
  /\ pc = "topo" /\ stack = <<>>
  /\ pc' = "fetch"
  /\ UNCHANGED <<vars, topo, next>>

\* The paths that get an image in the fetch phase: not only the downloads.
NarsOnly == fetches
Materialized == fetches \cup fetchurl

\* All fetches run at once and are awaited one by one; nothing reads
\* ws.images before the last of them.
FetchPhase ==
  /\ pc = "fetch"
  /\ images' = images \cup Materialized
  /\ pc' = "build"
  /\ UNCHANGED <<world, phase, plan, frontier, done, topo, next>>

\* "materializing {p}" failed: the run ends.
FetchFails ==
  /\ pc = "fetch" /\ fetches \cup fetchurl # {}
  /\ pc' = "error"
  /\ UNCHANGED <<vars, topo, next>>

Building == pc = "build" /\ next <= Len(order)

\* The images of a build's inputs are looked up first: "missing image for
\* input {p}". Then it succeeds, and its outputs have images.
Build ==
  /\ Building
  /\ IF InputSet(order[next], hits) \subseteq images
     THEN /\ images' = images \cup Outputs[order[next]]
          /\ next' = next + 1
          /\ UNCHANGED pc
     ELSE pc' = "missing" /\ UNCHANGED <<images, next>>
  /\ UNCHANGED <<world, phase, plan, frontier, done, topo>>

BuildFails ==
  /\ Building
  /\ pc' = "error"
  /\ UNCHANGED <<vars, topo, next>>

\* The end of realize, and output_closure for a closure goal.
Finish ==
  /\ pc = "build" /\ next > Len(order)
  /\ pc' = IF expand_roots /\ ~(OutputClosure(hits) \subseteq images)
           THEN "incomplete" ELSE "done"
  /\ UNCHANGED <<vars, topo, next>>

RNext ==
  \/ Planning \/ TopoStart \/ TopoSkipped
  \/ (\E dep \in Drvs : TopoDescend(dep)) \/ TopoReturn \/ TopoDone
  \/ FetchPhase \/ FetchFails \/ Build \/ BuildFails \/ Finish

RSafeSpec == RInit /\ [][RNext]_allVars
RSpec == RSafeSpec /\ WF_allVars(RNext)

-----------------------------------------------------------------------------

RTypeOK ==
  /\ TypeOK
  /\ pc \in {"plan", "topo", "fetch", "build", "done", "error", "missing", "incomplete"}
  /\ seen \subseteq Drvs
  /\ \A i \in 1..Len(stack) : stack[i] \in Drvs \X SUBSET Drvs
  /\ \A i \in 1..Len(order) : order[i] \in to_build
  /\ next \in 1..(Len(order) + 1)

\* "build phase: dependencies first" (mod.rs:202): when a build starts, every
\* path its sandbox mounts has an image, whatever the cache held before; and
\* a closure goal ends with an image for every path of the closure.
NeverMissingImage == pc \notin {"missing", "incomplete"}

\* "Drvs to build (dependencies first)" (mod.rs:98): the order lists each
\* build once, and after every build it directly depends on.
DependenciesFirst ==
  pc \in {"fetch", "build", "done"} =>
    /\ {order[i] : i \in 1..Len(order)} = to_build
    /\ \A i, j \in 1..Len(order) :
         order[j] \in Deps[order[i]] \/ order[j] = order[i] => j <= i

\* A run ends: with its result, with an error, or with a plan that failed.
RunTerminates == <>(pc \in {"done", "error"} \/ phase = "failed")

\* Why, as inductive invariants (RealizeProofs). The recursion is a chain of
\* dependencies; a derivation it has left is finished, and so are its
\* dependencies; the order lists those of them that are to be built.
OnStack == {stack[i][1] : i \in 1..Len(stack)}
Finished == seen \ OnStack

VisitIsAChain ==
  /\ OnStack \subseteq seen
  /\ \A i, j \in 1..Len(stack) : stack[i][1] = stack[j][1] => i = j
  /\ \A i \in 1..(Len(stack) - 1) : stack[i + 1][1] \in Deps[stack[i][1]]
  /\ \A i \in 1..Len(stack) : /\ stack[i][2] \subseteq Deps[stack[i][1]]
                              /\ Deps[stack[i][1]] \subseteq seen \cup stack[i][2]
  /\ ClosedUnderDeps(Finished)

\* All that d depends on, itself included.
DependsOn(d) ==
  {e \in Drvs : \A S \in SUBSET Drvs : d \in S /\ ClosedUnderDeps(S) => e \in S}

\* Of what a build depends on, the builds come before it.
OrderIsTopological ==
  /\ {order[i] : i \in 1..Len(order)} = Finished \cap to_build
  /\ \A i, j \in 1..Len(order) : order[i] = order[j] => i = j
  /\ \A i \in 1..Len(order) : DependsOn(order[i]) \cap to_build \subseteq {order[j] : j \in 1..i}

\* The steps of a run in their order.
RunIsInOrder ==
  /\ phase # "planned" => pc = "plan"
  /\ pc = "plan" => stack = <<>> /\ seen = {} /\ order = <<>>
  /\ pc \in {"plan", "topo", "fetch"} => next = 1
  /\ pc \notin {"plan", "topo"} => stack = <<>> /\ (seen = Drvs \/ to_build = {})
  /\ pc = "topo" => Root \in seen

\* After the fetch phase everything fetched has an image, and so have the
\* outputs of the builds that are over.
GatheredSoFar ==
  pc \in {"build", "done"} =>
    /\ fetches \cup fetchurl \subseteq images
    /\ \A i \in 1..(next - 1) : Outputs[order[i]] \subseteq images

\* The derivations of a Nix store whose outputs are their own: an input of a
\* derivation comes from one it depends on directly, and what a path refers to
\* from what its own derivation depends on. Two fixed-output derivations of
\* one path (MCRealizeTwin) break this.
OutputsAreTheirOwn ==
  /\ \A d \in Drvs : \A p \in Outputs[d] : Producer[p] = d
  /\ \A d \in Drvs : \A p \in Direct[d] \ Outputs[d] : Producer[p] \in Deps[d] \cup {NoDrv}
  /\ \A p \in Paths : \A q \in References[p] :
       Producer[q] \in (IF Producer[p] = NoDrv THEN {} ELSE DependsOn(Producer[p])) \cup {NoDrv}

=============================================================================
