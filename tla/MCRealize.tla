----------------------------- MODULE MCRealize ------------------------------
(***************************************************************************)
(* Two derivation graphs for Realize, the second one with two fixed-output *)
(* derivations of the same store path, as there are when two stages of a   *)
(* package set fetch the same source.                                      *)
(***************************************************************************)
EXTENDS Realize, TLC

\* root -> {lib, base}, lib -> base, base -> url. lib has two outputs, and
\* like any derivation names its own in its environment; url is a builtin:
\* fetchurl; "src" is a source that only the caller can provide, and "lib-dev"
\* an output that only a build can.
MCPaths == {"root", "lib", "lib-dev", "base", "tarball", "src"}
MCCached == MCPaths \ {"src", "lib-dev"}
MCDrvs == {"root.drv", "lib.drv", "base.drv", "url.drv"}
MCDeps == ("root.drv" :> {"lib.drv", "base.drv"}) @@ ("lib.drv" :> {"base.drv"})
            @@ ("base.drv" :> {"url.drv"}) @@ ("url.drv" :> {})
MCOutputs == ("root.drv" :> {"root"}) @@ ("lib.drv" :> {"lib", "lib-dev"})
               @@ ("base.drv" :> {"base"}) @@ ("url.drv" :> {"tarball"})
MCDirect == ("root.drv" :> {"root", "lib-dev", "src"})
              @@ ("lib.drv" :> {"lib", "lib-dev", "base"})
              @@ ("base.drv" :> {"base", "tarball"}) @@ ("url.drv" :> {"tarball"})
MCReferences == ("root" :> {"lib", "root"}) @@ ("lib" :> {"base"})
                  @@ ("lib-dev" :> {"lib"}) @@ ("base" :> {"base"})
                  @@ ("tarball" :> {}) @@ ("src" :> {})
MCProducer == ("root" :> "root.drv") @@ ("lib" :> "lib.drv") @@ ("lib-dev" :> "lib.drv")
                @@ ("base" :> "base.drv") @@ ("tarball" :> "url.drv") @@ ("src" :> "none")

\* root needs a and b; each fetches the source "src" with a drv of its own.
\* closure.drvs is sorted, so that src1.drv is the one producing_drv finds,
\* and visit reaches a.drv, which names src2.drv, before b.drv.
TwinPaths == {"root", "a", "b", "src"}
TwinDrvs == {"root.drv", "a.drv", "b.drv", "src1.drv", "src2.drv"}
TwinDeps == ("root.drv" :> {"a.drv", "b.drv"}) @@ ("a.drv" :> {"src2.drv"})
              @@ ("b.drv" :> {"src1.drv"}) @@ ("src1.drv" :> {}) @@ ("src2.drv" :> {})
TwinOutputs == ("root.drv" :> {"root"}) @@ ("a.drv" :> {"a"}) @@ ("b.drv" :> {"b"})
                 @@ ("src1.drv" :> {"src"}) @@ ("src2.drv" :> {"src"})
TwinDirect == ("root.drv" :> {"a", "b"}) @@ ("a.drv" :> {"src"}) @@ ("b.drv" :> {"src"})
                @@ ("src1.drv" :> {}) @@ ("src2.drv" :> {})
TwinReferences == [p \in TwinPaths |-> {}]
TwinProducer == ("root" :> "root.drv") @@ ("a" :> "a.drv") @@ ("b" :> "b.drv")
                  @@ ("src" :> "src1.drv")

\* What NeverMissingImage needs holds of the first graph, and not of the second.
ASSUME OnlyTwinsShare == OutputsAreTheirOwn <=> Outputs # TwinOutputs

=============================================================================
