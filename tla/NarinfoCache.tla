---------------------------- MODULE NarinfoCache ----------------------------
(***************************************************************************)
(* The lookups of nix-cache/src/lib.rs and the narinfos they leave on disk. *)
(* A hit is memoized for ever, by a write in place whose errors nobody      *)
(* sees; a miss is not. An entry may also come from an older version (its   *)
(* marker of a miss), from another process over the same cache directory,   *)
(* or from a write that was cut: at a line that has to be there, when it    *)
(* does not parse, or inside NarSize, when it does. (Cut after References   *)
(* it is as good as whole, and inside it too for the download: what the     *)
(* plan makes of missing references is not this module's subject.)          *)
(***************************************************************************)
EXTENDS Naturals

CONSTANT Nars   \* paths a run looks up

VARIABLES
  entry,     \* the file of each path in the disk cache
  upstream,  \* paths the binary cache has
  found      \* where the lookup of each path stands, or what it answered

narinfoVars == <<entry, upstream, found>>

Usable == {"badsize", "whole"}              \* what parse_narinfo accepts
Written == {"empty"} \cup Usable            \* what a write of a hit may leave
Entries == {"absent", "miss"} \cup Written
Asking == {"asked", "writing"}

NarinfoTypeOK ==
  /\ entry \in [Nars -> Entries] /\ upstream \subseteq Nars
  /\ found \in [Nars -> {"unknown", "miss", "error"} \cup Asking \cup Usable]

NarinfoInit ==
  /\ entry \in [Nars -> Entries]
  /\ upstream \in SUBSET Nars
  /\ found = [p \in Nars |-> "unknown"]

-----------------------------------------------------------------------------

Answer(p, step, answer) ==
  found[p] = step /\ found' = [found EXCEPT ![p] = answer]

\* lookup_local: a legacy marker or a text that does not parse is removed.
Discards(p) == entry[p] \in {"miss", "empty"}
Swept(seen) ==
  [p \in Nars |-> IF p \in seen /\ Discards(p) THEN "absent" ELSE entry[p]]

\* The fault takes the marker at its word.
LookupTrusting(p) ==
  /\ IF entry[p] \in Usable \cup {"miss"}
     THEN Answer(p, "unknown", entry[p])
     ELSE Answer(p, "unknown", "asked")
  /\ entry' = Swept({p}) /\ UNCHANGED upstream

Lookup(p) ==
  /\ IF entry[p] \in Usable
     THEN Answer(p, "unknown", entry[p])
     ELSE Answer(p, "unknown", "asked")
  /\ entry' = Swept({p}) /\ UNCHANGED upstream

\* 404 is a miss, and nothing is recorded.
NotFound(p) ==
  /\ p \notin upstream /\ Answer(p, "asked", "miss")
  /\ UNCHANGED <<entry, upstream>>

\* The request, its status, its body or the text is not as it should be.
LookupFails(p) == Answer(p, "asked", "error") /\ UNCHANGED <<entry, upstream>>

\* write_local creates the directory and the file, which truncates an old one.
WriteLocal(p) ==
  /\ p \in upstream /\ Answer(p, "asked", "writing")
  /\ entry' = [entry EXCEPT ![p] = "empty"]
  /\ UNCHANGED upstream

CannotWrite(p) ==
  /\ p \in upstream /\ Answer(p, "asked", "whole")
  /\ UNCHANGED <<entry, upstream>>

\* Whatever reached the disk, the answer is the text that was received.
WriteEnds(p) ==
  /\ Answer(p, "writing", "whole")
  /\ \E text \in Written : entry' = [entry EXCEPT ![p] = text]
  /\ UNCHANGED upstream

LookupStep(p) ==
  Lookup(p) \/ NotFound(p) \/ LookupFails(p) \/ WriteLocal(p) \/ CannotWrite(p) \/ WriteEnds(p)

-----------------------------------------------------------------------------

\* The world outside: a path appears in the binary cache; another process
\* writes, or is in the middle of writing, its own hit.
Publish(p) ==
  /\ p \notin upstream /\ upstream' = upstream \cup {p}
  /\ UNCHANGED <<entry, found>>

OtherProcess(p) ==
  /\ p \in upstream
  /\ \E text \in Written : entry' = [entry EXCEPT ![p] = text]
  /\ UNCHANGED <<upstream, found>>

=============================================================================
