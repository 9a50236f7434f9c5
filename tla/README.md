# flaky: specifications

flaky builds Nix flakes without Nix on the host. A host program plans which
store paths a goal needs, downloads or builds them into EROFS images, and runs
each evaluation and build inside a micro virtual machine that it talks to over
an emulated virtio socket. This directory holds TLA+ models of the parts of it
that are hard to get right, the TLC runs that check them on small instances,
and the theorems TLAPS proves about them for all sizes.

- `PROJECT.json` lists, for machines, what follows: the components, the runs,
  the lines of `src/` that each definition translates, the hazards, the
  mutants (a plausible bug per property, which the property finds) and the
  theorems.
- `tlc -workers 2 -config X.cfg M` checks module `M` with `X.cfg`.
- `tlapm MProofs.tla` checks the proofs about `M`, `VsockPipeProofs.tla` those about the pipe, and so on
  (half an hour for all of them on a small machine, most of it for the device and the NAR stream).

## 1. The system

```
  host process                                          guest (one VM per task)
  ------------                                          -----------------------
  Realize/Plan --spawns--> tasks: FetchNar, fetchurl,
  (orchestrator)           Build, EvalFlake
       |                        |            \
       | image files            | guest_rpc   \ image devices
       v                        v              v
  image directory          vm.rs / rpc.rs --- session.rs / rpc.rs / guest_api.rs
  narinfo cache                 |  tarpc over two streams     |
                           vsock_pipe (tokio thread)          |
                                |  bytes, wakers, pings       |
                           vsock_device (mio worker) --- virtqueues --- guest kernel
```

| component | state it keeps | operations | talks to |
|---|---|---|---|
| vsock pipe, `host/src/vsock_pipe.rs` | two `Half`s: a bounded buffer, two closed flags, two wakers | poll_read, poll_write, poll_shutdown, drop of either end; try_write, read_slice | host tasks on one thread, the device worker on another; wakers one way, `wake_device` the other |
| vsock device, `host/src/vsock_device.rs` | connections (state, shutdown flags, fwd_cnt, pending), the ports' queues and listeners | a handler per packet type, handle_event, handle_queue, service_connections, reset, `VsockHost::accept` | the pipe, the guest's driver through the RX and TX rings |
| VM session and RPC, `vm.rs`, `rpc.rs`, `host_api.rs`; `guest-runtime` `session.rs`, `rpc.rs`, `guest_api.rs`, `main.rs` | two streams, the call in progress, the guest's shutdown flag | accept, greeting, calls, shutdown request, reap; reconnect | everything a task does in a VM |
| orchestrator, `orchestrator/mod.rs`, `plan.rs` | the workspace: known images, plan, frontier | plan, resolve, topo_order, fetch phase, build phase, output_closure | tasks, image directory, narinfo cache |
| derivation graph, `nix-drv/src/lib.rs` | none: walks over a parsed file | find_root, closure | orchestrator |
| tasks and image store, `task.rs`, `tasks/*.rs`, `fetchurl.rs` | image files, temporaries, output devices; the fetch semaphore | FetchNar, realize_to_image, Build | orchestrator, VM session, binary cache |
| NAR stream, `host/src/nar.rs`, `nar-to-erofs/src/lib.rs` | the encoder's directory stack and buffer; the decoder's frames and counters | DirNar poll_read; NarDecoder next_entry, NarData poll_read; write_nar | tasks that pack a tree or unpack a download |
| binary cache client, `nix-cache/src/lib.rs` | a disk cache of narinfos | lookup (lookup_local, write_local), fetch_nar_into | orchestrator, FetchNar |
| flake evaluation, `flake.rs`, `tasks/eval.rs`; `guest-runtime/src/runner.rs` | an evaluation cache, images of the inputs and of packed sources | lock_inputs, eval_cache_key, extras_from_eval; EvalFlake with a fetch per input, flake_eval, pack_store_paths | VM session, tarball unpacking, image directory |
| image file system, `image_fs.rs` | what it recorded of its images, open files (at most 128) | lookup, get_attr, open, read, release | the guest, over virtio-fs; other runs replace the files below it |
| tarball unpacking, `tarball.rs`, `tasks/verify.rs` | the image being written, the hash of a finished one | tar_to_image, image_nar_digest, VerifyNarHash | the fetches of inputs |
| guest builder and runner, `guest-runtime/src/builder.rs` | mounts and processes of one machine | run_build, flake_eval, pack_store_paths, shell | VM session |
| OCI tools, derivation attributes and encodings | nothing that lasts | conversions | - |

### What is hard here, and what makes each part correct

- **Pipe.** Two threads share two mutexes; wakeups are sent after the unlock.
  Correct: no byte lost or out of order, the end of a stream only after its
  last byte, no wakeup lost on either side, backpressure always released.
- **Device.** One worker moves bytes of many connections between bounded rings,
  pipes and an unbounded `pending` that only the guest's credit bounds, while
  guests reset, half-close and time out. Correct: end-to-end order, memory
  bounded by the credit, an accept never asleep beside a queued connection, the
  worker never asleep over work, delivery.
- **Session.** Two peers that wait for one another through two streams, four
  timers, and a shutdown request that may overtake a call that was given up.
  Correct: guest_rpc and reap end; the guest is not stopped while it is needed;
  without a fault it powers off.
- **Orchestrator.** A graph walk that consults three sources of knowledge,
  whose result three phases rely on. Correct: no build ever misses an input,
  nothing is materialized that is there already, dependencies come first.
- **Image store.** An image is trusted because its file exists; runs fail or
  are killed anywhere. Correct: no file at an image path is ever partial.
- **Binary cache client.** Hits are remembered for ever, in files written in place
  by several processes. Correct: a miss is never an old one, and a run that
  succeeds is not misled by what is left of an entry.
- **Flake evaluation.** Results outlive the run that found them, while the tree
  they were computed from is edited, and the images they count on come and go.
  Correct: every source of a result has an image; an entry holds what its key
  stands for; an input's image is never half of one (it can be, where two inputs of a lock
  have one narHash, see 5).
- **Image file system.** Files that a machine was given are opened again by their
  names, long after. Correct: the guest reads the image it was given, or an error (5 has
  what the device cannot tell apart).
- **Tarball unpacking.** Entries arrive in an order a NAR does not have. Correct:
  the tree of the lock is accepted in whatever order it came, and no other.
- **NAR stream.** Two state machines, one encoding and one decoding, with
  partial reads, padding and truncation. Correct: what is sent is what is
  received, and a cut archive is never taken for a whole one.

The hazards, each with its line and the properties that would see it go wrong,
are in `PROJECT.json`.

## 2. The modules

### PipeHalf, VsockPipe, ByteStream

`PipeHalf` is `struct Half` as a record and the operations on it (`Extend` for
VecDeque::extend of what fits, `FrontOf` and `Drain` for a read). `VsockPipe`
has two of them. **Each critical section is one action, and each call made after
the unlock is another**: `WakeDevice` for the host's ping, `FireWake` for a
waker the device took. Between the two anything may happen on the other thread.
The drop of the device's end closes its halves in two critical sections
(`DropDevEndToHost`, `DropDevEndToDev`); the host's drop takes both locks
(`DropStream`). The client on the device's side is the loop of
service_connections over one connection (`devPc`: waiting in poll, flushing after a
packet, flushing in a service, reading, dropping). `shutdown` are the flags of
ConnState::Shutdown: `GuestShutdown` of one direction keeps the pipe, which then
is neither read nor dropped (`CanTransfer`); of both, or `GuestReset`, it drops the
device's end. `Repoll` is external: tokio
polls a task that awaits several things when any of them is ready.

A byte is its position in its stream, so losing, repeating and swapping bytes
all show. `sentH, gotH, sentD, gotD, eofD` are history.

`ByteStream` is the abstract specification of one direction: accepted bytes,
a growing prefix handed out, closing for good, an end only when everything was
handed out. `VsockPipe` implements it twice (`ToHost`, `ToDev`, `PipesAreStreams`),
with the histories as the mapping and `wclosed`, `rclosed` the two flags of the Half.

### VsockDevice

One action per packet handler (`TxRequest`, `TxRw`, `TxRst`, `TxShutdown`,
`TxCreditRequest`), the event and RX queue notifications (`Event`), and
service_connections, flush_pending and transfer_rx_data as loops whose turns are
actions (`Service`, `Flush`, `TransferRx`, `TransferEof`, `TransferStops`): the worker handles
one event at a time, but host tasks run beside it on their thread, so each access
to a pipe is a step of its own. The host's poll and its ping are one step here,
since `VsockPipe` takes them apart and proves that nothing is lost between them.
The accept queue and the listener slot (`HandOver`, `Accept`) are one critical
section each, as under the port's lock. `listener = "stale"` is a oneshot sender
whose receiver a timeout dropped.

External, from the protocol the device speaks: the guest's driver (connect,
send within its credit, shutdown, RST, credit request), and the rings, of which
the number of posted receive buffers matters. fwd_cnt and tx_cnt wrap at `CntMod`
(2^32 in the code).

### Session

`guest_rpc` and `reap` against `run_session`. `host` and `guest` are program
counters; `reqs`, `replies`, `greet` are what the two streams carry (reliable and
ordered, which is what the two modules above show). `drive` is the select between
the call and the host API: a greeting is answered only there (`PollsHostApi`).
tarpc is external: a client future with a deadline, a dispatch that ends with its
stream, a server that executes one request at a time. `again` is the stream of a
guest whose first one ended before a shutdown was asked. `faults` is chosen
at the start: every subset of the four timers, a lost reply and a crash.

### Plan and Realize

`Plan` is `plan` and `resolve`: one action per branch of a turn of the loop.
What is on disk, what the narinfo cache remembers and what the binary cache has
are arbitrary sets chosen in `Init` (how narinfos get there is `NarinfoCache`), and so are the goal's kind and the images the
caller hands in. The frontier is a set: the code's is a queue, so every
order is checked and not one. `InputSet` and `OutputClosure` are least fixed points,
which the code's worklists compute. `scan_store_paths`, a search of text for
store paths, is the constant `Direct`; the closure of the root derivation is
the constant `Drvs`. `Producer` is the function `producing_drv`
computes. `RootIsLast` (nothing depends on what depends on it) holds of
every derivation file, since a derivation's path is a hash of its inputs.

`Realize` EXTENDS it with the run: the recursion of topo_order as an explicit
stack, the fetch phase, the builds in their order, and `output_closure` for a closure
goal. "missing image for input" and its counterpart in output_closure are the states
`"missing"` and `"incomplete"`; `NeverMissingImage` says they are never reached.

### NarinfoCache, ImageStore

`NarinfoCache` is the lookup of a path: the entry on disk (`entry`), what the binary
cache has (`upstream`) and where the lookup stands (`found`). `WriteLocal` and `WriteEnds` are
the two halves of a write in place, between which the run may be killed, and which may
leave any part of the text whatever it answers. Torn texts are told apart by
what becomes of them: `"empty"` does not parse and is removed by the next lookup,
`"badsize"` (cut inside NarSize) parses and fails every download that is compared with
it. `OtherProcess` and `Publish` are the world outside.

`ImageStore` EXTENDS it with the image directory, under up to `MaxRuns` runs, each a
sequence of phases (`run`): the plan, which trusts what exists (`Existing`) and looks up
the rest one by one; the fetches, each a task of its own that takes a permit, writes
`".download"` and renames it (FetchNar) or writes in place (`realize_to_image`);
and the build, with its devices made on the host (`"prepare"`), the guest's work up to the
builder's exit (`"setup"`), the outputs packed in the guest (`"pack"`) and renamed by the host
(`"save"`). `handled` are the outputs a phase is through with: every output is one step of
a phase, and the phase moves on when all of them are. A run that ends (error, kill or exit)
drops its tasks where they stand. `World` acts between runs and during the plan only, because
no later phase reads what it changes.

### InputImages, EvalFlake

`InputImages` is the fetch task of an input. `file` is what has been written of the file under
each of its two names; `handle` says which name, if any, the file a task has open has by now,
so that a task that renames or empties a file does so under the others. Two inputs
with one narHash (`Twins`) have one path, which the constant `InputPath` expresses. `shared` is history:
the paths of which two tasks have held a permit at once.

`EvalFlake` EXTENDS it with the run of `flake.rs` around it: `ReadLock` (lock_inputs), `LookUp`
(eval_cache_key, a read of the entry, extras_from_eval), the fetches, `NixEval`
and `DerivationShow` (the guest's two commands, which read the live tree), `PackStorePaths` and
`RenameExtras`, `CreateEntry` and `WriteEntry` (std::fs::write of the entry, under a key
made again). What a tree means is constant: `LockOf` and `RootOf`. An entry is a record of its
root, the sources without an image and the image they are packed in, or `Torn`. `Edit` is the
owner of the tree and `DiskChanges` are other runs and users, who make and remove images
between the runs; `EditsDuringRuns` says whether the tree may change under a run.
`FindRoot` is the set of roots of which find_root returns the first.

### ImageFs

One action per request that reaches a file: `Register` (ImageFiles::new), `Open`, `Release`,
and `read` by what open_file finds: the file is open, has to be opened again
and is what it was, or is not. lookup and get_attr answer from what `Register` recorded.
`open` is the LRU list. A file on disk is an inode number, a size and bytes; the device
knows the first two (`Identity`; the device number is the same throughout). `RemoveImage`,
`ReplaceImage` (another file is renamed to the path) and `RewriteImage` (the same file is emptied and
written again, under those who have it open, as `fetchurl.rs:256` does) are other runs. A number is reused
as soon as nobody holds the file, by a file of the same size too. `altered` is history: the images whose path
got other bytes under the recorded number.

### TarImage

tar_to_image, which adds entries in whatever order they come, then
image_nar_digest, whose walk of the image visits each directory in sorted order
(`stack`, a frame per directory). The hash is what NarHasher was fed, strings with
padding and bytes, and `NarOf` is the reference: the NAR of a tree by the
format's recursive definition, in which the NAR of a directory is made of those of its nodes, the
least name first. It shares with the code's side only the head of
an entry and the flag of an executable file. The entries of an archive are a function from
paths, any order of which may arrive that has each directory before its contents; the
name 0 is a bad path.

### MCHost

These parts live on one cache directory and share no variable here, so `MCHost`
EXTENDS them all and each initial state picks the `part` that runs.

### NarStream

`DirNar` and `NarDecoder` joined by the buffer between them. The encoder's part
is one poll_read at a time, whose turns of advance() are actions; the decoder's is
next_entry, an action per item that it reads. An item is a length-prefixed string or one
byte of contents or padding. `Cut` ends or damages the stream anywhere, `Shrunk` is a file
that lost bytes after its size was read. A directory that is open keeps the set of names that
it has still to send, of which the least is next (`FirstOf`): the code sorts them once and
iterates. `source` is the tree on disk and `tree` what read_dir lists of it: an entry that could not be read
is left out with all that is below it (`Listings`). Names are numbers, some of which stand for names that are
not UTF-8 (`NotUtf8`), and a link's target is text or other bytes: DirNar sends both as they
are, `Undecodable` is where the decoder refuses them, which is not where it reads them. A name that no directory
has ("", "..", one with a slash) can only come from a damaged stream (`ValidName`). DirNar is
only given directories; a root that is a file or a link is an archive from a binary cache.

## 3. The runs

Each run is one question. Times are with two workers on a small machine.

| run | instance | states | shows |
|---|---|---|---|
| `pipe` | capacity 2, 3 bytes each way, 1 receive buffer | 240 k, 25 s | `TypeOK`, `InOrder`, `NoLostHostWakeup`, `NoLostDeviceWakeup`, both directions implement `ByteStream`; `PendingIsFlushed`, `WriterResumes`, `ReaderIsServed` |
| `device` | one connection with 3 bytes up, or 1 each way, or two connections with 1 byte down; capacity 2, credit 2, counters mod 3, 1 receive buffer | 2.8 M, 80 s | `EndToEndOrder`, `PendingWithinCredit`, `NoStrandedConnection`, `NoStalledWork` |
| `device_live` | 2 bytes up or 2 down, capacity 1, credit 1 | 135 k, 40 s | `GuestBytesArrive`, `HostBytesArrive` |
| `device_credit` | 4 bytes up, capacity 2, credit 1, a buffer for every packet | violation | see 5 |
| `session` | 3 calls, all 64 sets of faults | 16 k, 2 s | `NoEarlyShutdown`, `OkLeavesNothingRunning`, `SessionEnds`, `PowersOff` |
| `nar` | every tree of two levels and two names, one of them not UTF-8 in some, with files of 0, 1 and 4 units, links, an unreadable node, in every listing; buffer 3, alignment 2 | 733 k, 30 s | `EntriesOfTheTree`, `FinishedIsWhole`, `ErrorsHaveACause`, `StreamEnds` |
| `host` | *store*: 2 NARs, 1 fetchurl, 2 outputs, 2 permits, 2 runs; *eval*: 3 trees, 2 attributes, 3 inputs of which two have one narHash, 2 permits, 2 evaluations; *fs*: 3 images, 2 open files, 1 replacement or rewriting; *tar*: 6 trees, 11 archives | 866 k, 120 s | `NoPartialImage`, `DoneIsRealized`, `ResultIsCovered`, `EntriesMatchTheirKey`, `ReadsUnalteredImage`, `VerifiedIsTheTree`; `MissIsFresh`; `EveryRunEnds` |
| `input_twins` | *eval*, no fault | violation | see 5 |
| `image_store_fetchurl` | *store*, the same | violation | see 5 |
| `eval_stale` | *eval*, edits during runs | violation | see 5 |
| `realize` | 4 derivations, 6 paths, any availability of 4 of them, both kinds of goal | 339 k, 45 s | `NoMissingInput`, `OnlyWhatIsMissing`, `NeverMissingImage`, `DependenciesFirst`, `RunTerminates` |
| `realize_twin` | two derivations of one output | violation | see 5 |

**Why the bounds are enough.** *pipe*: three bytes over a capacity of two fill
the buffer, leave a rest in pending, and split reads and writes; one receive
buffer makes the device run out of them. *device*: three bytes against a credit
of two and counters modulo three make the credit run out and the counters wrap;
one receive buffer makes respond() drop packets; the second connection competes
for the queue, the listener, the ring and the worker. Connections are
interchangeable, which `ConnSymmetry` uses, in the safety run only. *session*: with
three calls there is a first, a middle and a last one, and at most two
requests are ever in flight. *nar*: contents shorter than, equal to and longer than the
buffer, aligned and not, empty files, and every nesting of two levels,
after which the frames only repeat. *host, store*: the second run finds what the
first left; a third finds nothing new, since a run leaves one of the three contents of
each file whatever it found. `Init` starts with nothing published, at most one entry on disk and
both outputs or none in place, because a first run brings about the rest. *host, eval*: t1
and t2 differ in one attribute and in their locks (t1 locks the two inputs of one narHash, t2 two of
different ones), the lock of t3 is refused; two permits let two tasks meet; the second
evaluation finds a whole, torn or missing entry and images that came or went. *host, fs*:
three images in a cache of two evict one another. *host, tar*: the trees differ in one
thing each (a mode, a size, what holds a file), with directories three deep, links, files of
every size modulo the padding. *realize*: a chain of three builds over a
fetchurl, an output that nobody asked for, a path that only the caller has,
and self-references. `Cached` leaves `src` and one of the two outputs of
`lib` without a cache, which keeps the run short.

CHECK_DEADLOCK is off everywhere because every one of these systems may stop: a
closed pipe, an idle device, a finished run.

### Fairness

- *VsockPipe*: the runtime polls a ready task (`PollRead`, and a write that
  must report), the host's ping after its unlock, the worker's loop
  (`DevNotified`, `ServiceConnection`), and a guest that recycles its receive
  buffers. Nobody has to write, to read once dropped, or to close.
- *VsockDevice*: the worker; strong fairness of `Event`, because the worker's poll
  returns every event source that is ready and packets of the TX ring
  do not starve the others; the guest takes its packets; the host accepts
  what is queued and reads.
- *Session*: the host's and the guest's executors poll what is ready. A timer that is in
  `faults` is a step of the host, so `SessionEnds` is stated for behaviours
  where the four timers run; `PowersOff` for those with no fault at all, where no timer
  is needed.
- *NarStream*, *Realize*: one task, polled until it ends. *ImageStore* and
  *EvalFlake*: one condition each on the run and its tasks together, since each of
  their steps brings its run closer to its end. Nobody has to start a run, kill it, edit the
  tree or remove a file. That a lookup or a download comes to an end, well or not, is an
  assumption about the network: reqwest is given no timeout.

## 4. What is proved

Every safety invariant and action property that the passing runs check is a theorem, for every
value of the constants. The modules named `...Proofs` hold the proofs; each inductive invariant was checked with
TLC before it was proved, and is defined at the end of the component's own module, so that TLC can
check it again (but for those of `NarStream` and of the walk in `TarImage`, see there). What follows gives the argument and the
assumptions of each.

**The pipe** (`VsockPipeProofs`; capacity and receive buffers positive, as the code's
constants are).
- `TypeCorrect`: in particular no direction buffers more than the
  capacity. Each action that fills a Half takes at most what fits (`AcceptsFits`).
- `OrderCorrect`: `InOrder`, inductive together with `TypeOK`. The
  two lemmas that carry it say that appending to history and buffer alike
  (`AcceptKeepsOrder`) and moving a prefix from one to the other
  (`HandOutKeepsOrder`) keep history = handed out, then buffered.
- `HostWakeupCorrect`: `NoLostHostWakeup` is not inductive: it speaks of parked
  tasks and says nothing of the slots. `HostWakers` is: a parked task has its
  waker in its slot or among those taken and about to be called, and a slot is
  only occupied while its task could not go on.
- `DeviceWakeupCorrect`: `DevicePings` says that past the stage at which the worker
  examined one kind of work, new work of that kind is in the Notifier or about to be
  pinged. It needs `TypeOK` and nothing about the host's tasks.
- `EachDirectionIsAStream`: the refinement. Each step is a step of `ByteStream` or a stutter.
  `ClosedEnds` is what it needs besides `InOrder`: who has closed which end, so that nothing
  moves after a close.

**The device** (`VsockDeviceProofs`; credit positive and below the counters' modulus, the
loads within `MaxBytes`). Connections are any set.
- `DeviceTypeCorrect`.
- `NoStalledWorkCorrect`: `NoStalledWork` only speaks of the idle worker. `WorkIsSeen` holds
  at every step: a connection with work, and not in `todo`, is the one the worker
  is at, unless a wakeup is pending. It needs `GoneIsGone`, because removing a connection must drop its work.
- `NoStrandedConnectionCorrect`: `QueuedOnce`, and `OpensOnce`: until the device takes a
  connection's REQUEST nothing of it exists, so that a queued connection is never queued again.
- `EndToEndOrderCorrect`: `Ordered`, which starts earlier than the property: a guest that is
  still connecting joins its stream once its RESPONSE is in the ring (`ResponseIsFirst`), and
  nothing may precede it there. Packets other than RW carry nothing (`OnlyRwCarries`).
- `PendingWithinCreditCorrect`: `CreditIsCovered`. A guest computes its credit from a
  value of fwd_cnt that may be as old as the oldest packet in the ring, so the bytes held must be
  covered by *every* value that it knows, will learn from the ring, or will be sent, and older values
  must owe more (`Covers`). Counters wrap; the lemmas named `Owed...` are the modular arithmetic.

**The session** (`SessionProofs`; any number of calls, any set of faults).
`SessionTypeCorrect`, `NoEarlyShutdownCorrect` and `OkLeavesNothingRunningCorrect` share one
invariant: while the host drives, at most one request is in a stream or running and it is the call waited
for (`OneRequestAtATime`); a call given up leaves one at most behind, whose shutdown request
comes after it.

**The planner and the run** (`RealizeProofs`). Assumed of a derivation graph: what `PlanAssumption`
says of types, `RootIsLast`, and `GraphIsRooted` (every derivation is reached from the root, and
there are no cycles: a derivation's path is a hash over those of its inputs).
Reference graphs may have cycles.
- `RunTypeCorrect`, `OnlyWhatIsMissingCorrect`.
- `NoMissingInputCorrect`: the property speaks of the finished plan. While it is made, a path that
  matters was visited or is in the frontier (`Follows`), and what was visited has an image or is
  planned; when the frontier is empty, the set of visited paths is closed and so contains the least
  closed set, which `InputSet` is.
- `DependenciesFirstCorrect`: the invariant of an explicit stack of a depth-first walk. What
  was left has all its dependencies before it; what is on the stack is what is still open.
- `NeverMissingImageCorrect` joins the two, with the loop invariants of the fetch and build phases. It assumes
  `OutputsAreTheirOwn`: an input comes from a direct dependency or from nowhere, and
  one derivation produces each output. That this assumption is needed is the run `realize_twin`;
  that it is true of the run `realize` is an ASSUME of `MCRealize`.

**The image store** (`MCHostProofs`; any paths, permits and runs).
`NoPartialStoreImageCorrect` and `DoneIsRealizedCorrect` need that whoever is about to
rename a file has all of it (`MovedIsWhole`), through kills and leftovers of
earlier runs, and that the outputs a phase is through with are in place
(`SavedIsInPlace`). `MissIsFreshCorrect` is an action property. `StoreTypeCorrect` includes that no more
permits are held than there are, for which the proof counts finite sets.

**The evaluation** (`EvalFlakeProofs`; assumed: finitely many attributes, and that `Sources` names every path a
derivation needs and none produces).
- `EvalTypeCorrect`, and `ResultIsCoveredCorrect` from `RunIsCovered`: what a run believes to be covered by
  images still is, because nothing removes them while it lasts. `RunsAreApart` says that runs leave nothing
  behind but what is on disk.
- `InputImagesCorrect`: `UnsharedImagesAreWhole`, for any lock: no image is partial unless two tasks of its
  narHash were at work at the same time (one after the other does no harm, nor does what a killed run left).
  `VerifiedStaysWhole` carries it: of a path that is not shared one task at most holds a permit, has its
  temporary open until it is verified, and what was verified stays whole until it is renamed. That the
  exception is real is the run `input_twins`.
- `EntriesMatchCorrect` assumes `~EditsDuringRuns`, from `RunIsOfTheTree`; the run `eval_stale`
  shows that it must.

**The image file system** (`MCHostProofs`). `FsTypeCorrect`, and `ReadsUnalteredImageCorrect` from: what is
open, or on disk with the identity that was recorded, has the bytes that were recorded, unless the image is in
`altered`. A file that is written again in place changes every image with that number, open or not, and an open
file keeps its number from being given to another, which is why the other images are not touched
(`SameIsOriginal`, `OpenIsOriginal`). Nothing is assumed of inode numbers.

**The NAR stream** (`NarStreamProofs`; any tree in which what is above a node is a directory, of any
depth and width; any buffer size and alignment, files of any size). `EntriesOfTheTreeCorrect`,
`FinishedIsWholeCorrect` and `ErrorsHaveACauseCorrect` have one inductive invariant, `NarInv`.
- The grammar of an archive is made an automaton. A *place* (`Spot`) is where a reader of the archive
  stands: the node it is at, what it is about to read, how much of the contents is left. `Fits`
  says which items may follow at a place and `Succ` where each leads. `Leads(d, w, e)` says that
  the items `w` lead from `d` to `e`, through some run of places.
- The decoder is at a place (`Reader`), and so is the encoder (`Writer`: its stack of directories, as
  far as it has sent them). `Sent` says that what is in the buffer leads from the one to the other.
  The encoder's steps append what leads on (`DescendLeads`, `SendCloseLeads`, `SendContentsLeads`); the
  decoder's take the first item, which `Fits`, and so none of them is an error.
- `Visited` are the nodes before a place in pre-order, and `VisitedSucc` says how each item
  changes them. The decoder has returned exactly those.
- An `Undecodable` node ends the archive where it is: the decoder has then returned the nodes before it
  and no other, which is what `ErrorsHaveACause` says of such an error.
- Of a stream that was cut or failed, `Broken` holds: the decoder is not at the end of the archive,
  and finds nothing, or junk where a token is due, so that it never takes the archive for a whole one.

`Leads` quantifies over runs, which TLC cannot enumerate. TLC checked the invariant in a
form that computes the run from the place and the items, as an invariant of the run `nar`.
`NarTypeCorrect` comes first and does not need it: the skip of unread contents never counts below zero.

**Tarball unpacking** (`TarImageProofs`; any finite trees, of any depth and width, files of any size, any
alignment). Assumed of an archive: it has an entry for each directory it has something in, as
tar writes them.
- `TarTypeCorrect`: an entry that is still to come finds its directory in the archive or in the
  image (`TreesAreKept`), and the walk's frames are directories of the image with names they have
  (`WalkIsInTheImage`).
- `NarIsUnique`: no two trees have one NAR. From the NARs of two nodes that agree up to what follows
  them, `SameNode` reads off the kind, the size and the flag, then entry by entry the names and the
  nodes in a directory (`NodesAreAlike`, by induction over the tree), so that each path of one tree
  is one of the other with the same node (`IsInTheOther`). That it can be read at all rests on where
  a list of entries ends: an entry and the end of a directory begin with different strings
  (`EntryFirst`).
- `VerifiedIsTheTreeCorrect`, both ways: what is verified is the locked tree, and what is refused is not.
  By `WalkHashes`, what has been hashed, followed by what is still to come of each directory the walk is
  in, from the innermost out (`ToCome`), is the NAR of the image. When the walk is over nothing is to come but
  the last parenthesis; so the hash compared is `NarOf` of the image, and `NarIsUnique` does the rest. It
  needs that the image is a tree (`ImageIsATree`), in whatever order its entries came.

`NarOf` is recursive over paths and `EntriesOf` over sets of names. That the equations of such a
definition hold is proved by `RankRecursion`: a function whose value at each point is given in terms of
its values at points of smaller rank exists. The rank of a path is how far it is from the deepest one
(`TreeRank`), that of a set of names its size. `WalkHashes` speaks of a sequence of remainders, which
TLC cannot guess; TLC checked it in a form that computes them from the walk's frames.

**The host** (`MCHostProofs`). `PartsKeepTheirSpecs`: the module that the runs check implements each part's own specification, so
that all of the above holds there; `HostTypeCorrect` and
`NoPartialImageCorrect` are the two properties that speak of several parts. The latter has no hypothesis: the
exception for shared temporaries is in the property.

No theorem has a hypothesis that no instance meets: TLC evaluates every assumption on the
constants, and `MCRealize` states where `OutputsAreTheirOwn` holds.

**What only TLC checks.** Liveness under fairness, for which the prover has no
backend, nor for ENABLED: `PendingIsFlushed`, `WriterResumes`, `ReaderIsServed`, `GuestBytesArrive`,
`HostBytesArrive`, `SessionEnds`, `PowersOff`, `StreamEnds`, `EveryRunEnds`, `RunTerminates`.

*Induction.* The induction theorems of the library take an operator as parameter, which the
provers cannot instantiate. Where a proof needs one, it is proved for sets, or for functions, from
well-founded orders that the library has without such a parameter: over numbers in `VsockDeviceProofs`
(`LeastNatural`, `Induction`), for what is recursive over a ring; over ranks in `TarImageProofs`
(`RankInduction`, `RankRecursion`). `NarStream` does without: its
trees are never walked by a recursive definition, and an order of paths (`Before`) stands for the walk.

## 5. Where the code and its words part

1. `device_credit`: service_connections flushes pending bytes but does not add
   them to fwd_cnt (`vsock_device.rs:617`; transfer_tx_data does, at 498-500). Bytes that had
   to wait never return their credit; once BUF_ALLOC of them have waited, the
   guest cannot send again on that connection.
2. `image_store_fetchurl`: realize_to_image creates the image at its final path
   (`fetchurl.rs:256`). A failure or a kill after that leaves a partial file, which
   the next plan takes for a cached image. FetchNar avoids exactly this, in the words of
   `tasks/fetch.rs:12`.
3. `realize_twin`: producing_drv (`orchestrator/mod.rs:118`) picks the first
   derivation with a given output, topo_order follows inputDrvs; when
   two derivations share an output, a build may come before the one planned to
   provide its input, against "dependencies first" (`mod.rs:202`).
4. `eval_stale`: eval makes the key of an entry again, from the live tree, after the
   guest has evaluated it (`flake.rs:345-357`). When the tree is edited in between, the old
   tree's derivations are stored under the new one's key; `flake.rs:184` says the
   result is determined by the attribute, the locked inputs and the tree.
5. `input_twins`: EvalFlake::run spawns a task for each input whose image is missing
   (`tasks/eval.rs:201-216`); two inputs with one narHash have one image and one temporary (`116`,
   `204`). The trace: one task verifies the temporary, the other's File::create (`tarball.rs:126`) empties
   it, the first renames it. An empty file is then the image, which every later run trusts, though
   the task "verifies its NAR hash against the lock" (`eval.rs:86`).

Four more claims are stated in the modules, beside the properties that hold instead. None is a run;
TLC finds each violated when the configuration named checks it.

- `UnusualArchiveIsFetched` (`MCHost.cfg` with `Faults = FALSE`, `Unusual = {"nixpkgs"}`): an archive that cannot be streamed should
  go by way of the disk (`tarball.rs:13-14`), but fetch_via_disk downloads into `tmp/input-<hash>`
  (`tasks/eval.rs:65-66`, `106-108`), a directory nobody has made: `create_dir_all` comes after
  the download (`68-69`), and `Orchestrator::new` makes only `tmp` (`orchestrator/mod.rs:72-74`).
  So File::create fails (`eval.rs:24`), and the fetch with it.
- `ReadsTheImage` (`MCHost.cfg`): open_file compares device, inode number and length, when it opens a
  file again (`image_fs.rs:142-146`). A file that is written again in place has all three as before if its
  length is the same; one that stays open is not looked at; a replacement of the same length may get the
  old number. "image changed while VM was running" (`148`) is then not said. In place
  writes `fetchurl.rs:256`, in the run of another process that made its plan before the image was there.
- `WriterOutlivesHalfClose` (`MCVsockPipe.cfg`): a guest that shuts down one direction puts the connection
  into ConnState::Shutdown (`vsock_device.rs:396-398`), of which transfer_rx_data serves neither direction
  (`524-530`). A host writer parked on a full pipe is neither served nor told, until the guest shuts down the
  other direction or resets. `vsock_pipe.rs:9` speaks of "Two independent directions (like a socketpair)".
- `FinishedIsTheSource` (`MCNarStream.cfg`): `filter_map(|e| e.ok())` (`nar.rs:73`) passes over entries that
  read_dir failed on, and the archive ends well without them, where `nar.rs:1` says "Serializing a real
  directory tree". For the input of a flake the hash of the finished image (`tasks/eval.rs:126-132`) refuses
  the result; the digest of HashReader is dropped (`78-82`).

Met on the way, and stated nowhere:

- A narinfo cut inside NarSize parses. Downloads of that path then fail in every
  run, until somebody removes the entry. One cut inside References parses too, and a plan
  that reads it misses inputs; `NarinfoCache` has the first and not the second.
- find_root is documented to return None when there is no unique root
  (`nix-drv/src/lib.rs:235-236`); it returns the first of several.
- After an accept timeout, or the end of the host API, the guest was never asked to shut down,
  though reap's comment (`vm.rs:199`) takes it that it was; reap then waits its whole timeout,
  which `Session` has.

## 6. What is not modelled

- *In the modelled parts*: packet layout, scatter-gather of
  descriptors and interrupts; the payloads of RPCs; HTTP, hashing, decompression and EROFS
  writing, which are steps that succeed or fail; the content and names of files.
- *pipe and device*: what the code promises nothing about is in the models, and the properties say where they
  exclude it. `GuestBytesArrive` excludes bytes still pending when a connection is removed.
  `HostBytesArrive` and `WriterResumes` exclude a connection of which the guest shut down a direction
  (`WriterOutlivesHalfClose` is about that case, see 5). `HostBytesArrive` speaks of connections that the guest has open, and so
  not of one whose RESPONSE was dropped because the guest had posted no buffer.
- *device_live* has one connection, with bytes one way at a time: the liveness of two connections
  is beyond what TLC does in reasonable time. The safety of two is in `device`, `NoStalledWork` included, which is
  what keeps one connection from being forgotten for another.
- *Derivation graph*: parsing. closure and find_root are operators of `EvalFlake` over a
  constant graph; the closure of a goal is a constant of `Plan`.
- *Plan*: narinfos whose references are cut short; paths of a closure that only
  an image of packed sources has (shell.rs).
- *Flake evaluation*: `last-eval.json`, which nothing reads; the extras of older
  versions; what nix computes (`RootOf`).
- *Image file system*: offsets within a file, attributes and directory listing, which
  are constant once the device is made.
- *Tarball unpacking*: decompression, the EROFS writer and reader (`NarOf` compares what they are
  given and return); a link's target is one value.
- *Guest builder and runner*: the mounts, the builder's environment and the
  interactive shell are system calls in sequence, each of which fails the build; the model has
  that failure (`BuildFails`, `EvalFails`). pack_dir and hash_flake_dir skip a directory entry that cannot be read
  as DirNar does; only `NarStream` has such entries.
- *OCI tools*: command-line conversions, run once, without a state of their own.
- *Derivation attributes and encodings*: pure functions of bytes, which the
  repository tests on vectors.

## 7. Plan

Written, in this order, the most important behaviour first: the pipe with its
abstract specification and proofs; the device; the planner and the run around it; the
image store; the session; the NAR stream; then the narinfo cache under the image
store, the evaluation and its inputs, the image file system and the archive. What is left of
the code is under 6; the models of the plan are done.

Proofs, in the order in which they were done: the pipe with its refinement; the planner and the run; the
image store; the evaluation; the image file system and the composition of the host; the session; the
device; the NAR stream; the archive and its hash. Section 4 has them all.

What is left: the parts of the code under 6 that have state of their own, of which none is on the path
of a build's correctness, and the modules have their failures already; and liveness, which stays with
TLC.
