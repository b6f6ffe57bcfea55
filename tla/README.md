# Verification of ExpertForge in TLA+

ExpertForge (`src/src/expertforge`) is the Python package with which a research
run configures itself, records what it did and keeps what it produced: an
append-only artifact store with a registry per attempt, a telemetry stream,
checkpoints and their restoration, experiment manifests that seal an attempt,
and a smoke gate that exercises all of it. This directory holds TLA+ models of
the parts in which order, interleaving, crashes and partial failure decide
whether the result is right, the TLC runs that check them and TLAPS proofs of
the properties that matter most. `PROJECT.json` lists components, runs,
mutants, hazards, theorems and, under `map`, the source lines every definition
stands for.

    tlc -workers 2 -config ArtifactStoreSeal.cfg MCArtifactStore
    tlapm ArtifactStoreProofs.tla

## Inventory

| part | state it keeps | operations | hard behaviours | what makes it correct | modelled in |
|---|---|---|---|---|---|
| artifact store `artifacts/store.py`, registry `artifacts/registry.py`, lock `artifacts/locks.py` | `registry.jsonl` (append only), bundle directories, markers `sealing` and `sealed`, `registry.lock` | publish, register_existing, register_external, update_retention, reconcile_orphans, seal_attempt, complete-seal; list, inspect, verify, open | several processes; checks before the lock; a crash between any two durable writes, inside one; repeated calls | the registry stays a valid history; what is indexed exists; what is acknowledged is indexed; a seal is final and reserved for its manifest; orphans and pending seals can be completed | `ArtifactStore`, `AttemptInventory` |
| telemetry `telemetry/writer.py`, `loader.py`, `console.py`, `models.py` | the stream file, sequence, clock and progress baselines, terminal flags | construct, emit_event, emit_metric, flush, close; load, scan | partial writes, failing fsync, a broken console reported into the stream, death, power loss, restart | the scanner never finds a valid prefix corrupted; the loss bound of the fsync cadence; a closed stream is complete and final | `TelemetryStream` |
| restore transaction `checkpoints/restore.py`, random number manager `rng/manager.py`, adapters `rng/adapters.py`, state factory `smoke/state.py` | prepared objects, captured previous random state, saved handles; process-wide generators and framework configuration | initialize, prepare, commit, abort; capture, restore | each operation and each undo may fail; a caller may go on after a failed call | a failed call leaves the live state as it was, a commit is complete | `RestoreTransaction` |
| manifests `experiments/*.py` | none of its own: the registry | generate, publish (with seal), finalize_attempt, load | coverage checked outside the lock, retries with the same or with new bytes, with a seal or without | a sealed attempt has one manifest, which covers the registry and whose status its evidence supports | `SmokeGate`; the store's side in `ArtifactStore` |
| checkpoint store `checkpoints/store.py`, `models.py`, `encoder.py`, `tar_*.py` | a temporary archive per save, spill files and open handles per load; archives as artifacts | save, load | record inspected and content reopened later, every system call may fail, archives by other encoders, what save accepts and load refuses | what is loaded is what the record names, complete and consistent; what save returns can be loaded; no spill file outlives a failed load | `CheckpointArchive`, `CheckpointStore` |
| smoke gate `smoke/*.py` | attempt scope, data cursor, parameters and optimizer slots, open streams and handles | runs u0, r0, r1, comparison, publication of the terminal manifests | any step may raise or be the last; a finalization is repeated later, with a seal or without | a resumed run equals the uninterrupted one; a sealed attempt has one manifest that tells the truth; the held-out window is never trained on | `SmokeGate` |
| identity `identity/*.py` | attempt directories and identity sidecars | emit an identity: fresh, rerun, resume, fork | concurrent calls, collisions, a crash between the writes | one run, one specification; an attempt has one owner | `RunPreparation` |
| provenance `provenance/*.py` | provenance sidecars | capture source, environment, dependencies, topology; prepare_run | the tree is edited while git is asked; a caller's own observations replace captured ones | no record without its identity; "complete" only if everything was observed | `SourceSnapshot`, `RunPreparation` |
| configuration `config/*.py` | none | load, override, validate, canonicalize, fingerprint | none (sequential); order of overrides, refusals | equal configurations and only these get equal bytes | `RunConfiguration` |
| D0 contamination scan and reference model `d0/*.py`, `d0/model/*` | in-memory index | scan, deduplicate, report | none (batch) | counts agree with the documents seen | not modelled |
| scripts, validators, tests | none | | | | not modelled |

How they interact. The telemetry writer, the checkpoint store and the manifest
generator hand finished content to the artifact store; nobody else writes below
an attempt directory. The generator ends an attempt by `publish(..., seal=True)`
and completes a pending seal by the same call. `CheckpointStore.load` reads an
artifact back and gives it to `RestoreTransaction`, which drives the state
factory and a new `RngManager`. The smoke runner calls all of them in order and
is the only orchestrator in the repository; each of its runs begins with
`prepare_run`, which resolves the configuration, captures the source tree and
writes the identity and the provenance sidecar. Processes share state only
through files: locks, not messages.

## Modules

### ArtifactStore

One attempt directory and the processes that call it. A process walks through
the stages of the method it executes (`pc`): the checks before the lock, the
wait, one step per durable write under it, the reread afterwards. One action
stands for the code between two such points:

| action | code |
|---|---|
| `Call`, `Issue` ... `DelegateToPublish`, `ProbeContent` | the arguments and the lock-free checks of each public method |
| `ListCategory`, `VisitBundle`, `FinishScan` | the directory walk of `reconcile_orphans` with its index snapshot |
| `Acquire`, `GiveUp`, `Release` | `AttemptLock`: flock, or the bounded msvcrt spin (`SpinLimited`) |
| `LockedPublish`, `LockedRegisterExternal`, `LockedAppend`, `LockedSealAttempt`, `LockedCompleteSeal` | the rechecks under the lock |
| `CreateIntent`, `WriteIntent`, `RenameBundle`, `EnsureIndexed`, `FinishAppend`, `AfterAppend`, `MarkSealed`, `RemoveIntent` | the durable writes in their order |
| `Abort` | process death or an unhandled exception between two writes or, with `TornWrites`, inside one |
| `LoseContent` | files removed by something other than the store |

An artifact id is a model value: descriptors, digests and JSON are abstracted to
the id they determine. A registry entry keeps its kind, id and retention state.
`AttemptInventory` is the abstract specification, an inventory that is open,
reserved for one terminal artifact, or sealed; `ArtifactStore!Inventory` is the
refinement mapping: `phase` and `terminal` are read off the two markers.

### TelemetryStream

One writer, the file it writes and the scanner that judges the file. `phase` is
the next step of the running call: write (possibly in two parts), the periodic
fsync, the fsync of an urgent event or of close, the console, the descriptor.
Each may fail; the process may die anywhere; `LosePower` leaves a prefix that
contains everything an fsync has covered. A record keeps kind, sequence number,
elapsed time and progress. `LineAccepted` and `ScanStatus` translate the
loader, so "corrupt" means what the program means by it. `LosePower` assumes
that the name of the file survives: the code never syncs the directory.

### RestoreTransaction

One thread in which everything may fail. The manager configures its adapters in
turn and then writes Python, NumPy and each adapter (`MutationOrder`); on a
failure it undoes in the order of `RollbackOrder`, each undo allowed to fail and
to tear. `commit` captures the running random state, swaps the handles, consumes
the archived bundle and, if that fails, consumes the previous one and puts the
handles back. State carries the moment of training it belongs to (`clock`), so
that a rollback to an outdated state is told from the right one.

### CheckpointArchive and CheckpointStore

`CheckpointArchive` is the format, without state: what `save` and `load` do to
a capture and to a file of members.

| operators | code |
|---|---|
| `CaptureAccepted`, `Encode` | the validators of `CapturedCheckpointState` and of the descriptors, `build_archive_parts`, `build_archive` |
| `Parses`, `Spilled` | `parse_ustar_archive` and its streaming form with their bounds and spills |
| `SizeAccepted`, `TensorsAccepted`, `ManifestReadable` | what a reader takes in bytes: `MAX_ARCHIVE_BYTES`, `MAX_TENSOR_BYTES`, `MAX_MANIFEST_BYTES`, none of which the encoder asks for |
| `ManifestFirst`, `ManifestAccepted`, `Authentic`, `Loads` | `_parse_and_validate_tar` and `_parse_and_validate_tar_streaming`, the validators of `CheckpointManifest`, the digests of the members, the binding of components to manifest and record |
| `Inspection` | `inspect_path` |
| `Compatibility`, `Mismatches` | the descriptor bound to a loaded archive, `check_compatibility` |
| `SlotKeysResolve`, `RestoredState` | how `restore.py` finds the tensors of optimizer slots, tied parameters and the scheduler |

`CheckpointStore` is the run of it: savers and loaders over one artifact store,
in which every system call may raise.

| action | code |
|---|---|
| `SaveBegin`, `SaveStream`, `SavePublish`, `SaveUnlink`, `SaveVerify` | `save`, which is given a capture, an identity and a provenance of its own: encode to a temporary file, `ArtifactStore.publish`, unlink, the checks of the returned record |
| `LoadInspect`, `LoadResolve`, `LoadOpen`, `LoadRead`, `LoadParse`, `LoadBind`, `LoadDrop` | `load`: the record and the caller's lineage, the parent read again, descriptor, bytes and digest, members with spills, binding of record, manifest and components, removal of the copy |
| `CleanUp` | `cleanup_temp_files` of a loaded archive, whose removals may fail |
| `PublishForeign`, `ChangeRetention`, `LoseOrDamage` | another encoder's archive under a valid record, the store's other callers, the disk |

### SmokeGate

`run_gate` and `finalize_attempt`. `Script(a)` is the order of the steps of each
run, `At(step)` the step it is at, so the sequence of the three runs is data and
each step one action: `Prepare`, `PublishRecord`, `OpenTelemetry`, `NewRuntime`,
`Validate`, `Train`, `Save`, `PublishSample`, `CloseTelemetry`,
`RegisterTelemetry`, `Extract`, `Load`, `Restore`, `ForceMismatch`, `Compare`,
`PublishReport`; `Interrupt` is an exception or a death at any of them.
`FinalizeManifest` is the runner's publication of an attempt's terminal manifest
(`AttemptScope.finalize_manifest`, which seals). `Refinalize` is a later call by an
operator for an attempt that was left open: `finalize_attempt`, which publishes
without a seal, or a `publish` that seals; with the bytes of an earlier manifest
or with new ones. All go through `FinVerify`, `FinPublish`,
`FinRename`, `FinAppend`, `FinComplete`, `FinMark`, `FinUnmark`, `FinCheck`
(`ManifestGenerator.publish` and the terminal publish of the store), each of
which may be the last (`FinInterrupted`). `Reconcile` indexes orphans and
`LoseContent` removes content in between.

Numbers are terms: a gradient is the record of the batch and the parameters it
was taken at, parameters are the sequence of updates. Two runs are equal in the
model exactly if they computed the same thing from the same inputs in the same
order, which is what bitwise equality of deterministic kernels amounts to; the
cursor arithmetic with its wrap is kept as it is.

### SourceSnapshot, RunConfiguration and RunPreparation

`SourceSnapshot` (no state) says what git answers about a tree (entries of HEAD,
the index, the working tree, untracked files, submodules, a remote) and what
`source_snapshot.py` makes of the answers: `IsDirty`, the evidence, its
validators, the fingerprint. `RunConfiguration` (no state) takes a file and
override tokens to the effective configuration or a refusal, on a schema of four
leaves that has one of each thing the code distinguishes.

`RunPreparation` is `prepare_run`, by processes that share the directory of
runs, on a tree that may be edited meanwhile. A step of the capture groups git
commands: an edit falls between the test for dirt, the commit with the remote, the
listing with the submodules it names, and the diffs with the files, not between
two commands of one of these.


| action | code |
|---|---|
| `CheckDirty`, `ReadCommitted`, `List`, `ReadEvidence` | `capture_source_snapshot`: status, commit and remote, the listings, diffs and files |
| `GitFails` | a command that fails or runs out of time; a remote that cannot be read is none (`ReadCommitted`), a submodule status that fails a limitation |
| `Identify`, `MakeDirectoryFails`, `CreateIdentity`, `WriteIdentity` | `emit_attempt_identity` in its modes and `write_identity_sidecar`, exclusive creation and write apart |
| `Observe`, `CreateProvenance`, `WriteProvenance` | software, accelerator and topology, probed or given by the caller, the status derived of them, `write_provenance_sidecar` |
| `Edit`, `Die`, `Again` | somebody edits the tree; the process dies; the next call |

## Runs

| run | expects | question |
|---|---|---|
| `store_seal` | pass | do publication, reconciliation and sealing in three processes with a crash anywhere keep registry, bundles and seal consistent, and implement `AttemptInventory`? |
| `store_retention` | pass | do retention writers racing on lock-free checks with each other, with a publisher that re-creates lost content and with registrations of the other kind record only legal steps? |
| `store_retry` | pass | do pending seals complete, orphans get indexed, waiting calls return? |
| `store_reconcile_race` | violation | reconciliation registers an external artifact twice |
| `store_torn_intent` | violation | a crash leaves an unreadable sealing marker |
| `store_missing_race` | violation | an artifact is recorded missing while its content is present |
| `telemetry_stream` | pass | is the stream always a valid prefix, loss bounded, closure complete and final? |
| `restore_transaction` | pass | does a failed call leave the live state alone, and is a commit complete? |
| `restore_partial` | violation | a failed `prepare` can be committed |
| `checkpoint` | pass | whatever is saved, forged, damaged or lost and whatever call fails, is what `load` returns the record's content, complete and consistent; can what `save` returned be loaded; do spill files find an owner; does "exact" mean the same state? |
| `smoke_gate` | pass | does the resumed run equal the uninterrupted one; is a sealed attempt covered by one manifest that its evidence supports, also when finalization is cut short and repeated; is the held-out window never trained on; does the gate pass only with sealed attempts? |
| `preparation` | pass | do two processes on a tree that changes record only evidence that was there, one specification per run, sidecars of their own, and "complete" only when everything that was captured was observed? |

The `findings` of PROJECT.json quote the line each violation contradicts.

**Bounds.** `store_*`: two plain artifacts and a manifest, three processes with
a menu of calls each; two calls each (one in the runs that repeat calls without
limit), one crash (two in `store_retry`: one for the orphan, one for the seal),
one loss. Every race named in the hazards is between two calls; the third
process is there for the seal in between, and a second call of the same process
is what follows a crash. `telemetry_stream`: interval 2 and four emitted records
reach the record before, at and after a periodic fsync; closing and diagnostic
records come on top; two crashes are a death and a power loss after a restart.
`restore_transaction`: two adapters make the order of configuration and undo
visible; four failures are one operation, its undo, the previous bundle and the
revert; training moves the live state between two commits. `checkpoint`: one saver and one
loader, two archives, one fault; 15 captures, each saved by either attempt with its own
provenance or by one with the other's,
and 14 foreign archives that each use or break one rule of the format, four
damages, 22 expected descriptors that differ from a captured one in one place or
two. The limits of the format (`MaxMembers` 17, `MaxTensors` 8, `SpillAt` 4,
`MaxInMemory` 36, `MaxTensorBytes` 16, `MaxArchive` 60, `MaxManifest` 1) are set so
that captures lie on either side of them. Members, manifest and tensors are each
exceeded by a capture that exceeds no other limit; the limit of the archive, twice
that of the tensors in the code (64 and 32 GiB), only by one that exceeds both. Loads do
not share anything but the records, so one at a time suffices; what changes
between its steps are the records and files, and these do. How many handles a
caller holds is not bounded. `smoke_gate`: seven
configurations of two or three updates of two tokens: a corpus that just holds
training and window, one a token short, ones that would wrap, an interval that
is not whole, one as long as the training, a forced mismatch, a loss that does
not improve; a window of two tokens, two faults and two repeated finalizations.
Three updates have an update before, at and after the checkpoint. `preparation`:
two interchangeable processes with two calls between them, one edit, one fault, two
attempt ids, 25 trees, most of which differ from a clean one in one thing the evidence
has to tell, and a prefix of fingerprints that tells nothing apart, which is the
worst case of the twelve hex digits of the code. `CHECK_DEADLOCK FALSE` stands
where all bounded calls may be used up or the gate is over; `store_retry` has
callers without a limit and is checked for deadlock.

**Fairness.** Only `store_retry` states any. A process that runs keeps running
(`WF` on its steps), which is what a scheduler gives. A process that waits for
the lock gets it if it is free again and again (`SF` on `Acquire`): `flock`
queues waiters; the bounded spin of Windows is left out of that run
(`SpinLimited = FALSE`). A caller in `Retriers` repeats a call that was
cut short and one in `Auditors` reconciles again and again (`WF` on `Call`),
which the docstrings of `publish` and `reconcile_orphans` ask of them; nobody is
obliged to seal an attempt, or else every orphan would be let off by a seal. Crashes
are bounded; nothing is fair about them. The other modules state no fairness:
their programs run to an end or stop at a fault, and nobody is obliged to go on.

## Proofs

`ArtifactStoreProofs` holds, for any processes, artifacts, menus and bounds that
satisfy `StoreConstants`:

- `Typing`: `Spec => []TypeOK`. `TypeOK` is not inductive: that a call about to
  append appends an entry needs `EntryReady` (which stages have an entry
  prepared), and who may release the lock needs `LockInv` (a process is in a
  critical stage exactly if it holds the lock). `TypeInv` is their conjunction.
- `SealIsFinal`: `Spec => SealFreezesInventory`. A call past its check of the
  markers could write after the seal; it cannot, because whoever seals holds
  the lock. `SealQuiet` says it: once sealed, no process is in a stage from
  which it writes without looking at `sealed` again (complete-seal, which only
  confirms a seal, excepted). Its preservation uses `LockInv`: when a process
  makes the marker, all others are outside the critical stages.
- `HistoryStaysValid`: `Spec => []HistoryIsValid`. The replay of the history with
  the new entry and the write of its line are two steps. `AppendReady` says that
  what a call about to append has prepared is accepted by the registry as it is;
  in between nobody else can change the registry, again by `LockInv`.
- `LegalChain`: `Spec => RetentionStepsAreLegal`. An append of a transition is
  legal after the *last* transition of its artifact or, before any, its first entry;
  the checks before the lock may have seen an older one. `AppendReady` says that
  the replay under the lock found the step legal; what is left is that the last
  entry of a kind in a history exists and is the one the replay ends with
  (`Greatest`), again from a well-founded minimum.

`ArtifactStoreBundleProofs` relates the registry to the bundles on disk and to
what callers were told. `BundleInv` has, per process, the calls that reach a
stage (`OnCourse`), what a call past its append may tell (`Acked`) and what is
on disk for the entry it is about to append (`Backed`); for the registry,
`RegistryBacked`, and `CrashFree`: without a crash an unterminated line or an
orphan belongs to a call in the middle of its writes. A bundle appears only
under the lock and never changes its kind (`Settles`), so what one process has
seen of a bundle survives the steps of the others (`OthersFit`).

- `Acknowledgement`: `Spec => []AcknowledgedIsIndexed`
- `IndexedIsPresent`: `Spec => []IndexedHasBundle`
- `OrphansAreUnfinished`: `Spec => []OrphansComeFromCrashes`

`ArtifactStoreInventoryProofs` ends with `Refinement`: if nothing is lost from
outside (`MaxLosses = 0`), `Spec => ImplementsInventory`. Beyond the invariants
above it needs `SealInv`: what a call knows of the pending intent at each stage
(`SealCourse`), that the artifact a pending intent names is indexed only as the
last entry (`PendingIsLast`), and that what is indexed has a bundle (`Present`),
so that an intent for an artifact without a bundle is one for an artifact that
is not indexed. Each durable write is then a step of `AttemptInventory`:
creating the intent reserves, writing it binds, an append records or concludes,
the marker seals, removing the intent is invisible. The assumption is needed:
a bundle that is lost after it was indexed and published again with `seal=True`
ends an attempt whose last entry is another artifact.

`TelemetryStreamProofs` proves every property of the run `telemetry_stream`, for
streams of any length and any fsync interval: `StreamTyping`, `ScannerAccepts`,
`LossBound`, `CleanClose`, `Closure`. All but the first assume that callers do
not use the reserved name of the closing record (`"closed" \notin CallerKinds`),
which `emit_event` does not refuse (see below). The argument has
three layers. `OrderInv`: the baselines of a living writer are those of its
file, a record being written is an acceptable next one, and a usable writer has
left neither an unterminated line nor a closure behind. `LossInv`: no multiple
of the interval lies between the last line an fsync covered and the last
acknowledged one (so fewer than the interval are lost, since among that many
consecutive numbers one is a multiple, `SomeDue`), and an urgent event is synced
before anything after it is attempted. `CloseInv`: a normal close syncs the
closing record before it becomes terminal.

`RunPreparationProofs` is about any trees, edits, settings and prefixes, with the
assumptions `PathsAreDistinct` and `PathsAreFinite`, and `TreesAndArguments`
(trees are records of the shape git's answers have, a command line is a sequence):
`Typing`; `OneSpecification`: attempts of one run have one specification
fingerprint, from the assumption built into `Identify` that a caller gives a
parent the fingerprint it was recorded with; `Recorded`: a call that returned
owns its attempt and both sidecars are as it returned them, since a path is
created exclusively and only its creator writes it; `HonestCompleteness`: status
"complete" means a clean tree and launcher variables that parsed, and of each section
the caller did not give that its capture met nothing wrong (consistent
distributions and a readable lock file, an accelerator and a topology without an
error). A section the caller gives replaces what the machine would have told, and
the record does not say so. `PInv` says what a call knows and has written at each
step, that identities on disk and drawn agree per run (`OneEach`) and that no two
calls own an attempt (`Apart`); `Truthful` says what a record with status
"complete" was derived from.

Two more of its theorems are about what git is asked for and when.
`AcceptedEvidence`: the record of a dirty tree passes its own validators however
edits fall between the commands, unless a path with a trailing slash was listed
as untracked. `Fingerprinted`: two calls whose captures are complete and which no
edit disturbed get the same specification fingerprint if they were given the same
file, overrides and inputs on the same source, and only if configuration, inputs
and source are the same.
Their invariant is `WInv`: per call and step, what it has read (`ReadSoFar`), of
which tree (`IsListingOf`, `IsSnapshotOf`) and whether the tree still is that one
(`still`). That an edit may fall anywhere is why a listing is one of *some* tree
and a snapshot one of the tree looked at first only while `still` holds. The rest
is about the operators: what git lists (`IsListed`, `WhatIsListed`), that it lists
nothing exactly of a clean tree (`CleanMeans`), that complete evidence missed
nothing and tells index, working tree and untracked content (`CompleteTree`,
`CompleteTells`), and so that equal sources have equal digests and conversely
(`SameSource`, `SameDigest`).

`RestoreTransactionProofs` is about any list of adapters and any failures:
`Typing`, `FailureIsUndone` and `CommitCompletes`. `RInv` says for the pass a
call is in which cells are written already and which are undone (`Recoverable`,
`Progress`), by position in `MutationOrder` and `RollbackOrder`; that the orders
name every cell once is proved of the sequences (`MutationOrderFacts`,
`RollbackOrderFacts`). A cell that is not as it was has either a failed undo to
its name or its undo still to come.

`SmokeGateProofs` is about any configuration, with any number of faults and of
repeated finalizations. Its first half is about the manifests: `Exclusion`
(`PendingSealExcludes`) and `Coverage` (`SealedIsCovered`). Neither is inductive.
`Inv` adds, per attempt, that a manifest on disk or in the registry was
generated (`Known`), that the manifest a pending seal names accounts for the
registry already, which holds no other (`Bound`), and what a seal leaves
(`Ended`). It does not say that an attempt has at most one manifest, nor that
one on disk and not in the registry is the one a seal is pending for:
`finalize_attempt` publishes without a seal, and neither holds of an attempt
that is not sealed (see below). Reconciliation of an attempt with a pending seal
indexes nothing but what the seal names. `Course` is what the finalization under
way has established at each stage, in particular that coverage and the absence
of another manifest, checked first and never again, still hold at the append.
They do because the model, like `ManifestGenerator.publish`, has no other writer
of the attempt during a finalization.

The second half is about the three runs. `Complete` says for every place in the
three scripts what has been reached there: the runtime (`Placed`, `Trains`), the
checkpoints and what has been registered (`Saves`, `KeepsLast`), the comparison
and its report (`Compares`, `Reports`), streams and lineage (`Streams`,
`Lineages`), the manifests (`Generated`) and how a run and its finalization end
(`Finishes`, `Finalizes`, `Returns`). With `Inv` it is inductive
(`Completeness`), and no step takes back what it speaks about
(`NothingIsTakenBack`, an action property), so what was established in a run holds
when a later run relies on it. "The state after n updates" is not defined by
recursion but as `Reached(r, n)`: there is a history from the fresh state to `r`
in `n` updates. That such states are unique (`Determined`) follows from the
least place at which two histories would differ, which the library's theorem on
minima of well-founded relations yields without an induction rule. From this:

- `Typing`, `Equivalence` (`ResumeEqualsUninterrupted`): the parent's state at K
  is reached in K updates, loading restores it, and the rest of the way is unique;
- `HeldOutHolds` (`HeldOutIsNeverTrained`), from `OnTrack`: if the window fits,
  the batches are consecutive and all before it, so the cursor never wraps;
- `Backing` (`CompletedIsBacked`), `Lineage` (`LineageIsSealed`), `Passing`
  (`PassIsSealed`): what the outcome claims is what the scripts established.

`CheckpointStoreProofs` is about any captures, identities and provenances, foreign
archives, damages, limits of the format, sizes of manifests and numbers of savers,
loaders, records and faults. Half of it is about the format, without state: that the archive of an
accepted capture has its members in the order and under the names the parser
expects (`Laid`, `EncodedLaid`), that what it holds is what the manifest says
(`EncodedManifest`, `EncodedBinds`), that its tensors take as many bytes in the
archive as in the capture (`LaidTensorBytes`), that it loads exactly if it is not
unloadable (`LoadsEncoded`), what it restores (`Restores`) and how the
keys of slots resolve (`KeysResolve`). The other half is `StoreInv`: every record
is the archive of a capture or of another encoder (`Registered`), what a save
knows at each step (`Saving`) and what one that returned has verified
(`Returned`), what a load knows (`Loading`), what a handle holds (`Held`), and that
each temporary file has an owner (`Files`, `Kept`).

- `StoreTyping`, `Spills` (`SpillsAreOwned`), `Loadability` (`ReturnedIsLoadable`);
- `Completes` (`LoadedIsComplete`) and `Exactness` (`ExactMeansSame`), which hold
  of any file and any accepted descriptors, whatever the store does;
- `Genuineness` (`LoadedIsGenuine`) and `Keys` (`SlotsResolveUnlessShared`), which
  assume `ForeignIsRefused`. It is a condition on the constant `Foreign` alone:
  each archive another encoder offers breaks a rule of the format, so that the
  loader refuses it. Without it, `Foreign` could hold an archive that is well
  formed in every respect and merely was not made by `save`; no loader could tell.
  The fourteen archives of the run satisfy it, which `checkpoint` shows, since it
  would load one that did not.

## Only model-checked

Three properties, those of the run `store_retry`: `EveryCallReturns`,
`PendingSealCompletes` and `OrphanIsReconciled`. They are liveness properties
under fairness, which rest on `ENABLED`: out of the prover's reach. Every
other property of a passing run is a theorem, some under an assumption named
above. The violations are TLC's
counterexamples. The bounds (`MaxFaults`, `MaxCalls` and so on) are
constants in the theorems: these hold for each value of them, not only for those
of the runs.

## Met while modelling

The `findings` of `PROJECT.json` are shown by a run. The following were read off
the code while it was translated; the models contain the behaviour, but no run
is spent on it.

- Telemetry: `emit_event` accepts the reserved name `logging.stream_closed`
  (`writer.py:193-214`) and the writer stays open, so records can follow a
  closure, which the loader rejects; `tests/test_telemetry_writer.py:5` says "no
  records after close".
- Checkpoints: `check_compatibility` (`store.py:1575`) promises a
  canonically sorted report and appends mismatches in the order of its checks; the
  result's validator refuses an unsorted list, so some incompatibilities raise
  instead of being reported. An archive whose first member is not the manifest
  raises after members were spilled and leaves the spills behind
  (`store.py:982`; `SpillsAreOwned` exempts it). Some captures `save` accepts are
  refused by `load` (`Unloadable`: a role whose listed names are not the declared
  ones, as with a parameter tied to a buffer or a tensor declared in the other
  role, unless both names are declared in both; random state without the version
  of its framework; a provenance of another run or attempt than the identity, which
  `save` takes as separate arguments and never compares; more members than the
  parser takes; a manifest above 16 MiB, tensors above 32 GiB together, an archive
  above 64 GiB, which the encoder does not bound), and a slot listed in two groups
  cannot be restored; `ReturnedIsLoadable` and `SlotsResolveUnlessShared` say that these are
  all. `save` may raise after it has published.
- Smoke gate: `finalize_attempt` (`experiments/store.py:483-494`) never seals.
  Cut off between its rename and its append, repeated with a new finalization time
  and followed by `reconcile_orphans` (`artifacts/store.py:2199`), it leaves an attempt
  with two manifests in its registry, after which every later finalization is
  refused (`experiments/store.py:428-431`) and the attempt cannot be sealed by one. The
  run reaches such attempts; `SealedIsCovered` and `PendingSealExcludes` say that
  none of them gets a seal or an intent. A restore that fails leaves its attempt with
  an open stream and no manifest. The wrap of the data cursor is not reachable in the
  gate, because `validation_tokens` refuses the corpora in which training would wrap.
- Preparation: a caller's software environment is recorded as if it had been
  captured, so that a record may be complete over an unreadable lock file
  (`orchestrate.py:114`), and a lock file a caller calls redacted, unlike a redacted
  processor or platform, leaves no trace in the completeness (`record.py:796-801`).
  `prepare_run` says that it raises `ProvenanceOrchestrationError`
  on any failure; errors of validators escape it untyped (a nested untracked
  repository, a remote with "@" in its path, a negative `RANK`, an empty
  distribution version, duplicate names of inputs), and so does the `OSError` of
  a directory that cannot be made. In a clean tree an uninitialized submodule
  has the fingerprint of an initialized one; only the evidence of a tree that is
  dirty for another reason tells them apart. The capture is no snapshot: edits between
  its commands give evidence of a tree that never was, which the validators may
  accept.

## Not modelled

- D0 contamination scan and sources, D0 reference model: batch analysis and the
  definition of a network; no state outlives a call and nothing interleaves.
- Derivation of random states (`rng/derivation.py`, `rng/state.py`): hashing
  and validation without state.
- Artifact paths and secure opening: descriptor flags and path construction; the
  exclusive creations they provide are part of the actions that use them.
- Scripts, document validators, tests.
- Within modelled parts: descriptors, digests, JSON and tar framing (data the
  properties do not tell apart); the limits that encoder and reader enforce alike
  (1 GiB per tensor, 256 MiB per component); edits between two git commands of one
  step; names with a backslash or a drive letter and targets of links that are not
  UTF-8, which the validators of the evidence refuse as well
  (`source_snapshot.py:376`); lock-free reads of the store as operations of
  their own; Windows sharing modes; asynchronous exceptions; durability of
  directory entries; tensor arithmetic; probing of hardware; the command line.

`PROJECT.json` gives the reason per component and, under `hazards`, per hazard no
property covers.

## Plan

Done: the store, its abstract specification and the refinement; telemetry;
restore; checkpoints; the gate with its manifests; preparation of a run; a theorem
for every property of a passing run that is not liveness. Left: registrations
that race with a finalization, which `ManifestGenerator.publish` asks its callers
to exclude; an abstract specification of the checkpoint store (a map from ids to
captures) and one of preparation, with refinements; the deduplication index of D0
against a reference definition.
