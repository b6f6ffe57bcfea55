------------------------- MODULE RestoreTransaction -------------------------
(***************************************************************************)
(* Restoring a checkpoint into a running attempt: the transaction of       *)
(* checkpoints/restore.py, the random number manager of rng/manager.py it  *)
(* ends with and the state factory of smoke/state.py it swaps handles      *)
(* through.  Everything happens in one thread; what is hard is that any    *)
(* step may fail, the steps that undo it included, and that the caller may *)
(* go on with the transaction after a failed call.                         *)
(*                                                                         *)
(* Live state is stamped with the moment of the training it belongs to, so *)
(* that state put back by a rollback can be told from the right one.       *)
(***************************************************************************)
EXTENDS Integers, Sequences

CONSTANTS
    Adapters,  \* framework adapters of the manager, in order of provider
    MaxTrain,  \* bound: training steps of the caller
    MaxFails   \* bound: operations that fail

ASSUME RestoreConstants ==
    /\ Adapters \in Seq(STRING \ {"python", "numpy"})
    /\ \A i, j \in DOMAIN Adapters : Adapters[i] = Adapters[j] => i = j
    /\ MaxTrain \in Nat /\ MaxFails \in Nat

Provider == {"python", "numpy"} \cup {Adapters[i] : i \in DOMAIN Adapters}

(* What a manager mutates: the random state of each provider and the        *)
(* determinism configuration of each adapter.                               *)
Cells == Provider \X {"state"} \cup {<<Adapters[i], "conf">> : i \in DOMAIN Adapters}

Ambient  == 0
Seeded   == 1
Archived == -1

Stages == <<"parameters", "buffers", "optimizer", "scheduler", "scaler",
            "data_cursor", "counters">>

(* Handles of a runtime: of the run as trained up to n, or fresh objects    *)
(* with the first n components of the archive applied.                      *)
NoTarget == [of |-> "none", n |-> 0]

VARIABLES
    cell,        \* process-wide random state and configuration
    generator,   \* generator owned by the manager of the live runtime
    handles,     \* non-random state of the live runtime
    initialized, \* is the manager of the live runtime initialized?
    clock,       \* stamp of the live state
    target, prepared,     \* the fresh objects; has prepare() returned?
    committed, aborted,   \* terminal flags of the transaction
    previous,    \* bundle captured before the commit
    saved,       \* handles and generator the factory can put back
    pc,          \* where the running call is
    source,      \* what the manager is writing: "seed", "archive", "previous"
    before,      \* its snapshot of the cells
    at,          \* its position in the order of mutation or of rollback
    stuck,       \* cells, and "live", an undo has failed on
    fails

rng    == <<cell, generator>>
txn    == <<target, prepared, committed, aborted>>
mgr    == <<source, before, at>>
vars   == <<rng, handles, initialized, clock, txn, previous, saved, pc, mgr, stuck, fails>>

Live == <<"live", "handles">>

Bundles == [cell : [Cells -> Int], generator : Int]
Handles == [of : {"none", "run", "archive"}, n : Nat]

TypeOK ==
    /\ cell \in [Cells -> Int]
    /\ generator \in Int
    /\ handles \in Handles /\ target \in Handles
    /\ initialized \in BOOLEAN /\ prepared \in BOOLEAN
    /\ committed \in BOOLEAN /\ aborted \in BOOLEAN
    /\ clock \in Nat
    /\ previous \in Bundles
    /\ saved \in [handles : Handles, generator : Int]
    /\ pc \in {"idle", "apply", "consume", "set", "undo", "revert"}
    /\ source \in {"seed", "archive", "previous"}
    /\ before \in [Cells -> Int]
    /\ at \in Nat
    /\ stuck \subseteq Cells \cup {Live}
    /\ fails \in Nat

Init ==
    /\ cell = [c \in Cells |-> Ambient]
    /\ generator = Ambient
    /\ handles = [of |-> "run", n |-> 0]
    /\ initialized = FALSE
    /\ clock = 0
    /\ target = NoTarget
    /\ prepared = FALSE
    /\ committed = FALSE /\ aborted = FALSE
    /\ previous = [cell |-> cell, generator |-> Ambient]
    /\ saved = [handles |-> NoTarget, generator |-> Ambient]
    /\ pc = "idle"
    /\ source = "seed"
    /\ before = cell
    /\ at = 1
    /\ stuck = {}
    /\ fails = 0

Fails == fails < MaxFails /\ fails' = fails + 1

-----------------------------------------------------------------------------
(* The manager of the random state.                                         *)

(* Mutant of MutationOrder: the adapters are configured but not set.        *)
MutationOrder_NoAdapterState ==
    [i \in DOMAIN Adapters |-> <<Adapters[i], "conf">>]
    \o << <<"python", "state">>, <<"numpy", "state">> >>

(* The adapters are configured before anything is seeded or restored.       *)
MutationOrder ==
    [i \in DOMAIN Adapters |-> <<Adapters[i], "conf">>]
    \o << <<"python", "state">>, <<"numpy", "state">> >>
    \o [i \in DOMAIN Adapters |-> <<Adapters[i], "state">>]

(* Python and NumPy first, then the adapters backwards, each with its       *)
(* random state before its configuration.                                   *)
RollbackOrder ==
    LET n == Len(Adapters)
    IN  << <<"python", "state">>, <<"numpy", "state">> >>
        \o [k \in 1 .. 2 * n |->
              <<Adapters[n - (k - 1) \div 2], IF k % 2 = 1 THEN "state" ELSE "conf">>]

Configured(value) ==
    [c \in Cells |-> IF c[2] = "conf" THEN Seeded ELSE value]

(* What initialize() and restore_state(bundle) write.                       *)
Written ==
    CASE source = "seed"     -> [cell |-> Configured(Seeded), generator |-> Seeded]
      [] source = "archive"  -> [cell |-> Configured(Archived), generator |-> Archived]
      [] source = "previous" -> previous

(* Mutant of Captured: the generator of the manager is left out.            *)
Captured_NoGenerator ==
    [cell |-> [c \in Cells |-> IF c[2] = "conf" THEN Seeded ELSE cell[c]]]

(* The bundle of the running manager; configuration is not part of it but   *)
(* of the configured manager that restores it.                              *)
Captured ==
    [cell |-> [c \in Cells |-> IF c[2] = "conf" THEN Seeded ELSE cell[c]],
     generator |-> generator]

(* A manager starts to write: everything it will touch is snapshotted.      *)
Begin(what) ==
    /\ source' = what
    /\ before' = cell
    /\ at' = 1
    /\ pc' = "set"

(* A failing adapter may have changed its framework in part; the random     *)
(* state of Python and NumPy is replaced as a whole.                        *)
MayTear(c, value) ==
    \/ cell' = cell
    \/ /\ c[1] \notin {"python", "numpy"}
       /\ cell' = [cell EXCEPT ![c] = value]

(* initialize() of the manager of a new runtime. *)
Initialize ==
    /\ pc = "idle"
    /\ ~initialized
    /\ Begin("seed")
    /\ UNCHANGED <<rng, handles, initialized, clock, txn, previous, saved, stuck, fails>>

Mutate ==
    /\ pc = "set"
    /\ at <= Len(MutationOrder)
    /\ LET c == MutationOrder[at]
       IN  cell' = [cell EXCEPT ![c] = Written.cell[c]]
    /\ at' = at + 1
    /\ UNCHANGED <<generator, handles, initialized, clock, txn, previous, saved, pc,
                   source, before, stuck, fails>>

MutateFails ==
    /\ pc = "set"
    /\ at <= Len(MutationOrder)
    /\ Fails
    /\ LET c == MutationOrder[at] IN MayTear(c, Written.cell[c])
    /\ pc' = "undo"
    /\ at' = 1
    /\ UNCHANGED <<generator, handles, initialized, clock, txn, previous, saved,
                   source, before, stuck>>

(* An error of one undo is remembered and the next one is tried. *)
Undo ==
    /\ pc = "undo"
    /\ at <= Len(RollbackOrder)
    /\ LET c == RollbackOrder[at]
       IN  \/ /\ cell' = [cell EXCEPT ![c] = before[c]]
              /\ UNCHANGED <<stuck, fails>>
           \/ /\ Fails
              /\ MayTear(c, before[c])
              /\ stuck' = stuck \cup {c}
    /\ at' = at + 1
    /\ UNCHANGED <<generator, handles, initialized, clock, txn, previous, saved, pc,
                   source, before>>

-----------------------------------------------------------------------------
(* The caller and the transaction.                                          *)

IsOpen == pc = "idle" /\ initialized /\ ~committed /\ ~aborted

(* The run trains on: its own objects and random streams move.              *)
Train ==
    /\ pc = "idle" /\ initialized /\ ~committed
    /\ handles.of = "run"
    /\ clock <= MaxTrain
    /\ clock' = clock + 1
    /\ handles' = [handles EXCEPT !.n = clock']
    /\ generator' = clock'
    /\ cell' = [c \in Cells |->
                   IF c[2] = "conf" \/ c \in stuck THEN cell[c] ELSE clock']
    /\ UNCHANGED <<initialized, txn, previous, saved, pc, mgr, stuck, fails>>

(* prepare(): the compatibility gate has passed, fresh objects exist.       *)
Prepare ==
    /\ IsOpen
    /\ target' = [of |-> "archive", n |-> 0]
    /\ prepared' = FALSE
    /\ pc' = "apply"
    /\ UNCHANGED <<rng, handles, initialized, clock, committed, aborted, previous,
                   saved, mgr, stuck, fails>>

ApplyStage ==
    /\ pc = "apply"
    /\ target' = [target EXCEPT !.n = @ + 1]
    /\ IF target.n + 1 = Len(Stages)
       THEN prepared' = TRUE /\ pc' = "idle"
       ELSE UNCHANGED <<prepared, pc>>
    /\ UNCHANGED <<rng, handles, initialized, clock, committed, aborted, previous,
                   saved, mgr, stuck, fails>>

(* prepare() raises; the partly filled objects stay in the transaction.     *)
ApplyFails ==
    /\ pc = "apply"
    /\ Fails
    /\ pc' = "idle"
    /\ UNCHANGED <<rng, handles, initialized, clock, txn, previous, saved, mgr, stuck>>

(* The only condition of commit() on what prepare() has done.               *)
MayCommit == target # NoTarget

(* Mutant of CaptureNow: a bundle captured by an earlier commit is reused.  *)
CaptureNow_Once == IF previous.generator = Ambient THEN Captured ELSE previous

CaptureNow == Captured

(* commit_to_live: the live handles are saved and those of the target put   *)
(* in their place.                                                          *)
Swap ==
    /\ handles' = target
    /\ saved' = [handles |-> handles, generator |-> generator]

(* commit() up to the end of phase 1. *)
Commit ==
    /\ IsOpen
    /\ MayCommit
    /\ previous' = CaptureNow
    /\ Swap
    /\ source' = "archive"
    /\ pc' = "consume"
    /\ UNCHANGED <<rng, initialized, clock, txn, before, at, stuck, fails>>

(* The archived bundle is not valid, the bundle of the run cannot be        *)
(* captured, or commit_to_live raises before it changes anything.           *)
CommitFails ==
    /\ IsOpen
    /\ MayCommit
    /\ Fails
    /\ previous' \in {previous, CaptureNow}
    /\ UNCHANGED <<rng, handles, initialized, clock, txn, saved, pc, mgr, stuck>>

(* Phase 2 hands a bundle to a new manager, which checks it first.          *)
Consume ==
    /\ pc = "consume"
    /\ Begin(source)
    /\ UNCHANGED <<rng, handles, initialized, clock, txn, previous, saved, stuck, fails>>

(* The failure of the archived bundle is answered by consuming the previous *)
(* one; whether or not that works, the handles are put back next.           *)
AfterFailedConsume == IF source = "archive" THEN "consume" ELSE "revert"

(* The bundle is refused, or the transaction fails before it is used.       *)
ConsumeFails ==
    /\ pc = "consume"
    /\ Fails
    /\ pc' = AfterFailedConsume
    /\ source' = "previous"
    /\ UNCHANGED <<rng, handles, initialized, clock, txn, previous, saved, before, at,
                   stuck>>

(* The manager has written everything: its own generator is published last. *)
Finish ==
    /\ pc = "set"
    /\ at > Len(MutationOrder)
    /\ generator' = Written.generator
    /\ CASE source = "seed" ->
              /\ initialized' = TRUE
              /\ clock' = Seeded
              /\ handles' = [handles EXCEPT !.n = Seeded]
              /\ stuck' = {}
              /\ pc' = "idle"
              /\ UNCHANGED committed
         [] source = "archive" ->
              /\ committed' = TRUE
              /\ pc' = "idle"
              /\ UNCHANGED <<initialized, clock, handles, stuck>>
         [] source = "previous" ->
              /\ stuck' = {c \in stuck \cap Cells :
                              c[2] = "state" /\ previous.cell[c] # clock}
                          \cup (stuck \cap {Live})
              /\ pc' = "revert"
              /\ UNCHANGED <<initialized, clock, handles, committed>>
    /\ UNCHANGED <<cell, target, prepared, aborted, previous, saved, mgr, fails>>

(* The manager has undone what it could and raises.                         *)
Raise ==
    /\ pc = "undo"
    /\ at > Len(RollbackOrder)
    /\ IF source = "seed"
       THEN pc' = "idle" /\ UNCHANGED source
       ELSE pc' = AfterFailedConsume /\ source' = "previous"
    /\ UNCHANGED <<rng, handles, initialized, clock, txn, previous, saved, before, at,
                   stuck, fails>>

(* revert_commit_to_live, and commit() raises. *)
Revert ==
    /\ pc = "revert"
    /\ \/ /\ handles' = saved.handles
          /\ generator' = saved.generator
          /\ saved' = [handles |-> NoTarget, generator |-> Ambient]
          /\ UNCHANGED <<stuck, fails>>
       \/ /\ Fails
          /\ stuck' = stuck \cup {Live}
          /\ UNCHANGED <<handles, generator, saved>>
    /\ pc' = "idle"
    /\ UNCHANGED <<cell, initialized, clock, txn, previous, mgr>>

Abort ==
    /\ pc = "idle" /\ ~aborted
    /\ aborted' = TRUE
    /\ target' = NoTarget
    /\ UNCHANGED <<rng, handles, initialized, clock, prepared, committed, previous,
                   saved, pc, mgr, stuck, fails>>

-----------------------------------------------------------------------------
Next ==
    \/ Initialize \/ Mutate \/ MutateFails \/ Undo \/ Finish \/ Raise
    \/ Train
    \/ Prepare \/ ApplyStage \/ ApplyFails
    \/ Commit \/ CommitFails \/ Consume \/ ConsumeFails \/ Revert
    \/ Abort

Spec == Init /\ [][Next]_vars

-----------------------------------------------------------------------------
(* What the run itself has last put into a cell.                            *)
Own(c) ==
    IF ~initialized THEN Ambient
    ELSE IF c[2] = "conf" THEN Seeded ELSE clock

(* Until a commit succeeds the live state is the one of the run, to the     *)
(* last draw: a failed initialization, prepare or commit has undone all it  *)
(* did, except for what an undo has itself failed on; one failed undo keeps *)
(* no other from being tried.                                               *)
FailureLeavesLiveUntouched ==
    pc = "idle" /\ ~committed =>
        /\ \A c \in Cells \ stuck : cell[c] = Own(c)
        /\ Live \notin stuck =>
               /\ handles = [of |-> "run", n |-> clock]
               /\ generator = IF initialized THEN clock ELSE Ambient

(* A commit after a prepare() that has returned leaves the archive in every *)
(* part of the live state, the random state included.                       *)
CommitIsComplete ==
    committed /\ prepared =>
        /\ \A c \in Cells : cell[c] = Configured(Archived)[c]
        /\ generator = Archived
        /\ handles = [of |-> "archive", n |-> Len(Stages)]

-----------------------------------------------------------------------------
(* What the code says of commit() and does not enforce: the state it        *)
(* commits is the prepared one.                                             *)
CommitsPreparedState == committed => handles.n = Len(Stages)
=============================================================================
