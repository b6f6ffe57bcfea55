---------------------------- MODULE ArtifactStore ----------------------------
(***************************************************************************)
(* One attempt directory of the artifact store (artifacts/store.py,        *)
(* artifacts/registry.py, artifacts/locks.py) and the processes that call  *)
(* it.  The durable state is the append-only registry with its possibly    *)
(* truncated tail, the canonical bundle directories and the two seal       *)
(* markers.  A call of a public method is a process walking through the    *)
(* stages of that method: the checks it makes before it takes the attempt  *)
(* lock, the wait for the lock, and one step per durable write under it.   *)
(* A crash, or an exception no handler repairs, may end a call between any *)
(* two steps; the lock is then released by the operating system and the    *)
(* files stay as they are.                                                 *)
(***************************************************************************)
EXTENDS Integers, Sequences

CONSTANTS
    Procs,        \* the processes (or threads) that hold an ArtifactStore
    Artifacts,    \* artifact ids: semantic digests of descriptors
    Categories,   \* names of the category directories
    CategoryOf,   \* the category an artifact id was derived with
    Menu,         \* Menu[p]: the calls process p may issue
    Retriers,     \* processes whose caller repeats a call that was cut short
    Auditors,     \* processes whose caller calls again and again
    MaxCalls,     \* bound: calls issued by each of the other processes
    MaxCrashes,   \* bound: calls that are cut short
    MaxLosses,    \* bound: contents removed behind the store's back
    TornWrites,   \* may a call be cut short inside a single file write?
    SpinLimited,  \* does waiting for the lock give up (msvcrt) or block (flock)?
    NoProc, NoArtifact, NoEntry, Corrupt

Retentions == {"retained", "pending_transfer", "externally_retained",
               "expired", "missing", "verification_failed"}

Ops == {"publish", "register_existing", "register_external",
        "update_retention", "reconcile_orphans", "seal_attempt",
        "complete_seal"}

(* One call: "seal" is read by publish, "retention" by update_retention. *)
Calls == [op : Ops, id : Artifacts, seal : BOOLEAN, retention : Retentions]

(* Stands for "no call yet". *)
NoCall == CHOOSE c \in Calls : TRUE

EntryKinds == {"initial_publication", "external_registration",
               "retention_transition"}

Entries == [kind : EntryKinds, id : Artifacts, retention : Retentions]

ASSUME StoreConstants ==
    /\ Artifacts # {}
    /\ CategoryOf \in [Artifacts -> Categories]
    /\ Menu \in [Procs -> SUBSET Calls]
    /\ Retriers \subseteq Procs /\ Auditors \subseteq Procs
    /\ MaxCalls \in Nat /\ MaxCrashes \in Nat /\ MaxLosses \in Nat
    /\ TornWrites \in BOOLEAN /\ SpinLimited \in BOOLEAN
    /\ NoProc \notin Procs
    /\ NoArtifact \notin Artifacts /\ Corrupt \notin Artifacts
    /\ NoArtifact # Corrupt
    /\ NoEntry \notin Entries

VARIABLES
    registry,  \* accepted entries of registry.jsonl, in sequence order
    torn,      \* does registry.jsonl end in an unterminated line?
    bundle,    \* kind of the canonical bundle directory of each artifact
    sealing,   \* artifact id in the "sealing" marker, Corrupt if unreadable
    sealed,    \* does the "sealed" marker exist?
    lock,      \* holder of registry.lock
    pc,        \* stage of each process
    call,      \* the call it executes, or executed last
    entry,     \* the registry entry that call is about to append
    seen,      \* reconcile_orphans: the ids it believes to be indexed
    unlisted,  \* reconcile_orphans: category directories not listed yet
    todo,      \* reconcile_orphans: listed bundles not visited yet
    outcome,   \* how the last call ended
    calls, crashes, losses   \* counters of the bounds

durable == <<registry, torn, bundle, sealing, sealed>>
scanner == <<seen, unlisted, todo>>
bounds  == <<calls, crashes, losses>>
vars    == <<durable, lock, pc, call, entry, scanner, outcome, bounds>>

Stages == {"idle", "precheck", "probe", "scan", "wait", "locked", "intent",
           "intent_write", "rename", "index", "appending", "appended",
           "reread", "mark_sealed", "unmark"}

(* Stages in which a call holds the attempt lock. *)
Critical == {"locked", "intent", "intent_write", "rename", "index",
             "appending", "appended", "mark_sealed", "unmark"}

Outcomes == {"none", "ok", "sealed", "conflict", "not_found", "corrupt",
             "no_lock", "aborted"}

BundleKinds == {"none", "local", "external", "emptied"}

-----------------------------------------------------------------------------
(* The registry: what a scan and the history validator make of it.          *)

Indexed(reg) == {reg[i].id : i \in DOMAIN reg}

(* Closed retention matrix of artifacts/models.py. *)
RetentionTransitions ==
    [retained            |-> {"retained", "pending_transfer", "expired",
                              "missing", "verification_failed"},
     pending_transfer    |-> Retentions,
     externally_retained |-> {"externally_retained", "expired", "missing",
                              "verification_failed"},
     expired             |-> {"expired", "missing"},
     missing             |-> {"missing", "verification_failed"},
     verification_failed |-> {"verification_failed", "retained", "missing"}]

IsLegalRetention(src, dst) == dst \in RetentionTransitions[src]

(* Storage/retention pairs a record may hold.  No operation of the store    *)
(* changes the storage class: it is fixed by the first entry of the id.     *)
LegalPair(kind, retention) ==
    kind = "external_registration" =>
        retention \in {"pending_transfer", "externally_retained", "missing",
                       "verification_failed"}

FirstIndex(reg, a) ==
    CHOOSE i \in DOMAIN reg :
        reg[i].id = a /\ \A j \in DOMAIN reg : reg[j].id = a => i <= j

Transitions(reg, a) ==
    {i \in DOMAIN reg : reg[i].id = a /\ reg[i].kind = "retention_transition"}

(* Retention state of an indexed artifact: a second registration of an      *)
(* external artifact keeps the record, so only transitions change it.       *)
RetentionOf(reg, a) ==
    LET T == Transitions(reg, a)
    IN  IF T = {} THEN reg[FirstIndex(reg, a)].retention
        ELSE reg[CHOOSE i \in T : \A j \in T : j <= i].retention

(* _reduce_history accepts the history extended with entry e.               *)
HistoryAccepts(reg, e) ==
    CASE e.kind = "initial_publication"   -> e.id \notin Indexed(reg)
      [] e.kind = "external_registration" -> TRUE
      [] e.kind = "retention_transition"  ->
            /\ e.id \in Indexed(reg)
            /\ IsLegalRetention(RetentionOf(reg, e.id), e.retention)
            /\ LegalPair(reg[FirstIndex(reg, e.id)].kind, e.retention)

(* The publication entry that describes a bundle of the given kind.         *)
PublicationEntry(a, kind) ==
    IF kind = "external"
    THEN [kind |-> "external_registration", id |-> a,
          retention |-> "externally_retained"]
    ELSE [kind |-> "initial_publication", id |-> a, retention |-> "retained"]

(* The initial publication of a is the highest-sequence entry. *)
IsTerminal(reg, a) ==
    /\ reg # <<>>
    /\ reg[Len(reg)].id = a
    /\ reg[Len(reg)].kind = "initial_publication"

SealedOrSealing == sealed \/ sealing # NoArtifact

-----------------------------------------------------------------------------
TypeOK ==
    /\ registry \in Seq(Entries)
    /\ torn \in BOOLEAN
    /\ bundle \in [Artifacts -> BundleKinds]
    /\ sealing \in Artifacts \cup {NoArtifact, Corrupt}
    /\ sealed \in BOOLEAN
    /\ lock \in Procs \cup {NoProc}
    /\ pc \in [Procs -> Stages]
    /\ call \in [Procs -> Calls]
    /\ entry \in [Procs -> Entries \cup {NoEntry}]
    /\ seen \in [Procs -> SUBSET Artifacts]
    /\ unlisted \in [Procs -> SUBSET Categories]
    /\ todo \in [Procs -> SUBSET Artifacts]
    /\ outcome \in [Procs -> Outcomes]
    /\ calls \in [Procs -> Nat]
    /\ crashes \in Nat
    /\ losses \in Nat

(* A fresh attempt directory: nothing published, no marker, no caller.      *)
Init ==
    /\ registry = <<>>
    /\ torn = FALSE
    /\ bundle = [a \in Artifacts |-> "none"]
    /\ sealing = NoArtifact
    /\ sealed = FALSE
    /\ lock = NoProc
    /\ pc = [p \in Procs |-> "idle"]
    /\ call = [p \in Procs |-> NoCall]
    /\ entry = [p \in Procs |-> NoEntry]
    /\ seen = [p \in Procs |-> {}]
    /\ unlisted = [p \in Procs |-> {}]
    /\ todo = [p \in Procs |-> {}]
    /\ outcome = [p \in Procs |-> "none"]
    /\ calls = [p \in Procs |-> 0]
    /\ crashes = 0
    /\ losses = 0
-----------------------------------------------------------------------------
(* Control of a call.                                                       *)

Goto(p, stage) == pc' = [pc EXCEPT ![p] = stage]

(* Mutant of Release: an early return leaves the lock held.                 *)
Release_Leaked(p) == lock' = IF lock = p THEN p ELSE lock

Release(p) == lock' = IF lock = p THEN NoProc ELSE lock

ForgetScan(p) ==
    /\ seen' = [seen EXCEPT ![p] = {}]
    /\ unlisted' = [unlisted EXCEPT ![p] = {}]
    /\ todo' = [todo EXCEPT ![p] = {}]

(* The call ends: its context managers release what it holds.               *)
Return(p, result) ==
    /\ Goto(p, "idle")
    /\ Release(p)
    /\ outcome' = [outcome EXCEPT ![p] = result]
    /\ entry' = [entry EXCEPT ![p] = NoEntry]
    /\ ForgetScan(p)
    /\ UNCHANGED <<call, bounds>>

(* reconcile_orphans goes on with its scan after one bundle.                *)
ResumeScan(p) ==
    /\ Goto(p, "scan")
    /\ Release(p)
    /\ entry' = [entry EXCEPT ![p] = NoEntry]
    /\ UNCHANGED <<call, unlisted, todo, outcome, bounds>>

(* An append of update_retention or reconcile_orphans fails: the exception  *)
(* ends the call, but the scan passes over an external bundle.              *)
FailAppend(p, result) ==
    IF call[p].op = "reconcile_orphans" /\ entry[p].kind = "external_registration"
    THEN ResumeScan(p) /\ UNCHANGED seen
    ELSE Return(p, result)

(* The call moves on to its next stage and keeps all it has read.           *)
Continue(p, stage) ==
    /\ Goto(p, stage)
    /\ UNCHANGED <<lock, call, entry, scanner, outcome, bounds>>

(* A call is issued: it goes to a stage, or fails before it takes a lock.   *)
Issue(p, c) ==
    /\ pc[p] = "idle"
    /\ c \in Menu[p]
    /\ IF p \in Retriers \cup Auditors
       THEN UNCHANGED calls
       ELSE calls[p] < MaxCalls /\ calls' = [calls EXCEPT ![p] = @ + 1]
    /\ call' = [call EXCEPT ![p] = c]
    /\ UNCHANGED <<durable, lock, crashes, losses>>

Proceed(p, stage) ==
    /\ Goto(p, stage)
    /\ outcome' = [outcome EXCEPT ![p] = "none"]

Refuse(p, result) ==
    /\ outcome' = [outcome EXCEPT ![p] = result]
    /\ UNCHANGED pc

-----------------------------------------------------------------------------
(* What each method does before it waits for the lock.                      *)

(* publish: fast rejection on the "sealed" marker; the temporary bundle is  *)
(* written, hashed and named before the lock is taken.                      *)
CallPublish(p, c) ==
    /\ c.op = "publish"
    /\ Issue(p, c)
    /\ IF sealed THEN Refuse(p, "sealed") ELSE Proceed(p, "wait")
    /\ UNCHANGED <<entry, scanner>>

(* register_existing and register_telemetry: reject on either marker, copy  *)
(* or verify the source, then run publish with seal=False.                  *)
CallRegisterExisting(p, c) ==
    /\ c.op = "register_existing"
    /\ Issue(p, c)
    /\ IF SealedOrSealing THEN Refuse(p, "sealed") ELSE Proceed(p, "precheck")
    /\ UNCHANGED <<entry, scanner>>

DelegateToPublish(p) ==
    /\ pc[p] = "precheck"
    /\ IF sealed THEN Return(p, "sealed") ELSE Continue(p, "wait")
    /\ UNCHANGED durable

CallRegisterExternal(p, c) ==
    /\ c.op = "register_external"
    /\ Issue(p, c)
    /\ IF SealedOrSealing THEN Refuse(p, "sealed") ELSE Proceed(p, "wait")
    /\ UNCHANGED <<entry, scanner>>

(* update_retention: the current record is read and the transition checked  *)
(* without the lock; "missing" also probes for the content.                 *)
CallUpdateRetention(p, c) ==
    LET e == [kind |-> "retention_transition", id |-> c.id,
              retention |-> c.retention]
    IN  /\ c.op = "update_retention"
        /\ Issue(p, c)
        /\ \/ torn /\ Refuse(p, "corrupt") /\ UNCHANGED entry
           \/ /\ ~torn /\ c.id \notin Indexed(registry)
              /\ Refuse(p, "not_found") /\ UNCHANGED entry
           \/ /\ ~torn /\ c.id \in Indexed(registry)
              /\ ~HistoryAccepts(registry, e)
              /\ Refuse(p, "conflict") /\ UNCHANGED entry
           \/ /\ ~torn /\ HistoryAccepts(registry, e)
              /\ Proceed(p, IF c.retention = "missing" THEN "probe" ELSE "wait")
              /\ entry' = [entry EXCEPT ![p] = e]
        /\ UNCHANGED scanner

ProbeContent(p) ==
    /\ pc[p] = "probe"
    /\ IF bundle[call[p].id] = "local"
       THEN Return(p, "conflict")
       ELSE Continue(p, "wait")
    /\ UNCHANGED durable

(* Mutant of IndexSnapshot: directories are taken for index entries.        *)
IndexSnapshot_FromBundles == {a \in Artifacts : bundle[a] # "none"}

IndexSnapshot == Indexed(registry)

(* reconcile_orphans: the set of indexed ids is read once, without the lock *)
CallReconcile(p, c) ==
    /\ c.op = "reconcile_orphans"
    /\ Issue(p, c)
    /\ IF torn
       THEN Refuse(p, "corrupt") /\ UNCHANGED scanner
       ELSE /\ Proceed(p, "scan")
            /\ seen' = [seen EXCEPT ![p] = IndexSnapshot]
            /\ unlisted' = [unlisted EXCEPT ![p] = Categories]
            /\ UNCHANGED todo
    /\ UNCHANGED entry

(* The bundles of one category directory are listed; those of indexed ids   *)
(* are passed over.                                                         *)
ListCategory(p) ==
    /\ pc[p] = "scan"
    /\ todo[p] = {}
    /\ \E c \in unlisted[p] :
        /\ unlisted' = [unlisted EXCEPT ![p] = @ \ {c}]
        /\ todo' = [todo EXCEPT ![p] =
                       {a \in Artifacts \ seen[p] :
                            CategoryOf[a] = c /\ bundle[a] # "none"}]
    /\ UNCHANGED <<durable, lock, pc, call, entry, seen, outcome, bounds>>

(* An orphan is validated against its bundle; an incomplete one is skipped. *)
VisitBundle(p) ==
    /\ pc[p] = "scan"
    /\ \E a \in todo[p] :
        /\ todo' = [todo EXCEPT ![p] = @ \ {a}]
        /\ IF bundle[a] \in {"local", "external"}
           THEN /\ entry' = [entry EXCEPT ![p] = PublicationEntry(a, bundle[a])]
                /\ Goto(p, "wait")
           ELSE UNCHANGED <<entry, pc>>
    /\ UNCHANGED <<durable, lock, call, seen, unlisted, outcome, bounds>>

FinishScan(p) ==
    /\ pc[p] = "scan"
    /\ todo[p] = {} /\ unlisted[p] = {}
    /\ Return(p, "ok")
    /\ UNCHANGED durable

CallSealAttempt(p, c) ==
    /\ c.op = "seal_attempt"
    /\ Issue(p, c)
    /\ Proceed(p, "wait")
    /\ UNCHANGED <<entry, scanner>>

(* _complete_seal_with_artifact_binding is called by the manifest generator *)
(* for a manifest it has just found in the registry and read back.          *)
CallCompleteSeal(p, c) ==
    /\ c.op = "complete_seal"
    /\ Issue(p, c)
    /\ ~torn /\ c.id \in Indexed(registry) /\ bundle[c.id] = "local"
    /\ Proceed(p, "wait")
    /\ UNCHANGED <<entry, scanner>>

Call(p) ==
    \E c \in Menu[p] :
        \/ CallPublish(p, c)
        \/ CallRegisterExisting(p, c)
        \/ CallRegisterExternal(p, c)
        \/ CallUpdateRetention(p, c)
        \/ CallReconcile(p, c)
        \/ CallSealAttempt(p, c)
        \/ CallCompleteSeal(p, c)

-----------------------------------------------------------------------------
(* The attempt lock.                                                        *)

Acquire(p) ==
    /\ pc[p] = "wait"
    /\ lock = NoProc
    /\ lock' = p
    /\ Goto(p, "locked")
    /\ UNCHANGED <<durable, call, entry, scanner, outcome, bounds>>

(* msvcrt: the bounded spin ends while another process holds the lock.      *)
GiveUp(p) ==
    /\ SpinLimited
    /\ pc[p] = "wait"
    /\ lock # NoProc
    /\ FailAppend(p, "no_lock")
    /\ UNCHANGED durable

-----------------------------------------------------------------------------
(* Critical sections.                                                       *)

WantsSeal(c) == c.op = "publish" /\ c.seal

(* Mutants of PublishRefused: the recheck under the lock looks at the       *)
(* "sealed" marker alone, or does not let the pending artifact retry.       *)
PublishRefused_IntentIgnored(c) == sealed
PublishRefused_NoRetry(c) == SealedOrSealing

(* _assert_not_sealed_publish: a pending intent admits its own artifact.    *)
PublishRefused(c) ==
    \/ sealed
    \/ sealing # NoArtifact /\ ~(WantsSeal(c) /\ sealing = c.id)

(* Mutant of FirstWrite: the registry line is written before the bundle.    *)
FirstWrite_IndexFirst(c) == IF WantsSeal(c) THEN "intent" ELSE "index"

(* The first durable write of a publication that finds no bundle.           *)
FirstWrite(c) == IF WantsSeal(c) THEN "intent" ELSE "rename"

LockedPublish(p) ==
    /\ pc[p] = "locked"
    /\ call[p].op \in {"publish", "register_existing"}
    /\ \/ /\ PublishRefused(call[p])
          /\ Return(p, IF sealing = Corrupt /\ ~sealed THEN "corrupt" ELSE "sealed")
       \/ /\ ~PublishRefused(call[p])
          /\ bundle[call[p].id] \in {"external", "emptied"}
          /\ Return(p, "conflict")
       \/ /\ ~PublishRefused(call[p])
          /\ bundle[call[p].id] = "local"
          /\ Continue(p, "index")
       \/ /\ ~PublishRefused(call[p])
          /\ bundle[call[p].id] = "none"
          /\ Continue(p, FirstWrite(call[p]))
    /\ UNCHANGED durable

LockedRegisterExternal(p) ==
    /\ pc[p] = "locked"
    /\ call[p].op = "register_external"
    /\ \/ SealedOrSealing /\ Return(p, "sealed")
       \/ /\ ~SealedOrSealing
          /\ bundle[call[p].id] \in {"local", "emptied"}
          /\ Return(p, "conflict")
       \/ /\ ~SealedOrSealing
          /\ bundle[call[p].id] = "external"
          /\ Continue(p, "index")
       \/ /\ ~SealedOrSealing
          /\ bundle[call[p].id] = "none"
          /\ Continue(p, "rename")
    /\ UNCHANGED durable

(* Mutant of Replays: the history checked before the lock is trusted.       *)
Replays_Trusted(p) == entry[p] # NoEntry

Replays(p) == HistoryAccepts(registry, entry[p])

(* Mutant of AppendRefused: no recheck of the markers under the lock.       *)
AppendRefused_Never == FALSE

(* The transition validator rechecks both markers under the lock.           *)
AppendRefused == SealedOrSealing

(* allocate_and_append, for update_retention and reconcile_orphans: scan,   *)
(* replay the history with the new entry, recheck the markers, write.       *)
LockedAppend(p) ==
    /\ pc[p] = "locked"
    /\ call[p].op \in {"update_retention", "reconcile_orphans"}
    /\ \/ torn /\ FailAppend(p, "corrupt") /\ UNCHANGED torn
       \/ ~torn /\ ~Replays(p) /\ FailAppend(p, "conflict") /\ UNCHANGED torn
       \/ /\ ~torn /\ Replays(p) /\ AppendRefused
          /\ FailAppend(p, "sealed")
          /\ UNCHANGED torn
       \/ /\ ~torn /\ Replays(p) /\ ~AppendRefused
          /\ torn' = TRUE
          /\ Continue(p, "appending")
    /\ UNCHANGED <<registry, bundle, sealing, sealed>>

LockedSealAttempt(p) ==
    /\ pc[p] = "locked"
    /\ call[p].op = "seal_attempt"
    /\ \/ sealing = Corrupt /\ Return(p, "corrupt")
       \/ sealing \in Artifacts /\ Return(p, "sealed")
       \/ sealing = NoArtifact /\ Continue(p, "mark_sealed")
    /\ UNCHANGED durable

LockedCompleteSeal(p) ==
    /\ pc[p] = "locked"
    /\ call[p].op = "complete_seal"
    /\ \/ sealing = Corrupt /\ Return(p, "corrupt")
       \/ sealing \in Artifacts \ {call[p].id} /\ Return(p, "sealed")
       \/ sealing = call[p].id /\ Continue(p, "mark_sealed")
       \/ sealing = NoArtifact /\ torn /\ Return(p, "corrupt")
       \/ /\ sealing = NoArtifact /\ ~torn
          /\ ~IsTerminal(registry, call[p].id)
          /\ Return(p, "sealed")
       \/ /\ sealing = NoArtifact /\ ~torn
          /\ IsTerminal(registry, call[p].id)
          /\ Continue(p, "intent")
    /\ UNCHANGED durable

AfterIntent(c) == IF c.op = "complete_seal" THEN "mark_sealed" ELSE "rename"

(* _write_seal_intent_locked: the marker exists, empty, before its artifact *)
(* id is in it.                                                             *)
CreateIntent(p) ==
    /\ pc[p] = "intent"
    /\ \/ sealing = call[p].id /\ Continue(p, AfterIntent(call[p])) /\ UNCHANGED sealing
       \/ sealing # call[p].id /\ Continue(p, "intent_write") /\ sealing' = Corrupt
    /\ UNCHANGED <<registry, torn, bundle, sealed>>

WriteIntent(p) ==
    /\ pc[p] = "intent_write"
    /\ sealing' = call[p].id
    /\ Continue(p, AfterIntent(call[p]))
    /\ UNCHANGED <<registry, torn, bundle, sealed>>

(* The temporary bundle becomes the canonical one in a single rename.       *)
RenameBundle(p) ==
    /\ pc[p] = "rename"
    /\ bundle' = [bundle EXCEPT ![call[p].id] =
                     IF call[p].op = "register_external" THEN "external" ELSE "local"]
    /\ Continue(p, "index")
    /\ UNCHANGED <<registry, torn, sealing, sealed>>

(* Mutant of IsIndexed: a bundle on disk is taken for an indexed one.       *)
IsIndexed_ByBundle(id) == bundle[id] # "none"

IsIndexed(id) == id \in Indexed(registry)

(* Mutant of NewEntry: the payload is not built.                            *)
NewEntry_Unset(c) == NoEntry

NewEntry(c) ==
    PublicationEntry(c.id, IF c.op = "register_external" THEN "external" ELSE "local")

(* _ensure_indexed, _ensure_external_indexed: append unless indexed.        *)
EnsureIndexed(p) ==
    /\ pc[p] = "index"
    /\ \/ torn /\ Return(p, "corrupt") /\ UNCHANGED torn
       \/ ~torn /\ IsIndexed(call[p].id) /\ Continue(p, "appended") /\ UNCHANGED torn
       \/ /\ ~torn /\ ~IsIndexed(call[p].id)
          /\ entry' = [entry EXCEPT ![p] = NewEntry(call[p])]
          /\ torn' = TRUE
          /\ Goto(p, "appending")
          /\ UNCHANGED <<lock, call, scanner, outcome, bounds>>
    /\ UNCHANGED <<registry, bundle, sealing, sealed>>

(* The line is complete: its newline is on disk.                            *)
FinishAppend(p) ==
    /\ pc[p] = "appending"
    /\ registry' = Append(registry, entry[p])
    /\ torn' = FALSE
    /\ Continue(p, "appended")
    /\ UNCHANGED <<bundle, sealing, sealed>>

(* What follows an append: completion of the seal, the next bundle of a     *)
(* scan, the final read of update_retention, or the end of the call.        *)
AfterAppend(p) ==
    /\ pc[p] = "appended"
    /\ \/ /\ WantsSeal(call[p]) /\ sealing = call[p].id
          /\ Continue(p, "mark_sealed")
       \/ /\ WantsSeal(call[p]) /\ sealing # call[p].id
          /\ Return(p, "sealed")
       \/ /\ call[p].op = "reconcile_orphans"
          /\ seen' = [seen EXCEPT ![p] = @ \cup {entry[p].id}]
          /\ ResumeScan(p)
       \/ /\ call[p].op = "update_retention"
          /\ Release(p)
          /\ Goto(p, "reread")
          /\ UNCHANGED <<call, entry, scanner, outcome, bounds>>
       \/ /\ call[p].op \in {"publish", "register_existing", "register_external"}
          /\ ~WantsSeal(call[p])
          /\ Return(p, "ok")
    /\ UNCHANGED durable

(* update_retention returns the record it reads back after the append.      *)
RereadRecord(p) ==
    /\ pc[p] = "reread"
    /\ Return(p, IF torn THEN "corrupt" ELSE "ok")
    /\ UNCHANGED durable

MarkSealed(p) ==
    /\ pc[p] = "mark_sealed"
    /\ sealed' = TRUE
    /\ IF call[p].op = "seal_attempt" THEN Return(p, "ok") ELSE Continue(p, "unmark")
    /\ UNCHANGED <<registry, torn, bundle, sealing>>

RemoveIntent(p) ==
    /\ pc[p] = "unmark"
    /\ sealing' = NoArtifact
    /\ Return(p, "ok")
    /\ UNCHANGED <<registry, torn, bundle, sealed>>

-----------------------------------------------------------------------------
(* What the environment does.                                               *)

(* The process dies, or an exception leaves the method: nothing more of the *)
(* call happens.  Within a write the file keeps what was written so far.    *)
Abort(p) ==
    /\ pc[p] # "idle"
    /\ crashes < MaxCrashes
    /\ pc[p] \in {"intent_write", "appending"} => TornWrites
    /\ crashes' = crashes + 1
    /\ Goto(p, "idle")
    /\ Release(p)
    /\ outcome' = [outcome EXCEPT ![p] = "aborted"]
    /\ entry' = [entry EXCEPT ![p] = NoEntry]
    /\ ForgetScan(p)
    /\ UNCHANGED <<durable, call, calls, losses>>

(* Something outside the store removes content or a whole bundle.           *)
LoseContent ==
    /\ losses < MaxLosses
    /\ losses' = losses + 1
    /\ \E a \in Artifacts :
        /\ bundle[a] = "local"
        /\ \E kind \in {"emptied", "none"} : bundle' = [bundle EXCEPT ![a] = kind]
    /\ UNCHANGED <<registry, torn, sealing, sealed, lock, pc, call, entry,
                   scanner, outcome, calls, crashes>>

-----------------------------------------------------------------------------
(* The steps a call takes once it is issued.                                *)
Step(p) ==
    \/ DelegateToPublish(p) \/ ProbeContent(p)
    \/ ListCategory(p) \/ VisitBundle(p) \/ FinishScan(p)
    \/ Acquire(p) \/ GiveUp(p)
    \/ LockedPublish(p) \/ LockedRegisterExternal(p) \/ LockedAppend(p)
    \/ LockedSealAttempt(p) \/ LockedCompleteSeal(p)
    \/ CreateIntent(p) \/ WriteIntent(p) \/ RenameBundle(p)
    \/ EnsureIndexed(p) \/ FinishAppend(p) \/ AfterAppend(p)
    \/ RereadRecord(p) \/ MarkSealed(p) \/ RemoveIntent(p)

Next ==
    \/ \E p \in Procs : Call(p) \/ Step(p) \/ Abort(p)
    \/ LoseContent

Spec == Init /\ [][Next]_vars

(* A running process keeps running and a process waiting for a lock that is *)
(* released again and again gets it in the end; a caller in Retriers does   *)
(* not leave a call of its own cut short, one in Auditors always calls      *)
(* again.  Nobody else is obliged to call, and nobody to crash or to lose   *)
(* anything.                                                                *)
Fairness ==
    /\ \A p \in Procs : WF_vars(Step(p)) /\ SF_vars(Acquire(p))
    /\ \A p \in Retriers : WF_vars(outcome[p] = "aborted" /\ Call(p))
    /\ \A p \in Auditors : WF_vars(Call(p))

FairSpec == Spec /\ Fairness

-----------------------------------------------------------------------------
(* Safety.                                                                  *)

(* Every line of the registry is accepted by a scan of the lines before it: *)
(* no interleaving of lock-free checks and locked appends makes the         *)
(* registry "corrupt".                                                      *)
HistoryIsValid ==
    \A i \in DOMAIN registry :
        HistoryAccepts(SubSeq(registry, 1, i - 1), registry[i])

(* An indexed artifact has a canonical bundle of the kind its first entry   *)
(* records, unless content was removed behind the store's back: the bundle  *)
(* is renamed into place before its line is appended.                       *)
IndexedHasBundle ==
    losses = 0 =>
        \A i \in DOMAIN registry :
            registry[i].kind # "retention_transition" =>
                /\ bundle[registry[i].id] \in {"local", "external"}
                /\ registry[i] = PublicationEntry(registry[i].id, bundle[registry[i].id])

(* Once publish or a register method has returned normally its artifact is  *)
(* in the registry for good, and a sealing publish has sealed the attempt.  *)
AcknowledgedIsIndexed ==
    \A p \in Procs :
        pc[p] = "idle" /\ outcome[p] = "ok" =>
            /\ call[p].op \in {"publish", "register_existing", "register_external"} =>
                   call[p].id \in Indexed(registry)
            /\ WantsSeal(call[p]) \/ call[p].op \in {"seal_attempt", "complete_seal"}
                   => sealed

(* A bundle that is not in the registry belongs to a call in flight or to   *)
(* one that was cut short: without a crash a seal leaves no orphan behind.  *)
OrphansComeFromCrashes ==
    crashes = 0 =>
        \A a \in Artifacts :
            bundle[a] # "none" /\ a \notin Indexed(registry) =>
                \E p \in Procs : call[p].id = a /\ pc[p] \in {"index", "appending"}

(* After the "sealed" marker exists nothing changes the inventory, whatever *)
(* check a waiting call passed before it got the lock.                      *)
SealFreezesInventory ==
    [][sealed => UNCHANGED <<registry, torn>> /\ (losses' = losses => UNCHANGED bundle)]_vars

(* The store implements the inventory it promises: entries are only added,  *)
(* a pending intent reserves the inventory for the artifact it names, and a *)
(* seal that completes an intent finds that artifact as the last entry.     *)
Inventory == INSTANCE AttemptInventory WITH
    PublicationOf <- [a \in Artifacts |-> PublicationEntry(a, "local")],
    Unbound       <- Corrupt,
    inventory     <- registry,
    phase         <- IF sealed THEN "sealed"
                     ELSE IF sealing = NoArtifact THEN "open" ELSE "closing",
    terminal      <- IF sealed THEN NoArtifact ELSE sealing

ImplementsInventory == Inventory!Spec

(* A legal chain of lifecycle states: the state recorded by a transition is *)
(* a legal successor of the state the registry gave the artifact when the   *)
(* line was written, also when the writer checked it against an older one.  *)
RetentionStepsAreLegal ==
    [][\A a \in Indexed(registry) :
          IsLegalRetention(RetentionOf(registry, a), RetentionOf(registry', a))]_vars

-----------------------------------------------------------------------------
(* What the code is documented to guarantee and does not.                   *)

(* reconcile_orphans appends a missing publication entry, never one of an   *)
(* artifact the registry already holds.                                     *)
ReconcileAppendsOnlyMissing ==
    [][\A p \in Procs :
          pc[p] = "appending" /\ pc'[p] = "appended"
          /\ call[p].op = "reconcile_orphans" =>
              entry[p].id \notin Indexed(registry)]_vars

(* The durable seal intent is readable whenever no call is writing it: a    *)
(* crash leaves it absent or intact.                                        *)
IntentSurvivesCrash ==
    sealing = Corrupt => \E p \in Procs : pc[p] = "intent_write"

(* An artifact is marked "missing" only while its content is absent.        *)
MissingMeansAbsent ==
    [][\A p \in Procs :
          pc[p] = "appending" /\ pc'[p] = "appended"
          /\ entry[p].kind = "retention_transition" /\ entry[p].retention = "missing" =>
              bundle[entry[p].id] # "local"]_vars

-----------------------------------------------------------------------------
(* Liveness.                                                                *)

(* Every call returns: nobody waits for the lock for ever.                  *)
EveryCallReturns == \A p \in Procs : pc[p] # "idle" ~> pc[p] = "idle"

(* A pending intent is completed by repeating the call it names.            *)
PendingSealCompletes == \A a \in Artifacts : sealing = a ~> sealed

(* An orphan is indexed by a repeated reconciliation unless the attempt is  *)
(* sealed or being sealed first.                                            *)
OrphanIsReconciled ==
    \A a \in Artifacts :
        bundle[a] # "none" ~> (a \in Indexed(registry) \/ SealedOrSealing)
=============================================================================
