---------------------- MODULE ArtifactStoreInventoryProofs ----------------------
(***************************************************************************)
(* ArtifactStore implements AttemptInventory, for every value of its       *)
(* constants, as long as nothing is removed behind the store's back: a     *)
(* terminal artifact whose bundle is lost and published again would end an *)
(* attempt in which others were recorded after it.                         *)
(***************************************************************************)
EXTENDS ArtifactStoreBundleProofs

-----------------------------------------------------------------------------
(* The invariant.                                                           *)

(* The registry ends with the publication of this artifact.                 *)
ConcludedBy(id) ==
    /\ registry # <<>>
    /\ registry[Len(registry)] = PublicationEntry(id, "local")

(* If an intent is pending it is that of the call.                          *)
Reserved(p) ==
    sealing = NoArtifact \/ (WantsSeal(call[p]) /\ sealing = call[p].id)

(* What a call knows of the pending intent at each of its stages.           *)
SealCourse(p) ==
    /\ pc[p] \in {"precheck", "probe", "wait", "locked", "intent", "intent_write"}
       /\ call[p].op = "complete_seal" => call[p].id \in Indexed(registry)
    /\ pc[p] = "intent" => sealing \in {NoArtifact, call[p].id}
    /\ pc[p] = "intent_write" => sealing = Corrupt
    /\ pc[p] \in {"intent", "intent_write"} =>
          /\ WantsSeal(call[p]) \/ call[p].op = "complete_seal"
          /\ call[p].id \in Indexed(registry) => ConcludedBy(call[p].id)
    /\ pc[p] \in {"rename", "index"} => Reserved(p)
    /\ pc[p] = "appending" =>
          /\ Reserved(p)
          /\ sealing # NoArtifact =>
                /\ entry[p] = PublicationEntry(call[p].id, "local")
                /\ call[p].id \notin Indexed(registry)
    /\ pc[p] = "mark_sealed" =>
          IF call[p].op = "seal_attempt" THEN sealing = NoArtifact
          ELSE sealing = call[p].id /\ (sealed \/ ConcludedBy(call[p].id))

(* The artifact a pending intent names is indexed only as the last entry.   *)
PendingIsLast == ~sealed /\ sealing \in Indexed(registry) => ConcludedBy(sealing)

Present == \A id \in Indexed(registry) : bundle[id] # "none"

SealInv ==
    /\ losses = 0
    /\ \A p \in Procs : SealCourse(p)
    /\ PendingIsLast /\ Present

(* All that is known of a state of the store.                               *)
StoreInv == TypeInv /\ SealQuiet /\ HistoryInv /\ BundleInv

LEMMA SealInit == Init => SealInv
BY DEF Init, SealInv, SealCourse, PendingIsLast, Present, Indexed

-----------------------------------------------------------------------------
(* What a step leaves of the others.                                        *)

LEMMA OthersCourse ==
    ASSUME TypeInv, SealInv, NEW p \in Procs, Alone(p),
           \/ UNCHANGED <<registry, sealing, sealed>>
           \/ pc[p] \in Critical /\ Indexed(registry) \subseteq Indexed(registry')
    PROVE  \A q \in Procs \ {p} : SealCourse(q)'
<1> SUFFICES ASSUME NEW q \in Procs \ {p} PROVE SealCourse(q)'
    OBVIOUS
<1>1. pc'[q] = pc[q] /\ call'[q] = call[q] /\ entry'[q] = entry[q] /\ SealCourse(q)
    BY DEF Alone, SealInv
<1>2. CASE UNCHANGED <<registry, sealing, sealed>>
    BY <1>1, <1>2 DEF SealCourse, Reserved, ConcludedBy
<1>3. CASE pc[p] \in Critical /\ Indexed(registry) \subseteq Indexed(registry')
    <2>1. pc[q] \notin Critical
        BY <1>3 DEF TypeInv, ControlInv, LockInv
    <2>. QED
        BY <1>1, <1>3, <2>1 DEF SealCourse, Critical
<1>. QED
    BY <1>2, <1>3

LEMMA CourseKeeps ==
    ASSUME TypeInv, SealInv, NEW p \in Procs, Alone(p), SealCourse(p)',
           UNCHANGED <<registry, bundle, sealing, sealed, losses>>
    PROVE  SealInv'
<1>1. \A q \in Procs \ {p} : SealCourse(q)'
    BY OthersCourse
<1>. QED
    BY <1>1 DEF SealInv, PendingIsLast, Present, ConcludedBy

(* A call that ends, or goes on with a scan or a read.                      *)
LEMMA EasyCourse ==
    ASSUME TypeInv, SealInv, NEW p \in Procs, Alone(p),
           pc'[p] \in {"idle", "scan", "reread", "appended", "unmark"},
           UNCHANGED <<registry, bundle, sealing, sealed, losses>>
    PROVE  SealInv'
BY CourseKeeps DEF SealCourse

LEMMA FailFrame ==
    ASSUME TypeInv, NEW p \in Procs, NEW result, Return(p, result) \/ FailAppend(p, result)
    PROVE  Alone(p) /\ pc'[p] \in {"idle", "scan"} /\ UNCHANGED losses
<1>1. /\ pc \in [Procs -> Stages] /\ entry \in [Procs -> Entries \cup {NoEntry}]
      /\ outcome \in [Procs -> Outcomes] /\ call \in [Procs -> Calls]
    BY DEF TypeInv, ControlInv, CallsTyped
<1>2. CASE Return(p, result)
    BY <1>1, <1>2 DEF Return, Goto, bounds, Alone
<1>3. CASE ResumeScan(p)
    BY <1>1, <1>3 DEF ResumeScan, Goto, bounds, Alone
<1>. QED
    BY <1>2, <1>3 DEF FailAppend

LEMMA EndKeepsSeal ==
    ASSUME TypeInv, SealInv, NEW p \in Procs, NEW result,
           Return(p, result) \/ FailAppend(p, result),
           UNCHANGED <<registry, bundle, sealing, sealed>>
    PROVE  SealInv'
BY FailFrame, EasyCourse

LEMMA ContinueKeepsSeal ==
    ASSUME TypeInv, SealInv, NEW p \in Procs, NEW stage, Continue(p, stage), SealCourse(p)',
           UNCHANGED <<registry, bundle, sealing, sealed>>
    PROVE  SealInv'
BY ContinueFrame, CourseKeeps

-----------------------------------------------------------------------------
(* The actions, from the first to the last stage of a call.                 *)

LEMMA CallSeal ==
    ASSUME TypeInv, SealInv, NEW p \in Procs, Call(p)
    PROVE  SealInv'
<1>0. /\ pc \in [Procs -> Stages] /\ entry \in [Procs -> Entries \cup {NoEntry}]
      /\ outcome \in [Procs -> Outcomes] /\ call \in [Procs -> Calls]
    BY DEF TypeInv, ControlInv, CallsTyped
<1>1. PICK c \in Menu[p] :
        \/ CallPublish(p, c) \/ CallRegisterExisting(p, c) \/ CallRegisterExternal(p, c)
        \/ CallUpdateRetention(p, c) \/ CallReconcile(p, c) \/ CallSealAttempt(p, c)
        \/ CallCompleteSeal(p, c)
    BY DEF Call
<1>2. Issue(p, c)
    BY <1>1 DEF CallPublish, CallRegisterExisting, CallRegisterExternal, CallUpdateRetention,
                CallReconcile, CallSealAttempt, CallCompleteSeal
<1>3. /\ call' = [call EXCEPT ![p] = c] /\ pc[p] = "idle"
      /\ UNCHANGED <<registry, bundle, sealing, sealed, losses>>
    BY <1>2 DEF Issue, durable
<1>4. \A q \in Procs \ {p} : entry'[q] = entry[q]
    BY <1>0, <1>1 DEF CallPublish, CallRegisterExisting, CallRegisterExternal,
                      CallUpdateRetention, CallReconcile, CallSealAttempt, CallCompleteSeal
<1>5. \/ \E result \in Outcomes : Refuse(p, result)
      \/ \E stage \in {"precheck", "probe", "scan", "wait"} : Proceed(p, stage)
    BY <1>1 DEF CallPublish, CallRegisterExisting, CallRegisterExternal,
                CallUpdateRetention, CallReconcile, CallSealAttempt, CallCompleteSeal, Outcomes
<1>6. Alone(p) /\ pc'[p] \in {"idle", "precheck", "probe", "scan", "wait"} /\ call'[p] = c
    BY <1>0, <1>3, <1>4, <1>5 DEF Alone, Refuse, Proceed, Goto
<1>7. c.op = "complete_seal" => c.id \in Indexed(registry)
    BY <1>1 DEF CallPublish, CallRegisterExisting, CallRegisterExternal, CallUpdateRetention,
                CallReconcile, CallSealAttempt, CallCompleteSeal
<1>8. SealCourse(p)'
    BY <1>3, <1>6, <1>7 DEF SealCourse
<1>. QED
    BY <1>3, <1>6, <1>8, CourseKeeps

LEMMA EarlySeal ==
    ASSUME StoreInv, SealInv, NEW p \in Procs,
           \/ DelegateToPublish(p) \/ ProbeContent(p) \/ ListCategory(p) \/ VisitBundle(p)
           \/ FinishScan(p) \/ Acquire(p) \/ GiveUp(p) \/ RereadRecord(p)
    PROVE  SealInv'
<1>0. /\ pc \in [Procs -> Stages] /\ entry \in [Procs -> Entries \cup {NoEntry}] /\ TypeInv
      /\ SealCourse(p) /\ OnCourse(p)
    BY DEF StoreInv, TypeInv, ControlInv, CallsTyped, SealInv, BundleInv, Fits
<1>1. UNCHANGED <<registry, bundle, sealing, sealed>>
    BY DEF DelegateToPublish, ProbeContent, ListCategory, VisitBundle, FinishScan, Acquire,
           GiveUp, RereadRecord, durable
<1>2. CASE \E result : Return(p, result) \/ FailAppend(p, result)
    BY <1>0, <1>1, <1>2, EndKeepsSeal
<1>3. CASE Continue(p, "wait") /\ pc[p] \in {"precheck", "probe"}
    <2>1. pc'[p] = "wait" /\ call'[p] = call[p]
        BY <1>0, <1>3, ContinueFrame
    <2>. QED
        BY <1>0, <1>1, <1>3, <2>1, ContinueKeepsSeal DEF SealCourse
<1>4. CASE ListCategory(p) \/ VisitBundle(p) \/ Acquire(p)
    <2>1. Alone(p) /\ call'[p] = call[p] /\ UNCHANGED losses
        BY <1>0, <1>4 DEF Alone, ListCategory, VisitBundle, Acquire, Goto, bounds
    <2>2. \/ pc[p] = "scan" /\ pc'[p] \in {"scan", "wait"}
          \/ pc[p] = "wait" /\ pc'[p] = "locked"
        BY <1>0, <1>4 DEF ListCategory, VisitBundle, Acquire, Goto
    <2>3. SealCourse(p)'
        BY <1>0, <1>1, <2>1, <2>2 DEF SealCourse, OnCourse
    <2>. QED
        BY <1>0, <1>1, <2>1, <2>3, CourseKeeps
<1>. QED
    BY <1>2, <1>3, <1>4 DEF DelegateToPublish, ProbeContent, FinishScan, GiveUp, RereadRecord

(* The intent is NoArtifact, Corrupt or the id of an artifact.              *)
LEMMA LockedSeal ==
    ASSUME StoreInv, SealInv, NEW p \in Procs,
           \/ LockedPublish(p) \/ LockedRegisterExternal(p) \/ LockedAppend(p)
           \/ LockedSealAttempt(p) \/ LockedCompleteSeal(p)
    PROVE  SealInv'
<1>0. /\ TypeInv /\ pc[p] = "locked" /\ SealCourse(p) /\ Present /\ PendingIsLast
      /\ call[p].id \in Artifacts /\ NoArtifact # Corrupt
      /\ UNCHANGED <<registry, bundle, sealing, sealed>>
    BY CallFields, StoreConstants
    DEF StoreInv, TypeInv, ControlInv, CallsTyped, SealInv, LockedPublish,
        LockedRegisterExternal, LockedAppend, LockedSealAttempt, LockedCompleteSeal, durable
<1>1. CASE \E result : Return(p, result) \/ FailAppend(p, result)
    BY <1>0, <1>1, EndKeepsSeal
<1>2. ASSUME NEW stage, Continue(p, stage),
             \/ stage \in {"rename", "index"} /\ Reserved(p)
             \/ stage = "appending" /\ sealing = NoArtifact
             \/ stage = "intent" /\ sealing \in {NoArtifact, call[p].id} /\ WantsSeal(call[p])
                /\ call[p].id \notin Indexed(registry)
             \/ stage = "intent" /\ sealing = NoArtifact /\ call[p].op = "complete_seal"
                /\ ConcludedBy(call[p].id)
             \/ stage = "mark_sealed" /\ call[p].op = "seal_attempt" /\ sealing = NoArtifact
             \/ stage = "mark_sealed" /\ call[p].op = "complete_seal" /\ sealing = call[p].id
                /\ (sealed \/ ConcludedBy(call[p].id))
      PROVE  SealInv'
    <2>1. pc'[p] = stage /\ call'[p] = call[p] /\ entry'[p] = entry[p]
        BY <1>0, <1>2, ContinueFrame
    <2>2. Reserved(p)' = Reserved(p) /\ \A id : ConcludedBy(id)' = ConcludedBy(id)
        BY <1>0, <2>1 DEF Reserved, ConcludedBy
    <2>3. SealCourse(p)'
        BY <1>0, <1>2, <2>1, <2>2 DEF SealCourse, WantsSeal, Reserved
    <2>. QED
        BY <1>0, <1>2, <2>3, ContinueKeepsSeal
<1>3. CASE LockedPublish(p)
    <2>1. ~PublishRefused(call[p]) => Reserved(p)
        BY DEF PublishRefused, Reserved
    <2>2. bundle[call[p].id] = "none" => call[p].id \notin Indexed(registry)
        BY <1>0 DEF Present
    <2>. QED
        BY <1>1, <1>2, <1>3, <2>1, <2>2 DEF LockedPublish, FirstWrite, Reserved
<1>4. CASE LockedRegisterExternal(p)
    BY <1>1, <1>2, <1>4 DEF LockedRegisterExternal, SealedOrSealing, Reserved
<1>5. CASE LockedAppend(p)
    BY <1>1, <1>2, <1>5 DEF LockedAppend, AppendRefused, SealedOrSealing
<1>6. CASE LockedSealAttempt(p)
    BY <1>1, <1>2, <1>6 DEF LockedSealAttempt
<1>7. CASE LockedCompleteSeal(p)
    <2>1. sealing = call[p].id => sealed \/ ConcludedBy(call[p].id)
        BY <1>0, <1>7 DEF LockedCompleteSeal, SealCourse, PendingIsLast
    <2>2. IsTerminal(registry, call[p].id) => ConcludedBy(call[p].id)
        <3>1. SUFFICES ASSUME IsTerminal(registry, call[p].id) PROVE ConcludedBy(call[p].id)
            OBVIOUS
        <3>2. registry \in Seq(Entries) /\ registry # <<>>
            BY <1>0, <3>1 DEF TypeInv, FilesTyped, IsTerminal
        <3>3. Len(registry) \in DOMAIN registry
            BY <3>2, EmptySeq, LenProperties
        <3>4. Described(registry[Len(registry)])
            BY <3>1, <3>3 DEF IsTerminal, StoreInv, BundleInv, RegistryBacked, SealInv
        <3>. QED
            BY <3>1, <3>2, <3>4 DEF IsTerminal, Described, PublicationEntry, ConcludedBy
    <2>. QED
        BY <1>1, <1>2, <1>7, <2>1, <2>2 DEF LockedCompleteSeal
<1>. QED
    BY <1>3, <1>4, <1>5, <1>6, <1>7

(* The writes of the markers.                                               *)
LEMMA IntentSeal ==
    ASSUME StoreInv, SealInv, NEW p \in Procs, CreateIntent(p) \/ WriteIntent(p)
    PROVE  SealInv'
<1>0. /\ TypeInv /\ pc[p] \in {"intent", "intent_write"} /\ SealCourse(p) /\ PendingIsLast
      /\ call[p].id \in Artifacts /\ pc[p] \in Critical /\ Corrupt \notin Indexed(registry)
      /\ UNCHANGED <<registry, bundle, sealed>>
    BY CallFields, IndexedType, StoreConstants
    DEF StoreInv, TypeInv, FilesTyped, ControlInv, CallsTyped, SealInv, CreateIntent,
        WriteIntent, Critical
<1>1. PICK stage \in {AfterIntent(call[p]), "intent_write"} :
        /\ Continue(p, stage)
        /\ stage = "intent_write" => sealing' = Corrupt
        /\ stage # "intent_write" => sealing' = call[p].id
    BY DEF CreateIntent, WriteIntent, AfterIntent
<1>2. Alone(p) /\ pc'[p] = stage /\ call'[p] = call[p] /\ UNCHANGED losses
    BY <1>0, <1>1, ContinueFrame
<1>3. \A id : ConcludedBy(id)' = ConcludedBy(id)
    BY <1>0 DEF ConcludedBy
<1>4. SealCourse(p)'
    BY <1>0, <1>1, <1>2, <1>3 DEF SealCourse, Reserved, AfterIntent, WantsSeal
<1>5. PendingIsLast'
    BY <1>0, <1>1, <1>3 DEF PendingIsLast, SealCourse
<1>6. \A q \in Procs \ {p} : SealCourse(q)'
    BY <1>0, <1>2, OthersCourse
<1>. QED
    BY <1>0, <1>2, <1>4, <1>5, <1>6 DEF SealInv, Present

LEMMA MarkSeal ==
    ASSUME StoreInv, SealInv, NEW p \in Procs,
           AfterAppend(p) \/ MarkSealed(p) \/ RemoveIntent(p)
    PROVE  SealInv'
<1>0. /\ TypeInv /\ SealCourse(p) /\ Acked(p) /\ PendingIsLast /\ pc[p] \in Critical
      /\ UNCHANGED <<registry, bundle>>
    BY DEF StoreInv, SealInv, BundleInv, Fits, AfterAppend, MarkSealed, RemoveIntent, durable,
           Critical
<1>1. CASE AfterAppend(p)
    <2>0. UNCHANGED <<sealing, sealed>> /\ pc[p] = "appended"
        BY <1>1 DEF AfterAppend, durable
    <2>1. CASE \E result : Return(p, result)
        BY <1>0, <2>0, <2>1, EndKeepsSeal
    <2>2. CASE ResumeScan(p) \/ (Goto(p, "reread") /\ UNCHANGED <<call, entry, outcome, bounds>>)
        <3>1. Alone(p) /\ pc'[p] \in {"scan", "reread"} /\ UNCHANGED losses
            BY <2>2 DEF ResumeScan, Goto, bounds, Alone, StoreInv, TypeInv, ControlInv, CallsTyped
        <3>. QED
            BY <1>0, <2>0, <3>1, EasyCourse
    <2>3. CASE WantsSeal(call[p]) /\ sealing = call[p].id /\ Continue(p, "mark_sealed")
        <3>1. call[p].id \in Indexed(registry)
            BY <1>0, <2>0, <2>3 DEF Acked, WantsSeal, Publishes
        <3>2. sealed \/ ConcludedBy(call[p].id)
            BY <1>0, <2>3, <3>1 DEF PendingIsLast
        <3>3. pc'[p] = "mark_sealed" /\ call'[p] = call[p]
            BY <1>0, <2>3, ContinueFrame
        <3>4. SealCourse(p)'
            BY <1>0, <2>0, <2>3, <3>2, <3>3 DEF SealCourse, WantsSeal, ConcludedBy
        <3>. QED
            BY <1>0, <2>0, <2>3, <3>4, ContinueKeepsSeal
    <2>. QED
        BY <1>1, <2>1, <2>2, <2>3 DEF AfterAppend
<1>2. CASE MarkSealed(p) \/ RemoveIntent(p)
    <2>1. Alone(p) /\ pc'[p] \in {"idle", "unmark"} /\ UNCHANGED losses
        <3>1. CASE Return(p, "ok")
            BY <1>0, <3>1, FailFrame DEF Return, Goto, StoreInv, TypeInv, ControlInv, CallsTyped
        <3>2. CASE Continue(p, "unmark")
            BY <1>0, <3>2, ContinueFrame
        <3>. QED
            BY <1>2, <3>1, <3>2 DEF MarkSealed, RemoveIntent
    <2>2. sealed'
        BY <1>0, <1>2 DEF MarkSealed, RemoveIntent, Acked
    <2>3. SealCourse(p)'
        BY <2>1 DEF SealCourse
    <2>4. \A q \in Procs \ {p} : SealCourse(q)'
        BY <1>0, <2>1, OthersCourse
    <2>. QED
        BY <1>0, <2>1, <2>2, <2>3, <2>4 DEF SealInv, PendingIsLast, Present
<1>. QED
    BY <1>1, <1>2

LEMMA RenameSeal ==
    ASSUME StoreInv, SealInv, NEW p \in Procs, RenameBundle(p)
    PROVE  SealInv'
<1>0. /\ TypeInv /\ pc[p] = "rename" /\ SealCourse(p) /\ PendingIsLast /\ Present
      /\ pc[p] \in Critical /\ UNCHANGED <<registry, sealing, sealed>>
      /\ bundle \in [Artifacts -> BundleKinds] /\ Indexed(registry) \subseteq Artifacts
    BY IndexedType DEF StoreInv, TypeInv, FilesTyped, SealInv, RenameBundle, Critical
<1>1. Alone(p) /\ pc'[p] = "index" /\ call'[p] = call[p] /\ UNCHANGED losses
    BY <1>0, ContinueFrame DEF RenameBundle
<1>2. \A id \in Artifacts : bundle'[id] # "none" \/ bundle'[id] = bundle[id]
    BY <1>0 DEF RenameBundle
<1>3. SealCourse(p)'
    BY <1>0, <1>1 DEF SealCourse, Reserved
<1>4. \A q \in Procs \ {p} : SealCourse(q)'
    BY <1>0, <1>1, OthersCourse
<1>. QED
    BY <1>0, <1>1, <1>2, <1>3, <1>4 DEF SealInv, PendingIsLast, Present, ConcludedBy

LEMMA EnsureSeal ==
    ASSUME StoreInv, SealInv, NEW p \in Procs, EnsureIndexed(p)
    PROVE  SealInv'
<1>0. /\ TypeInv /\ pc[p] = "index" /\ SealCourse(p) /\ entry \in [Procs -> Entries \cup {NoEntry}]
      /\ pc \in [Procs -> Stages] /\ UNCHANGED <<registry, bundle, sealing, sealed>>
    BY DEF StoreInv, TypeInv, ControlInv, CallsTyped, SealInv, EnsureIndexed
<1>1. CASE Return(p, "corrupt")
    BY <1>0, <1>1, EndKeepsSeal
<1>2. CASE Continue(p, "appended")
    <2>1. Alone(p) /\ pc'[p] = "appended" /\ UNCHANGED losses
        BY <1>0, <1>2, ContinueFrame
    <2>. QED
        BY <1>0, <2>1, EasyCourse
<1>3. CASE /\ ~IsIndexed(call[p].id) /\ Goto(p, "appending")
           /\ entry' = [entry EXCEPT ![p] = NewEntry(call[p])]
           /\ UNCHANGED <<call, outcome, bounds>>
    <2>1. /\ Alone(p) /\ pc'[p] = "appending" /\ call'[p] = call[p] /\ UNCHANGED losses
          /\ entry'[p] = NewEntry(call[p])
        BY <1>0, <1>3 DEF Alone, Goto, bounds
    <2>2. WantsSeal(call[p]) => NewEntry(call[p]) = PublicationEntry(call[p].id, "local")
        BY DEF WantsSeal, NewEntry
    <2>3. SealCourse(p)'
        BY <1>0, <1>3, <2>1, <2>2 DEF SealCourse, Reserved, IsIndexed, PublicationEntry
    <2>. QED
        BY <1>0, <2>1, <2>3, CourseKeeps
<1>. QED
    BY <1>1, <1>2, <1>3 DEF EnsureIndexed

LEMMA FinishSeal ==
    ASSUME StoreInv, SealInv, NEW p \in Procs, FinishAppend(p)
    PROVE  SealInv'
<1>0. /\ TypeInv /\ pc[p] = "appending" /\ SealCourse(p) /\ PendingIsLast /\ Present
      /\ pc[p] \in Critical /\ entry[p] \in Entries /\ losses = 0
      /\ UNCHANGED <<bundle, sealing, sealed>>
      /\ registry' = Append(registry, entry[p]) /\ registry \in Seq(Entries)
    BY DEF FinishAppend, StoreInv, TypeInv, FilesTyped, ControlInv, EntryReady, NeedsEntry,
           SealInv, Critical
<1>1. Alone(p) /\ pc'[p] = "appended" /\ call'[p] = call[p] /\ UNCHANGED losses
    BY <1>0, ContinueFrame DEF FinishAppend
<1>2. /\ Len(registry) \in Nat /\ DOMAIN registry = 1 .. Len(registry)
      /\ registry' \in Seq(Entries) /\ Len(registry') = Len(registry) + 1
      /\ DOMAIN registry' = 1 .. Len(registry) + 1
      /\ \A i \in 1 .. Len(registry) : registry'[i] = registry[i]
      /\ registry'[Len(registry) + 1] = entry[p]
    BY <1>0, AppendProperties, LenProperties
<1>3. Indexed(registry') = Indexed(registry) \cup {entry[p].id}
    BY <1>2 DEF Indexed
<1>4. Present'
    <2>1. CASE entry[p].kind = "retention_transition"
        <3>1. HistoryAccepts(registry, entry[p])
            BY <1>0 DEF StoreInv, HistoryInv, AppendReady
        <3>2. entry[p].id \in Indexed(registry)
            BY <2>1, <3>1 DEF HistoryAccepts
        <3>. QED
            BY <1>0, <1>3, <3>2 DEF Present
    <2>2. CASE entry[p].kind # "retention_transition"
        <3>1. Backed(p) /\ entry[p] # NoEntry
            BY <1>0, StoreConstants DEF StoreInv, BundleInv, Fits
        <3>2. Described(entry[p])
            BY <1>0, <2>2, <3>1 DEF Backed
        <3>. QED
            BY <1>0, <1>3, <3>2 DEF Present, Described
    <2>. QED
        BY <2>1, <2>2
<1>5. PendingIsLast'
    <2>1. SUFFICES ASSUME ~sealed, sealing \in Indexed(registry') PROVE ConcludedBy(sealing)'
        BY <1>0 DEF PendingIsLast
    <2>2. sealing # NoArtifact
        <3>1. Indexed(registry') \subseteq Artifacts
            BY <1>2, IndexedType
        <3>. QED
            BY <2>1, <3>1, StoreConstants
    <2>3. entry[p] = PublicationEntry(sealing, "local")
        BY <1>0, <2>2 DEF SealCourse, Reserved
    <2>4. registry' # <<>> /\ registry'[Len(registry')] = entry[p]
        BY <1>2, EmptySeq
    <2>. QED
        BY <1>0, <2>3, <2>4 DEF ConcludedBy
<1>6. SealCourse(p)'
    BY <1>1 DEF SealCourse
<1>7. \A q \in Procs \ {p} : SealCourse(q)'
    BY <1>0, <1>1, <1>3, OthersCourse
<1>. QED
    BY <1>0, <1>1, <1>4, <1>5, <1>6, <1>7 DEF SealInv

LEMMA OtherSeal ==
    ASSUME StoreInv, SealInv, MaxLosses = 0,
           (\E p \in Procs : Abort(p)) \/ LoseContent \/ UNCHANGED vars
    PROVE  SealInv'
<1>0. TypeInv /\ losses = 0
    BY DEF StoreInv, SealInv
<1>1. ASSUME NEW p \in Procs, Abort(p) PROVE SealInv'
    <2>1. Alone(p) /\ pc'[p] = "idle" /\ UNCHANGED <<registry, bundle, sealing, sealed, losses>>
        BY <1>0, <1>1 DEF Alone, Abort, Goto, durable, TypeInv, ControlInv, CallsTyped
    <2>. QED
        BY <1>0, <2>1, EasyCourse
<1>2. ~LoseContent
    BY <1>0 DEF LoseContent
<1>3. CASE UNCHANGED vars
    BY <1>3 DEF vars, durable, bounds, SealInv, SealCourse, Reserved, ConcludedBy,
                PendingIsLast, Present
<1>. QED
    BY <1>1, <1>2, <1>3

LEMMA SealStep == MaxLosses = 0 /\ StoreInv /\ SealInv /\ [Next]_vars => SealInv'
<1> SUFFICES ASSUME MaxLosses = 0, StoreInv, SealInv, [Next]_vars PROVE SealInv'
    OBVIOUS
<1>1. TypeInv
    BY DEF StoreInv
<1>. QED
    BY <1>1, CallSeal, EarlySeal, LockedSeal, IntentSeal, MarkSeal, RenameSeal, EnsureSeal,
       FinishSeal, OtherSeal DEF Next, Step

-----------------------------------------------------------------------------
(* Every step is one of the inventory's or leaves the inventory as it is.   *)

LEMMA InitImplements == Init => Inventory!Init
BY DEF Init, Inventory!Init

LEMMA Unseen ==
    ASSUME UNCHANGED <<registry, sealing, sealed>>
    PROVE  UNCHANGED Inventory!ivars
BY DEF Inventory!ivars

LEMMA StepImplements ==
    MaxLosses = 0 /\ StoreInv /\ SealInv /\ [Next]_vars => [Inventory!Next]_Inventory!ivars
<1> SUFFICES ASSUME StoreInv, SealInv, [Next]_vars PROVE [Inventory!Next]_Inventory!ivars
    OBVIOUS
<1>0. sealing \in Artifacts \cup {NoArtifact, Corrupt} /\ NoArtifact \notin Artifacts
      /\ Corrupt # NoArtifact /\ Corrupt \notin Artifacts /\ sealed \in BOOLEAN
    BY StoreConstants DEF StoreInv, TypeInv, FilesTyped
<1>1. ASSUME NEW p \in Procs, Call(p) \/ Abort(p) PROVE UNCHANGED Inventory!ivars
    BY <1>1, Unseen
    DEF Call, CallPublish, CallRegisterExisting, CallRegisterExternal, CallUpdateRetention,
        CallReconcile, CallSealAttempt, CallCompleteSeal, Issue, Abort, durable
<1>2. CASE LoseContent \/ UNCHANGED vars
    BY <1>2, Unseen DEF LoseContent, vars, durable
<1>3. ASSUME NEW p \in Procs, CreateIntent(p) PROVE [Inventory!Next]_Inventory!ivars
    <2>1. CASE UNCHANGED sealing
        BY <1>3, <2>1, Unseen DEF CreateIntent
    <2>2. CASE sealed
        BY <1>3, <2>2 DEF CreateIntent, Inventory!ivars
    <2>3. CASE ~sealed /\ sealing # call[p].id /\ sealing' = Corrupt
        <3>1. sealing = NoArtifact
            BY <1>3, <2>3 DEF SealInv, SealCourse, CreateIntent
        <3>2. Inventory!Reserve
            BY <1>0, <1>3, <2>3, <3>1 DEF CreateIntent, Inventory!Reserve
        <3>. QED
            BY <3>2 DEF Inventory!Next
    <2>. QED
        BY <1>3, <2>1, <2>2, <2>3 DEF CreateIntent
<1>4. ASSUME NEW p \in Procs, WriteIntent(p) PROVE [Inventory!Next]_Inventory!ivars
    <2>1. CASE sealed
        BY <1>4, <2>1 DEF WriteIntent, Inventory!ivars
    <2>2. CASE ~sealed
        <3>1. sealing = Corrupt /\ call[p].id \in Artifacts
            BY <1>4, CallFields
            DEF SealInv, SealCourse, WriteIntent, StoreInv, TypeInv, ControlInv, CallsTyped
        <3>2. Inventory!Bind(call[p].id)
            BY <1>0, <1>4, <2>2, <3>1 DEF WriteIntent, Inventory!Bind
        <3>. QED
            BY <3>1, <3>2 DEF Inventory!Next
    <2>. QED
        BY <2>1, <2>2
<1>5. ASSUME NEW p \in Procs, FinishAppend(p) PROVE [Inventory!Next]_Inventory!ivars
    <2>0. /\ pc[p] = "appending" /\ entry[p] \in Entries /\ SealCourse(p)
          /\ registry' = Append(registry, entry[p]) /\ UNCHANGED <<sealing, sealed>>
        BY <1>5 DEF FinishAppend, StoreInv, TypeInv, ControlInv, EntryReady, NeedsEntry, SealInv
    <2>1. ~sealed
        BY <2>0 DEF StoreInv, SealQuiet, QuietAt
    <2>2. CASE sealing = NoArtifact
        <3>1. Inventory!Record(entry[p])
            BY <2>0, <2>1, <2>2 DEF Inventory!Record
        <3>. QED
            BY <2>0, <3>1 DEF Inventory!Next
    <2>3. CASE sealing # NoArtifact
        <3>1. /\ sealing = call[p].id /\ sealing \in Artifacts
              /\ entry[p] = PublicationEntry(sealing, "local")
              /\ sealing \notin Indexed(registry)
            BY <2>0, <2>3, CallFields
            DEF SealCourse, Reserved, StoreInv, TypeInv, ControlInv, CallsTyped
        <3>2. PublicationEntry(sealing, "local").id = sealing
            BY DEF PublicationEntry
        <3>3. \A i \in DOMAIN registry : registry[i] # PublicationEntry(sealing, "local")
            BY <3>1, <3>2 DEF Indexed
        <3>4. Inventory!Conclude
            BY <2>0, <2>1, <2>3, <3>1, <3>3 DEF Inventory!Conclude, Inventory!IsRecorded
        <3>. QED
            BY <3>4 DEF Inventory!Next
    <2>. QED
        BY <2>2, <2>3
<1>6. ASSUME NEW p \in Procs, MarkSealed(p) PROVE [Inventory!Next]_Inventory!ivars
    <2>0. /\ pc[p] = "mark_sealed" /\ SealCourse(p) /\ sealed' /\ UNCHANGED <<registry, sealing>>
          /\ call[p].id \in Artifacts
        BY <1>6, CallFields DEF MarkSealed, SealInv, StoreInv, TypeInv, ControlInv, CallsTyped
    <2>1. CASE sealed
        BY <1>0, <2>0, <2>1, Unseen
    <2>2. CASE ~sealed
        <3>1. sealing # NoArtifact => sealing \in Artifacts /\ ConcludedBy(sealing)
            BY <2>0, <2>2 DEF SealCourse
        <3>2. Inventory!Seal
            BY <1>0, <2>0, <2>2, <3>1 DEF Inventory!Seal, Inventory!EndsWith, ConcludedBy
        <3>. QED
            BY <3>2 DEF Inventory!Next
    <2>. QED
        BY <2>1, <2>2
<1>7. ASSUME NEW p \in Procs, RemoveIntent(p) PROVE UNCHANGED Inventory!ivars
    <2>1. sealed /\ UNCHANGED <<registry, sealed>>
        BY <1>7 DEF RemoveIntent, StoreInv, BundleInv, Fits, Acked
    <2>. QED
        BY <2>1 DEF Inventory!ivars
<1>8. ASSUME NEW p \in Procs,
             \/ DelegateToPublish(p) \/ ProbeContent(p) \/ ListCategory(p) \/ VisitBundle(p)
             \/ FinishScan(p) \/ Acquire(p) \/ GiveUp(p) \/ LockedPublish(p)
             \/ LockedRegisterExternal(p) \/ LockedAppend(p) \/ LockedSealAttempt(p)
             \/ LockedCompleteSeal(p) \/ RenameBundle(p) \/ EnsureIndexed(p)
             \/ AfterAppend(p) \/ RereadRecord(p)
      PROVE  UNCHANGED Inventory!ivars
    BY <1>8, Unseen
    DEF DelegateToPublish, ProbeContent, ListCategory, VisitBundle, FinishScan, Acquire,
        GiveUp, LockedPublish, LockedRegisterExternal, LockedAppend, LockedSealAttempt,
        LockedCompleteSeal, RenameBundle, EnsureIndexed, AfterAppend, RereadRecord, durable
<1>. QED
    BY <1>1, <1>2, <1>3, <1>4, <1>5, <1>6, <1>7, <1>8 DEF Next, Step

(* The store implements AttemptInventory: whatever processes do and         *)
(* wherever they die, entries are only added, a pending intent lets in only *)
(* the artifact it names, once, and a seal that follows an intent finds     *)
(* that artifact as the last entry (store.py publish, seal_attempt,         *)
(* _complete_seal_with_artifact_binding).                                   *)
THEOREM Refinement == ASSUME MaxLosses = 0 PROVE Spec => ImplementsInventory
<1>1. Init => StoreInv /\ SealInv
    BY TypeInit, QuietInit, HistoryInit, BundleInit, SealInit DEF StoreInv
<1>2. StoreInv /\ SealInv /\ [Next]_vars => StoreInv' /\ SealInv'
    BY TypeStep, QuietStep, HistoryStep, BundleStep, SealStep DEF StoreInv
<1>3. StoreInv /\ SealInv /\ [Next]_vars => [Inventory!Next]_Inventory!ivars
    BY StepImplements
<1>. QED
    BY <1>1, <1>2, <1>3, InitImplements, PTL DEF Spec, ImplementsInventory, Inventory!Spec
=============================================================================
