----------------------- MODULE ArtifactStoreBundleProofs -----------------------
(***************************************************************************)
(* Theorems about ArtifactStore that relate the registry to the bundles on *)
(* disk and to what callers have been told, for every value of its         *)
(* constants: AcknowledgedIsIndexed, IndexedHasBundle and                  *)
(* OrphansComeFromCrashes are conjuncts, or consequences, of one invariant.*)
(***************************************************************************)
EXTENDS ArtifactStoreProofs

-----------------------------------------------------------------------------
(* The invariant.                                                           *)

(* What a call on behalf of a caller publishes.                             *)
Publishes(c) == c.op \in {"publish", "register_existing", "register_external"}
KindOf(c) == IF c.op = "register_external" THEN "external" ELSE "local"

(* The entry is the one reconciliation would write for the bundle on disk.  *)
Described(e) ==
    /\ bundle[e.id] \in {"local", "external"}
    /\ e = PublicationEntry(e.id, bundle[e.id])

(* Which calls get to which stage.                                          *)
OnCourse(p) ==
    /\ pc[p] = "scan" => call[p].op = "reconcile_orphans"
    /\ pc[p] = "reread" => call[p].op = "update_retention"
    /\ pc[p] \in {"rename", "index"} => Publishes(call[p])
    /\ pc[p] \in {"intent", "intent_write"} =>
          Publishes(call[p]) \/ call[p].op = "complete_seal"
    /\ pc[p] = "appending" /\ Publishes(call[p]) => entry[p].id = call[p].id

(* What a call past its append may tell its caller.                         *)
Acked(p) ==
    /\ pc[p] \in {"appended", "mark_sealed", "unmark"} /\ Publishes(call[p]) =>
          call[p].id \in Indexed(registry)
    /\ pc[p] = "unmark" => sealed
    /\ pc[p] = "idle" /\ outcome[p] = "ok" =>
          /\ Publishes(call[p]) => call[p].id \in Indexed(registry)
          /\ WantsSeal(call[p]) \/ call[p].op \in {"seal_attempt", "complete_seal"} => sealed

(* What is on disk for the entry a call is about to append.                 *)
Backed(p) ==
    /\ pc[p] = "rename" \/ (pc[p] \in {"intent", "intent_write"} /\ Publishes(call[p])) =>
          bundle[call[p].id] = "none"
    /\ losses = 0 /\ pc[p] = "index" => bundle[call[p].id] = KindOf(call[p])
    /\ losses = 0 /\ entry[p] # NoEntry /\ entry[p].kind # "retention_transition" =>
          Described(entry[p])

RegistryBacked ==
    losses = 0 =>
        \A i \in DOMAIN registry :
            registry[i].kind # "retention_transition" => Described(registry[i])

(* Without a crash an unterminated line, or a bundle that is not indexed,   *)
(* belongs to the holder of the lock.                                       *)
Unfinished(a) ==
    \E p \in Procs : /\ pc[p] \in {"index", "appending"}
                     /\ Publishes(call[p]) /\ call[p].id = a
CrashFree ==
    crashes = 0 =>
        /\ torn => \E p \in Procs : pc[p] = "appending"
        /\ \A a \in Artifacts :
              bundle[a] # "none" /\ a \notin Indexed(registry) => Unfinished(a)

Fits(p) == OnCourse(p) /\ Acked(p) /\ Backed(p)

BundleInv ==
    /\ \A p \in Procs : Fits(p)
    /\ RegistryBacked /\ CrashFree

LEMMA BundleInit == Init => BundleInv
<1> SUFFICES ASSUME Init PROVE BundleInv
    OBVIOUS
<1>1. \A p \in Procs : pc[p] = "idle" /\ entry[p] = NoEntry /\ outcome[p] = "none"
    BY DEF Init
<1>2. registry = <<>> /\ torn = FALSE /\ \A a \in Artifacts : bundle[a] = "none"
    BY DEF Init
<1>3. \A p \in Procs : Fits(p)
    BY <1>1 DEF Fits, OnCourse, Acked, Backed
<1>4. RegistryBacked
    BY <1>2 DEF RegistryBacked
<1>. QED
    BY <1>2, <1>3, <1>4 DEF BundleInv, CrashFree

-----------------------------------------------------------------------------
(* A step of one process and what it leaves of the others.                  *)

Alone(p) ==
    \A q \in Procs \ {p} : /\ pc'[q] = pc[q] /\ call'[q] = call[q]
                            /\ entry'[q] = entry[q] /\ outcome'[q] = outcome[q]

(* Bundles appear under the lock and never change their kind.               *)
Settles(p) ==
    \A a \in Artifacts : bundle'[a] = bundle[a] \/ (bundle[a] = "none" /\ pc[p] \in Critical)

LEMMA DescribedStays ==
    ASSUME NEW p, Settles(p), NEW e \in Entries, Described(e)
    PROVE  Described(e)'
BY DEF Settles, Described, PublicationEntry, Entries

LEMMA OthersFit ==
    ASSUME TypeInv, BundleInv, NEW p \in Procs, Alone(p), Settles(p), UNCHANGED losses,
           Indexed(registry) \subseteq Indexed(registry'), sealed => sealed'
    PROVE  \A q \in Procs \ {p} : Fits(q)'
<1> SUFFICES ASSUME NEW q \in Procs \ {p} PROVE Fits(q)'
    OBVIOUS
<1>1. /\ pc'[q] = pc[q] /\ call'[q] = call[q] /\ entry'[q] = entry[q]
      /\ outcome'[q] = outcome[q] /\ OnCourse(q) /\ Acked(q) /\ Backed(q)
    BY DEF Alone, BundleInv, Fits
<1>2. call[q].id \in Artifacts /\ entry[q] \in Entries \cup {NoEntry}
    BY CallFields DEF TypeInv, ControlInv, CallsTyped
<1>3. pc[p] \in Critical => pc[q] \notin Critical
    BY DEF TypeInv, ControlInv, LockInv
<1>4. OnCourse(q)'
    BY <1>1 DEF OnCourse
<1>5. Acked(q)'
    BY <1>1 DEF Acked
<1>6. Backed(q)'
    <2>1. pc[q] \in Critical => bundle'[call[q].id] = bundle[call[q].id]
        BY <1>2, <1>3 DEF Settles
    <2>2. \A e \in Entries : Described(e) => Described(e)'
        BY DescribedStays
    <2>3. entry[q] # NoEntry /\ Described(entry[q]) => Described(entry[q])'
        BY <1>1, <1>2, <2>2 DEF Described
    <2>. QED
        BY <1>1, <2>1, <2>3 DEF Backed, Critical
<1>. QED
    BY <1>4, <1>5, <1>6 DEF Fits

(* Steps that write neither the registry nor a bundle.                      *)
LEMMA QuietlyKeeps ==
    ASSUME TypeInv, BundleInv, NEW p \in Procs, Alone(p), Fits(p)',
           UNCHANGED <<registry, torn, bundle, losses>>, sealed => sealed',
           crashes' = 0 => crashes = 0 /\ pc[p] \notin {"index", "appending"}
    PROVE  BundleInv'
<1>1. \A q \in Procs \ {p} : Fits(q)'
    BY OthersFit DEF Settles
<1>2. RegistryBacked'
    BY DEF BundleInv, RegistryBacked, Described
<1>3. CrashFree'
    <2>1. SUFFICES ASSUME crashes' = 0 PROVE CrashFree'
        BY DEF CrashFree
    <2>2. CrashFree /\ crashes = 0 /\ pc[p] \notin {"index", "appending"}
        BY <2>1 DEF BundleInv
    <2>3. torn => \E q \in Procs : pc'[q] = "appending"
        BY <2>2 DEF CrashFree, Alone
    <2>4. \A a \in Artifacts : Unfinished(a) => Unfinished(a)'
        BY <2>2 DEF Unfinished, Alone
    <2>. QED
        BY <2>2, <2>3, <2>4 DEF CrashFree
<1>. QED
    BY <1>1, <1>2, <1>3 DEF BundleInv

(* The forms in which a call moves on.                                      *)

LEMMA ReturnFits ==
    ASSUME TypeInv, NEW p \in Procs, NEW result, Return(p, result),
           result = "ok" =>
              /\ Publishes(call[p]) => call[p].id \in Indexed(registry')
              /\ WantsSeal(call[p]) \/ call[p].op \in {"seal_attempt", "complete_seal"} => sealed'
    PROVE  Alone(p) /\ Fits(p)' /\ UNCHANGED <<losses, crashes>>
<1>1. /\ pc \in [Procs -> Stages] /\ entry \in [Procs -> Entries \cup {NoEntry}]
      /\ outcome \in [Procs -> Outcomes]
    BY DEF TypeInv, ControlInv, CallsTyped
<1>2. /\ pc' = [pc EXCEPT ![p] = "idle"] /\ entry' = [entry EXCEPT ![p] = NoEntry]
      /\ outcome' = [outcome EXCEPT ![p] = result] /\ UNCHANGED <<call, losses, crashes>>
    BY DEF Return, Goto, bounds
<1>3. Alone(p)
    BY <1>1, <1>2 DEF Alone
<1>4. pc'[p] = "idle" /\ entry'[p] = NoEntry /\ outcome'[p] = result /\ call'[p] = call[p]
    BY <1>1, <1>2
<1>5. Fits(p)'
    BY <1>4 DEF Fits, OnCourse, Acked, Backed
<1>. QED
    BY <1>2, <1>3, <1>5

LEMMA ContinueFrame ==
    ASSUME TypeInv, NEW p \in Procs, NEW stage, Continue(p, stage)
    PROVE  /\ Alone(p) /\ pc'[p] = stage /\ call'[p] = call[p] /\ entry'[p] = entry[p]
           /\ UNCHANGED <<losses, crashes>>
BY DEF TypeInv, ControlInv, CallsTyped, Continue, Goto, Alone, bounds

(* Stages about which nothing is said: a call may always go there.          *)
LEMMA PlainFits ==
    ASSUME NEW p \in Procs, Fits(p), pc'[p] \in {"precheck", "probe", "wait", "locked"},
           entry'[p] \in {entry[p], NoEntry} \/ entry'[p].kind = "retention_transition",
           UNCHANGED <<bundle, losses>>
    PROVE  Fits(p)'
BY DEF Fits, OnCourse, Acked, Backed, Described

LEMMA ScanFits ==
    ASSUME NEW p \in Procs, Fits(p), pc'[p] = "scan", call'[p].op = "reconcile_orphans",
           entry'[p] \in {entry[p], NoEntry}, UNCHANGED <<bundle, losses>>
    PROVE  Fits(p)'
BY DEF Fits, OnCourse, Acked, Backed, Described, Publishes

LEMMA FailAppendFits ==
    ASSUME TypeInv, BundleInv, NEW p \in Procs, NEW result \in Outcomes \ {"ok"},
           FailAppend(p, result), UNCHANGED <<bundle, losses>>
    PROVE  Alone(p) /\ Fits(p)' /\ UNCHANGED <<losses, crashes>>
<1>1. CASE Return(p, result)
    BY <1>1, ReturnFits
<1>2. CASE ResumeScan(p) /\ call[p].op = "reconcile_orphans"
    <2>1. /\ pc \in [Procs -> Stages] /\ entry \in [Procs -> Entries \cup {NoEntry}]
        BY DEF TypeInv, ControlInv, CallsTyped
    <2>2. /\ pc' = [pc EXCEPT ![p] = "scan"] /\ entry' = [entry EXCEPT ![p] = NoEntry]
          /\ UNCHANGED <<call, outcome, crashes, losses>>
        BY <1>2 DEF ResumeScan, Goto, bounds
    <2>3. Alone(p) /\ pc'[p] = "scan" /\ entry'[p] = NoEntry /\ call'[p] = call[p]
        BY <2>1, <2>2 DEF Alone
    <2>. QED
        BY <1>2, <2>2, <2>3, ScanFits DEF BundleInv
<1>. QED
    BY <1>1, <1>2 DEF FailAppend

LEMMA IssueKeeps ==
    ASSUME TypeInv, BundleInv, NEW p \in Procs, NEW c \in Menu[p], Issue(p, c),
           \/ \E result \in Outcomes \ {"ok"} : Refuse(p, result)
           \/ \E stage \in {"precheck", "probe", "wait"} : Proceed(p, stage)
           \/ c.op = "reconcile_orphans" /\ Proceed(p, "scan"),
           \A q \in Procs \ {p} : entry'[q] = entry[q],
           entry'[p] = entry[p] \/ entry'[p].kind = "retention_transition"
    PROVE  BundleInv'
<1>1. /\ pc \in [Procs -> Stages] /\ call \in [Procs -> Calls] /\ pc[p] = "idle"
      /\ outcome \in [Procs -> Outcomes] /\ call' = [call EXCEPT ![p] = c]
      /\ UNCHANGED <<registry, torn, bundle, sealed, losses, crashes>>
    BY DEF TypeInv, ControlInv, CallsTyped, Issue, durable
<1>2. Alone(p)
    BY <1>1 DEF Alone, Refuse, Proceed, Goto
<1>3. \/ pc'[p] = "idle" /\ outcome'[p] # "ok"
      \/ pc'[p] \in {"precheck", "probe", "wait"}
      \/ pc'[p] = "scan" /\ call'[p].op = "reconcile_orphans"
    BY <1>1 DEF Refuse, Proceed, Goto
<1>4. Backed(p)'
    BY <1>1, <1>3 DEF Backed, BundleInv, Fits, Described
<1>5. Fits(p)'
    BY <1>3, <1>4 DEF Fits, OnCourse, Acked
<1>. QED
    BY <1>1, <1>2, <1>5, QuietlyKeeps

LEMMA FailKeeps ==
    ASSUME TypeInv, BundleInv, NEW p \in Procs, NEW result \in Outcomes \ {"ok"},
           Return(p, result) \/ FailAppend(p, result), UNCHANGED durable,
           pc[p] \notin {"index", "appending"}
    PROVE  BundleInv'
<1>1. UNCHANGED <<registry, torn, bundle, sealed>>
    BY DEF durable
<1>2. UNCHANGED losses
    BY DEF FailAppend, Return, ResumeScan, bounds
<1>3. Alone(p) /\ Fits(p)' /\ UNCHANGED <<losses, crashes>>
    BY <1>1, <1>2, ReturnFits, FailAppendFits
<1>. QED
    BY <1>1, <1>3, QuietlyKeeps

LEMMA ContinueKeepsBundles ==
    ASSUME TypeInv, BundleInv, NEW p \in Procs, NEW stage, Continue(p, stage), Fits(p)',
           UNCHANGED <<registry, torn, bundle>>, sealed => sealed',
           pc[p] \notin {"index", "appending"}
    PROVE  BundleInv'
BY ContinueFrame, QuietlyKeeps

-----------------------------------------------------------------------------
(* The actions that write no registry line and no bundle.                   *)

LEMMA CallBundles ==
    ASSUME TypeInv, BundleInv, NEW p \in Procs, Call(p)
    PROVE  BundleInv'
<1>0. entry \in [Procs -> Entries \cup {NoEntry}]
    BY DEF TypeInv, ControlInv, CallsTyped
<1>1. PICK c \in Menu[p] :
        \/ CallPublish(p, c) \/ CallRegisterExisting(p, c) \/ CallRegisterExternal(p, c)
        \/ CallUpdateRetention(p, c) \/ CallReconcile(p, c) \/ CallSealAttempt(p, c)
        \/ CallCompleteSeal(p, c)
    BY DEF Call
<1>2. CASE CallUpdateRetention(p, c)
    <2>1. \A q \in Procs \ {p} : entry'[q] = entry[q]
        BY <1>0, <1>2 DEF CallUpdateRetention
    <2>2. entry'[p] = entry[p] \/ entry'[p].kind = "retention_transition"
        BY <1>0, <1>2 DEF CallUpdateRetention
    <2>3. /\ Issue(p, c)
          /\ \/ \E result \in Outcomes \ {"ok"} : Refuse(p, result)
             \/ \E stage \in {"precheck", "probe", "wait"} : Proceed(p, stage)
        BY <1>2 DEF CallUpdateRetention, Outcomes
    <2>. QED
        BY <2>1, <2>2, <2>3, IssueKeeps
<1>3. CASE CallPublish(p, c) \/ CallRegisterExisting(p, c) \/ CallRegisterExternal(p, c)
    <2>1. /\ Issue(p, c) /\ UNCHANGED entry
          /\ \/ \E result \in Outcomes \ {"ok"} : Refuse(p, result)
             \/ \E stage \in {"precheck", "probe", "wait"} : Proceed(p, stage)
        BY <1>3 DEF CallPublish, CallRegisterExisting, CallRegisterExternal, Outcomes
    <2>. QED
        BY <2>1, IssueKeeps
<1>4. CASE CallSealAttempt(p, c) \/ CallCompleteSeal(p, c)
    <2>1. Issue(p, c) /\ UNCHANGED entry /\ Proceed(p, "wait")
        BY <1>4 DEF CallSealAttempt, CallCompleteSeal
    <2>. QED
        BY <2>1, IssueKeeps
<1>5. CASE CallReconcile(p, c)
    <2>1. /\ Issue(p, c) /\ UNCHANGED entry
          /\ \/ \E result \in Outcomes \ {"ok"} : Refuse(p, result)
             \/ c.op = "reconcile_orphans" /\ Proceed(p, "scan")
        BY <1>5 DEF CallReconcile, Outcomes
    <2>. QED
        BY <2>1, IssueKeeps
<1>. QED
    BY <1>1, <1>2, <1>3, <1>4, <1>5

LEMMA EarlyBundles ==
    ASSUME TypeInv, BundleInv, NEW p \in Procs,
           \/ DelegateToPublish(p) \/ ProbeContent(p) \/ FinishScan(p) \/ RereadRecord(p)
           \/ GiveUp(p)
    PROVE  BundleInv'
<1>1. Fits(p) /\ OnCourse(p)
    BY DEF BundleInv, Fits
<1>2. UNCHANGED durable /\ pc[p] \notin {"index", "appending"}
    BY DEF DelegateToPublish, ProbeContent, FinishScan, RereadRecord, GiveUp
<1>3. CASE \E result \in Outcomes \ {"ok"} : Return(p, result) \/ FailAppend(p, result)
    BY <1>2, <1>3, FailKeeps
<1>4. CASE Continue(p, "wait")
    <2>1. /\ pc'[p] = "wait" /\ entry'[p] = entry[p] /\ UNCHANGED <<bundle, losses>>
          /\ UNCHANGED <<registry, torn, sealed>>
        BY <1>2, <1>4, ContinueFrame DEF durable
    <2>. QED
        BY <1>1, <1>2, <1>4, <2>1, PlainFits, ContinueKeepsBundles
<1>5. CASE /\ Return(p, "ok")
           /\ call[p].op \in {"reconcile_orphans", "update_retention"}
    <2>1. Alone(p) /\ Fits(p)' /\ UNCHANGED <<losses, crashes>>
        BY <1>5, ReturnFits DEF Publishes, WantsSeal
    <2>. QED
        BY <1>2, <2>1, QuietlyKeeps DEF durable
<1>. QED
    BY <1>1, <1>3, <1>4, <1>5
    DEF DelegateToPublish, ProbeContent, FinishScan, RereadRecord, GiveUp, OnCourse, Outcomes

LEMMA ScanBundles ==
    ASSUME TypeInv, BundleInv, NEW p \in Procs, ListCategory(p) \/ VisitBundle(p) \/ Acquire(p)
    PROVE  BundleInv'
<1>0. /\ pc \in [Procs -> Stages] /\ entry \in [Procs -> Entries \cup {NoEntry}]
      /\ Fits(p) /\ todo[p] \subseteq Artifacts
    BY DEF TypeInv, ControlInv, CallsTyped, ScanTyped, BundleInv
<1>1. /\ UNCHANGED <<registry, torn, bundle, sealed, call, outcome, losses, crashes>>
      /\ pc[p] \notin {"index", "appending"}
    BY DEF ListCategory, VisitBundle, Acquire, durable, bounds
<1>2. Alone(p)
    BY <1>0, <1>1 DEF Alone, ListCategory, VisitBundle, Acquire, Goto
<1>3. CASE UNCHANGED <<pc, entry>>
    <2>1. Fits(p)'
        BY <1>0, <1>1, <1>3 DEF Fits, OnCourse, Acked, Backed, Described
    <2>. QED
        BY <1>1, <1>2, <2>1, QuietlyKeeps
<1>4. CASE Acquire(p)
    <2>1. pc'[p] = "locked" /\ entry'[p] = entry[p]
        BY <1>0, <1>4 DEF Acquire, Goto
    <2>. QED
        BY <1>0, <1>1, <1>2, <2>1, PlainFits, QuietlyKeeps
<1>5. ASSUME NEW a \in todo[p], bundle[a] \in {"local", "external"},
             entry' = [entry EXCEPT ![p] = PublicationEntry(a, bundle[a])], Goto(p, "wait")
      PROVE  BundleInv'
    <2>1. pc'[p] = "wait" /\ entry'[p] = PublicationEntry(a, bundle[a])
        BY <1>0, <1>5 DEF Goto
    <2>2. entry'[p].id = a
        BY <2>1 DEF PublicationEntry
    <2>3. Fits(p)'
        BY <1>1, <1>5, <2>1, <2>2 DEF Fits, OnCourse, Acked, Backed, Described
    <2>. QED
        BY <1>1, <1>2, <2>3, QuietlyKeeps
<1>. QED
    BY <1>3, <1>4, <1>5 DEF ListCategory, VisitBundle

LEMMA LockedBundles ==
    ASSUME TypeInv, BundleInv, NEW p \in Procs,
           \/ LockedPublish(p) \/ LockedRegisterExternal(p)
           \/ LockedSealAttempt(p) \/ LockedCompleteSeal(p)
    PROVE  BundleInv'
<1>0. pc[p] = "locked" /\ Fits(p) /\ UNCHANGED durable
    BY DEF LockedPublish, LockedRegisterExternal, LockedSealAttempt, LockedCompleteSeal,
           BundleInv
<1>1. CASE \E result \in Outcomes \ {"ok"} : Return(p, result)
    BY <1>0, <1>1, FailKeeps
<1>2. ASSUME NEW stage, Continue(p, stage),
             \/ stage = "index" /\ Publishes(call[p]) /\ bundle[call[p].id] = KindOf(call[p])
             \/ stage \in {"intent", "rename"} /\ Publishes(call[p]) /\ bundle[call[p].id] = "none"
             \/ stage \in {"intent", "mark_sealed"} /\ ~Publishes(call[p])
                /\ (stage = "intent" => call[p].op = "complete_seal")
      PROVE  BundleInv'
    <2>1. /\ pc'[p] = stage /\ call'[p] = call[p] /\ entry'[p] = entry[p] /\ UNCHANGED losses
          /\ UNCHANGED <<registry, torn, bundle, sealed>>
        BY <1>0, <1>2, ContinueFrame DEF durable
    <2>2. OnCourse(p)' /\ Acked(p)'
        BY <1>2, <2>1 DEF OnCourse, Acked, Publishes
    <2>3. Backed(p)'
        BY <1>0, <1>2, <2>1 DEF Fits, Backed, Described, Publishes, KindOf
    <2>. QED
        BY <1>0, <1>2, <2>1, <2>2, <2>3, ContinueKeepsBundles DEF Fits
<1>3. CASE LockedPublish(p)
    BY <1>1, <1>2, <1>3 DEF LockedPublish, FirstWrite, Publishes, KindOf, Outcomes
<1>4. CASE LockedRegisterExternal(p)
    BY <1>1, <1>2, <1>4 DEF LockedRegisterExternal, Publishes, KindOf, Outcomes
<1>5. CASE LockedSealAttempt(p) \/ LockedCompleteSeal(p)
    BY <1>1, <1>2, <1>5 DEF LockedSealAttempt, LockedCompleteSeal, Publishes, Outcomes
<1>. QED
    BY <1>3, <1>4, <1>5

LEMMA IntentBundles ==
    ASSUME TypeInv, BundleInv, NEW p \in Procs, CreateIntent(p) \/ WriteIntent(p)
    PROVE  BundleInv'
<1>0. /\ pc[p] \in {"intent", "intent_write"} /\ Fits(p)
      /\ UNCHANGED <<registry, torn, bundle, sealed>>
    BY DEF CreateIntent, WriteIntent, BundleInv
<1>1. PICK stage \in {AfterIntent(call[p]), "intent_write"} : Continue(p, stage)
    BY DEF CreateIntent, WriteIntent
<1>2. pc'[p] = stage /\ call'[p] = call[p] /\ entry'[p] = entry[p] /\ UNCHANGED losses
    BY <1>1, ContinueFrame
<1>3. \/ Publishes(call[p]) /\ bundle[call[p].id] = "none" /\ stage \in {"rename", "intent_write"}
      \/ call[p].op = "complete_seal" /\ stage \in {"mark_sealed", "intent_write"}
    BY <1>0 DEF Fits, OnCourse, Backed, AfterIntent, Publishes
<1>4. OnCourse(p)' /\ Acked(p)'
    BY <1>2, <1>3 DEF OnCourse, Acked, Publishes
<1>5. Backed(p)'
    BY <1>0, <1>2, <1>3 DEF Fits, Backed, Described, Publishes
<1>. QED
    BY <1>0, <1>1, <1>4, <1>5, ContinueKeepsBundles DEF Fits

LEMMA SealBundles ==
    ASSUME TypeInv, BundleInv, NEW p \in Procs,
           AfterAppend(p) \/ MarkSealed(p) \/ RemoveIntent(p)
    PROVE  BundleInv'
<1>0. /\ pc[p] \in {"appended", "mark_sealed", "unmark"} /\ Fits(p)
      /\ UNCHANGED <<registry, torn, bundle>> /\ (sealed => sealed')
      /\ (Publishes(call[p]) => call[p].id \in Indexed(registry))
    BY DEF AfterAppend, MarkSealed, RemoveIntent, durable, BundleInv, Fits, Acked
<1>1. ASSUME NEW result, Return(p, result),
             result = "ok" /\ (WantsSeal(call[p]) \/ ~Publishes(call[p])) => sealed'
      PROVE  BundleInv'
    <2>1. Alone(p) /\ Fits(p)' /\ UNCHANGED <<losses, crashes>>
        BY <1>0, <1>1, ReturnFits DEF Publishes
    <2>. QED
        BY <1>0, <2>1, QuietlyKeeps
<1>2. ASSUME NEW stage \in {"mark_sealed", "unmark"}, Continue(p, stage),
             stage = "unmark" => sealed'
      PROVE  BundleInv'
    <2>1. pc'[p] = stage /\ call'[p] = call[p] /\ entry'[p] = entry[p] /\ UNCHANGED losses
        BY <1>2, ContinueFrame
    <2>2. OnCourse(p)' /\ Acked(p)'
        BY <1>0, <1>2, <2>1 DEF OnCourse, Acked, Publishes
    <2>3. Backed(p)'
        BY <1>0, <1>2, <2>1 DEF Fits, Backed, Described
    <2>. QED
        BY <1>0, <1>2, <2>2, <2>3, ContinueKeepsBundles DEF Fits
<1>3. CASE AfterAppend(p)
    <2>1. CASE ResumeScan(p) /\ call[p].op = "reconcile_orphans"
        <3>1. /\ pc \in [Procs -> Stages] /\ entry \in [Procs -> Entries \cup {NoEntry}]
            BY DEF TypeInv, ControlInv, CallsTyped
        <3>2. /\ pc' = [pc EXCEPT ![p] = "scan"] /\ entry' = [entry EXCEPT ![p] = NoEntry]
              /\ UNCHANGED <<call, outcome, crashes, losses>>
            BY <2>1 DEF ResumeScan, Goto, bounds
        <3>3. Alone(p) /\ pc'[p] = "scan" /\ entry'[p] = NoEntry /\ call'[p] = call[p]
            BY <3>1, <3>2 DEF Alone
        <3>4. Fits(p)'
            BY <1>0, <2>1, <3>2, <3>3, ScanFits
        <3>. QED
            BY <1>0, <3>2, <3>3, <3>4, QuietlyKeeps
    <2>2. CASE /\ Goto(p, "reread") /\ call[p].op = "update_retention"
               /\ UNCHANGED <<call, entry, outcome, bounds>>
        <3>1. Alone(p) /\ pc'[p] = "reread" /\ entry'[p] = entry[p] /\ call'[p] = call[p]
              /\ UNCHANGED <<losses, crashes>>
            BY <2>2 DEF Goto, Alone, TypeInv, ControlInv, CallsTyped, bounds
        <3>2. Fits(p)'
            BY <1>0, <2>2, <3>1 DEF Fits, OnCourse, Acked, Backed, Described
        <3>. QED
            BY <1>0, <3>1, <3>2, QuietlyKeeps
    <2>3. CASE Continue(p, "mark_sealed")
        BY <1>2, <2>3
    <2>4. CASE Return(p, "sealed")
        BY <1>1, <2>4
    <2>5. CASE Return(p, "ok") /\ Publishes(call[p]) /\ ~WantsSeal(call[p])
        BY <1>1, <2>5
    <2>. QED
        BY <1>3, <2>1, <2>2, <2>3, <2>4, <2>5 DEF AfterAppend, Publishes
<1>4. CASE MarkSealed(p)
    BY <1>1, <1>2, <1>4 DEF MarkSealed
<1>5. CASE RemoveIntent(p)
    <2>1. sealed'
        BY <1>0, <1>5 DEF RemoveIntent, Fits, Acked
    <2>. QED
        BY <1>1, <1>5, <2>1 DEF RemoveIntent
<1>. QED
    BY <1>3, <1>4, <1>5

LEMMA AbortBundles ==
    ASSUME TypeInv, BundleInv, NEW p \in Procs, Abort(p)
    PROVE  BundleInv'
<1>1. /\ pc \in [Procs -> Stages] /\ entry \in [Procs -> Entries \cup {NoEntry}]
      /\ outcome \in [Procs -> Outcomes] /\ crashes \in Nat
    BY DEF TypeInv, ControlInv, CallsTyped, BoundsTyped
<1>2. /\ pc' = [pc EXCEPT ![p] = "idle"] /\ entry' = [entry EXCEPT ![p] = NoEntry]
      /\ outcome' = [outcome EXCEPT ![p] = "aborted"] /\ crashes' = crashes + 1
      /\ UNCHANGED <<call, losses, registry, torn, bundle, sealed>>
    BY DEF Abort, Goto, durable
<1>3. Alone(p) /\ pc'[p] = "idle" /\ entry'[p] = NoEntry /\ outcome'[p] = "aborted"
    BY <1>1, <1>2 DEF Alone
<1>4. Fits(p)'
    BY <1>3 DEF Fits, OnCourse, Acked, Backed
<1>. QED
    BY <1>1, <1>2, <1>3, <1>4, QuietlyKeeps

LEMMA OthersBundles ==
    ASSUME TypeInv, BundleInv, LoseContent \/ UNCHANGED vars
    PROVE  BundleInv'
<1>1. CASE LoseContent
    <2>1. /\ losses' # 0
          /\ UNCHANGED <<registry, torn, sealed, pc, call, entry, outcome, crashes>>
        BY <1>1 DEF LoseContent, TypeInv, ControlInv, BoundsTyped
    <2>2. \A a \in Artifacts : bundle[a] = "none" => bundle'[a] = "none"
        BY <1>1 DEF LoseContent, TypeInv, FilesTyped
    <2>3. \A a \in Artifacts : bundle'[a] # "none" => bundle[a] # "none"
        BY <2>2
    <2>4. ASSUME NEW p \in Procs PROVE Fits(p)'
        <3>1. call[p].id \in Artifacts /\ Fits(p)
            BY CallFields DEF TypeInv, ControlInv, CallsTyped, BundleInv
        <3>. QED
            BY <2>1, <2>2, <3>1 DEF Fits, OnCourse, Acked, Backed
    <2>5. RegistryBacked'
        BY <2>1 DEF RegistryBacked
    <2>6. CrashFree'
        BY <2>1, <2>3 DEF BundleInv, CrashFree, Unfinished
    <2>. QED
        BY <2>4, <2>5, <2>6 DEF BundleInv
<1>2. CASE UNCHANGED vars
    BY <1>2 DEF vars, durable, bounds, BundleInv, Fits, OnCourse, Acked, Backed, RegistryBacked,
                CrashFree, Unfinished, Described
<1>. QED
    BY <1>1, <1>2

-----------------------------------------------------------------------------
(* The actions that write a line or a bundle; they hold the lock, and so    *)
(* nobody else is in the middle of a write.                                 *)

LEMMA Sole ==
    ASSUME TypeInv, BundleInv, NEW p \in Procs, pc[p] \in Critical, crashes = 0
    PROVE  /\ torn => pc[p] = "appending"
           /\ \A a \in Artifacts : bundle[a] # "none" /\ a \notin Indexed(registry) =>
                 pc[p] \in {"index", "appending"} /\ Publishes(call[p]) /\ call[p].id = a
<1>1. \A q \in Procs : pc[q] \in {"index", "appending"} => q = p
    BY DEF TypeInv, ControlInv, LockInv, Critical
<1>. QED
    BY <1>1 DEF BundleInv, CrashFree, Unfinished

LEMMA Assemble ==
    ASSUME TypeInv, BundleInv, NEW p \in Procs, Alone(p), Settles(p), UNCHANGED losses,
           Indexed(registry) \subseteq Indexed(registry'), sealed => sealed',
           Fits(p)', RegistryBacked', CrashFree'
    PROVE  BundleInv'
BY OthersFit DEF BundleInv

LEMMA BackedStays ==
    ASSUME TypeInv, BundleInv, NEW p \in Procs, Settles(p), UNCHANGED <<losses, registry>>
    PROVE  RegistryBacked'
<1>1. \A i \in DOMAIN registry : registry[i] \in Entries
    BY ElementOfSeq, LenProperties DEF TypeInv, FilesTyped
<1>2. \A e \in Entries : Described(e) => Described(e)'
    BY DescribedStays
<1>. QED
    BY <1>1, <1>2 DEF BundleInv, RegistryBacked, Described

LEMMA RenameBundles ==
    ASSUME TypeInv, BundleInv, NEW p \in Procs, RenameBundle(p)
    PROVE  BundleInv'
<1>0. /\ pc[p] = "rename" /\ Fits(p) /\ Publishes(call[p]) /\ bundle[call[p].id] = "none"
      /\ call[p].id \in Artifacts /\ bundle \in [Artifacts -> BundleKinds]
      /\ entry[p] \in Entries \cup {NoEntry} /\ pc[p] \in Critical
    BY CallFields DEF RenameBundle, BundleInv, Fits, OnCourse, Backed, TypeInv, FilesTyped,
                      ControlInv, CallsTyped, Critical
<1>1. /\ bundle' = [bundle EXCEPT ![call[p].id] = KindOf(call[p])]
      /\ UNCHANGED <<registry, torn, sealed>> /\ Continue(p, "index")
    BY DEF RenameBundle, KindOf
<1>2. /\ Alone(p) /\ pc'[p] = "index" /\ call'[p] = call[p] /\ entry'[p] = entry[p]
      /\ UNCHANGED <<losses, crashes>>
    BY <1>1, ContinueFrame
<1>3. Settles(p)
    BY <1>0, <1>1 DEF Settles
<1>4. OnCourse(p)' /\ Acked(p)'
    BY <1>0, <1>2 DEF OnCourse, Acked, Publishes
<1>5. Backed(p)'
    <2>1. \A e \in Entries : Described(e) => Described(e)'
        BY <1>3, DescribedStays
    <2>2. entry[p] # NoEntry /\ Described(entry[p]) => Described(entry[p])'
        BY <1>0, <1>2, <2>1 DEF Described
    <2>3. bundle'[call[p].id] = KindOf(call[p])
        BY <1>0, <1>1
    <2>4. KindOf(call[p])' = KindOf(call[p])
        BY <1>2 DEF KindOf
    <2>. QED
        BY <1>0, <1>2, <2>2, <2>3, <2>4 DEF Fits, Backed
<1>6. RegistryBacked'
    BY <1>1, <1>2, <1>3, BackedStays
<1>7. CrashFree'
    <2>1. SUFFICES ASSUME crashes = 0 PROVE CrashFree'
        BY <1>2 DEF CrashFree
    <2>2. ~torn /\ \A a \in Artifacts : bundle[a] # "none" => a \in Indexed(registry)
        BY <1>0, <2>1, Sole
    <2>3. Unfinished(call[p].id)'
        BY <1>0, <1>2 DEF Unfinished, Publishes
    <2>4. \A a \in Artifacts : bundle'[a] # "none" /\ a \notin Indexed(registry) => a = call[p].id
        BY <1>0, <1>1, <2>2
    <2>5. ASSUME NEW a \in Artifacts, a = call[p].id PROVE Unfinished(a)'
        BY <1>0, <1>2, <2>5 DEF Unfinished, Publishes
    <2>. QED
        BY <1>1, <2>2, <2>4, <2>5 DEF CrashFree
<1>. QED
    BY <1>1, <1>2, <1>3, <1>4, <1>5, <1>6, <1>7, Assemble DEF Fits

LEMMA LockedAppendBundles ==
    ASSUME TypeInv, BundleInv, NEW p \in Procs, LockedAppend(p)
    PROVE  BundleInv'
<1>0. /\ pc[p] = "locked" /\ Fits(p) /\ ~Publishes(call[p]) /\ pc[p] \in Critical
      /\ UNCHANGED <<registry, bundle, sealing, sealed>>
    BY DEF LockedAppend, BundleInv, Publishes, Critical
<1>1. CASE \E result \in Outcomes \ {"ok"} : FailAppend(p, result) /\ UNCHANGED torn
    BY <1>0, <1>1, FailKeeps DEF durable
<1>2. CASE Continue(p, "appending") /\ torn'
    <2>1. /\ Alone(p) /\ pc'[p] = "appending" /\ call'[p] = call[p] /\ entry'[p] = entry[p]
          /\ UNCHANGED <<losses, crashes>>
        BY <1>2, ContinueFrame
    <2>2. Fits(p)'
        BY <1>0, <2>1 DEF Fits, OnCourse, Acked, Backed, Described, Publishes
    <2>3. Settles(p)
        BY <1>0 DEF Settles
    <2>4. RegistryBacked'
        BY <1>0, <2>1, <2>3, BackedStays
    <2>5. CrashFree'
        <3>1. SUFFICES ASSUME crashes = 0 PROVE CrashFree'
            BY <2>1 DEF CrashFree
        <3>2. \A a \in Artifacts : bundle[a] # "none" => a \in Indexed(registry)
            BY <1>0, <3>1, Sole
        <3>. QED
            BY <1>0, <2>1, <3>2 DEF CrashFree
    <2>. QED
        BY <1>0, <2>1, <2>2, <2>3, <2>4, <2>5, Assemble
<1>. QED
    BY <1>1, <1>2 DEF LockedAppend, Outcomes

LEMMA EnsureBundles ==
    ASSUME TypeInv, BundleInv, NEW p \in Procs, EnsureIndexed(p)
    PROVE  BundleInv'
<1>0. /\ pc[p] = "index" /\ Fits(p) /\ Publishes(call[p]) /\ pc[p] \in Critical
      /\ call[p].id \in Artifacts /\ pc \in [Procs -> Stages]
      /\ entry \in [Procs -> Entries \cup {NoEntry}]
      /\ UNCHANGED <<registry, bundle, sealing, sealed>> /\ Settles(p)
    BY CallFields DEF EnsureIndexed, BundleInv, Fits, OnCourse, TypeInv, ControlInv,
                      CallsTyped, Critical, Settles
<1>1. CASE torn /\ Return(p, "corrupt") /\ UNCHANGED torn
    <2>1. Alone(p) /\ Fits(p)' /\ UNCHANGED <<losses, crashes>>
        BY <1>1, ReturnFits
    <2>2. crashes # 0
        BY <1>0, <1>1, Sole
    <2>. QED
        BY <1>0, <1>1, <2>1, <2>2, QuietlyKeeps
<1>2. CASE call[p].id \in Indexed(registry) /\ Continue(p, "appended") /\ UNCHANGED torn
    <2>1. /\ Alone(p) /\ pc'[p] = "appended" /\ call'[p] = call[p] /\ entry'[p] = entry[p]
          /\ UNCHANGED <<losses, crashes>>
        BY <1>2, ContinueFrame
    <2>2. Fits(p)'
        BY <1>0, <1>2, <2>1 DEF Fits, OnCourse, Acked, Backed, Described
    <2>3. RegistryBacked'
        BY <1>0, <2>1, BackedStays
    <2>4. CrashFree'
        <3>1. SUFFICES ASSUME crashes = 0 PROVE CrashFree'
            BY <2>1 DEF CrashFree
        <3>2. ~torn /\ \A a \in Artifacts : bundle[a] # "none" => a \in Indexed(registry)
            BY <1>0, <1>2, <3>1, Sole
        <3>. QED
            BY <1>0, <1>2, <3>2 DEF CrashFree
    <2>. QED
        BY <1>0, <2>1, <2>2, <2>3, <2>4, Assemble
<1>3. CASE /\ ~torn /\ entry' = [entry EXCEPT ![p] = NewEntry(call[p])] /\ torn'
           /\ Goto(p, "appending") /\ UNCHANGED <<call, outcome, bounds>>
    <2>1. /\ Alone(p) /\ pc'[p] = "appending" /\ call'[p] = call[p]
          /\ entry'[p] = PublicationEntry(call[p].id, KindOf(call[p]))
          /\ UNCHANGED <<losses, crashes>>
        BY <1>0, <1>3 DEF Goto, Alone, bounds, NewEntry, KindOf
    <2>2. entry'[p].id = call[p].id
        BY <2>1 DEF PublicationEntry
    <2>3. losses = 0 => bundle[call[p].id] = KindOf(call[p])
        BY <1>0 DEF Fits, Backed
    <2>4. OnCourse(p)' /\ Acked(p)'
        BY <1>0, <2>1, <2>2 DEF OnCourse, Acked, Publishes
    <2>5. Backed(p)'
        BY <1>0, <2>1, <2>2, <2>3 DEF Backed, Described, KindOf
    <2>6. RegistryBacked'
        BY <1>0, <2>1, BackedStays
    <2>7. CrashFree'
        <3>1. SUFFICES ASSUME crashes = 0 PROVE CrashFree'
            BY <2>1 DEF CrashFree
        <3>2. \A a \in Artifacts : bundle[a] # "none" /\ a \notin Indexed(registry) => call[p].id = a
            BY <1>0, <3>1, Sole
        <3>3. ASSUME NEW a \in Artifacts, call[p].id = a PROVE Unfinished(a)'
            BY <1>0, <2>1, <3>3 DEF Unfinished, Publishes
        <3>. QED
            BY <1>0, <2>1, <3>2, <3>3 DEF CrashFree
    <2>. QED
        BY <1>0, <2>1, <2>4, <2>5, <2>6, <2>7, Assemble DEF Fits
<1>. QED
    BY <1>1, <1>2, <1>3 DEF EnsureIndexed, IsIndexed

LEMMA FinishBundles ==
    ASSUME TypeInv, BundleInv, NEW p \in Procs, FinishAppend(p)
    PROVE  BundleInv'
<1>0. /\ pc[p] = "appending" /\ Fits(p) /\ pc[p] \in Critical /\ entry[p] \in Entries
      /\ UNCHANGED <<bundle, sealing, sealed>> /\ ~torn' /\ Settles(p)
      /\ registry' = Append(registry, entry[p]) /\ registry \in Seq(Entries)
    BY DEF FinishAppend, BundleInv, TypeInv, FilesTyped, ControlInv, EntryReady, NeedsEntry,
           Critical, Settles
<1>1. /\ Alone(p) /\ pc'[p] = "appended" /\ call'[p] = call[p] /\ entry'[p] = entry[p]
      /\ UNCHANGED <<losses, crashes>>
    BY ContinueFrame DEF FinishAppend
<1>2. /\ Len(registry) \in Nat /\ DOMAIN registry = 1 .. Len(registry)
      /\ DOMAIN registry' = 1 .. Len(registry) + 1
      /\ \A i \in 1 .. Len(registry) : registry'[i] = registry[i]
      /\ registry'[Len(registry) + 1] = entry[p]
    BY <1>0, AppendProperties, LenProperties
<1>3. /\ Indexed(registry) \subseteq Indexed(registry')
      /\ entry[p].id \in Indexed(registry')
    BY <1>2 DEF Indexed
<1>4. Fits(p)'
    BY <1>0, <1>1, <1>3 DEF Fits, OnCourse, Acked, Backed, Described, Publishes
<1>5. RegistryBacked'
    <2>1. SUFFICES ASSUME losses = 0, NEW i \in DOMAIN registry',
                          registry'[i].kind # "retention_transition"
                   PROVE  Described(registry[i])'
        BY <1>1 DEF RegistryBacked
    <2>2. CASE i \in 1 .. Len(registry)
        BY <1>0, <1>2, <2>1, <2>2 DEF BundleInv, RegistryBacked, Described
    <2>3. CASE i = Len(registry) + 1
        <3>1. Described(entry[p])
            BY <1>0, <1>2, <2>1, <2>3, StoreConstants DEF Fits, Backed
        <3>. QED
            BY <1>0, <1>2, <2>3, <3>1 DEF Described
    <2>. QED
        BY <1>2, <2>2, <2>3
<1>6. CrashFree'
    <2>1. SUFFICES ASSUME crashes = 0 PROVE CrashFree'
        BY <1>1 DEF CrashFree
    <2>2. \A a \in Artifacts : bundle[a] # "none" /\ a \notin Indexed(registry) =>
             Publishes(call[p]) /\ call[p].id = a
        BY <1>0, <2>1, Sole
    <2>3. Publishes(call[p]) => entry[p].id = call[p].id
        BY <1>0 DEF Fits, OnCourse
    <2>. QED
        BY <1>0, <1>3, <2>2, <2>3 DEF CrashFree
<1>. QED
    BY <1>0, <1>1, <1>3, <1>4, <1>5, <1>6, Assemble

-----------------------------------------------------------------------------
LEMMA BundleStep == TypeInv /\ BundleInv /\ [Next]_vars => BundleInv'
BY CallBundles, EarlyBundles, ScanBundles, LockedBundles, IntentBundles, SealBundles,
   AbortBundles, OthersBundles, RenameBundles, LockedAppendBundles, EnsureBundles,
   FinishBundles DEF Next, Step

LEMMA BundleHolds == Spec => []BundleInv
BY TypeInit, TypeStep, BundleInit, BundleStep, PTL DEF Spec

(* Whatever other processes do and wherever calls are cut short, a caller   *)
(* that publish, register_existing or register_external has answered finds  *)
(* its artifact in the registry, and one that has sealed finds the attempt  *)
(* sealed (store.py publish, register_external, seal_attempt).              *)
THEOREM Acknowledgement == Spec => []AcknowledgedIsIndexed
<1>1. BundleInv => AcknowledgedIsIndexed
    BY DEF BundleInv, Fits, Acked, AcknowledgedIsIndexed, Publishes
<1>. QED
    BY <1>1, BundleHolds, PTL

(* While nothing is removed behind the store's back each publication in the *)
(* registry has its bundle, of the kind the entry says: bundles are renamed *)
(* into place before their line is written (store.py publish, reconcile).   *)
THEOREM IndexedIsPresent == Spec => []IndexedHasBundle
<1>1. BundleInv => IndexedHasBundle
    BY DEF BundleInv, RegistryBacked, IndexedHasBundle, Described
<1>. QED
    BY <1>1, BundleHolds, PTL

(* Without a crash the only bundle that is not indexed is the one the       *)
(* holder of the lock has just renamed into place (store.py publish).       *)
THEOREM OrphansAreUnfinished == Spec => []OrphansComeFromCrashes
<1>1. BundleInv => OrphansComeFromCrashes
    BY DEF BundleInv, CrashFree, Unfinished, OrphansComeFromCrashes
<1>. QED
    BY <1>1, BundleHolds, PTL
=============================================================================
