------------------------- MODULE ArtifactStoreProofs -------------------------
(***************************************************************************)
(* Theorems about ArtifactStore, for every value of its constants.         *)
(***************************************************************************)
EXTENDS ArtifactStore, SequenceTheorems, WellFoundedInduction, TLAPS

-----------------------------------------------------------------------------
(* Type correctness.  It needs to know who holds the lock and that a call   *)
(* about to append has an entry to append.                                  *)

(* Whoever is appending has an entry to append, and a call that prepares    *)
(* its entry before it takes the lock keeps it until the lock is released.  *)
NeedsEntry(stage, op) ==
    \/ stage = "appending"
    \/ /\ op \in {"update_retention", "reconcile_orphans"}
       /\ stage \notin {"idle", "scan", "reread"}

EntryReady == \A p \in Procs : NeedsEntry(pc[p], call[p].op) => entry[p] \in Entries

(* Exactly the holder of the lock is in a critical section.                 *)
LockInv == \A p \in Procs : pc[p] \in Critical <=> lock = p

FilesTyped ==
    /\ registry \in Seq(Entries)
    /\ torn \in BOOLEAN
    /\ bundle \in [Artifacts -> BundleKinds]
    /\ sealing \in Artifacts \cup {NoArtifact, Corrupt}
    /\ sealed \in BOOLEAN

ScanTyped ==
    /\ seen \in [Procs -> SUBSET Artifacts]
    /\ unlisted \in [Procs -> SUBSET Categories]
    /\ todo \in [Procs -> SUBSET Artifacts]

CallsTyped ==
    /\ lock \in Procs \cup {NoProc}
    /\ pc \in [Procs -> Stages]
    /\ call \in [Procs -> Calls]
    /\ entry \in [Procs -> Entries \cup {NoEntry}]
    /\ outcome \in [Procs -> Outcomes]

BoundsTyped ==
    /\ calls \in [Procs -> Nat]
    /\ crashes \in Nat
    /\ losses \in Nat

ControlInv == CallsTyped /\ ScanTyped /\ BoundsTyped /\ EntryReady /\ LockInv

TypeInv == FilesTyped /\ ControlInv

LEMMA TypeInvImpliesTypeOK == TypeInv => TypeOK
BY DEF TypeInv, FilesTyped, ControlInv, CallsTyped, ScanTyped, BoundsTyped, TypeOK

LEMMA PublicationEntryType ==
    ASSUME NEW id \in Artifacts, NEW kind
    PROVE  PublicationEntry(id, kind) \in Entries
BY DEF PublicationEntry, Entries, EntryKinds, Retentions

LEMMA NoCallType == NoCall \in Calls
<1>1. PICK id \in Artifacts : TRUE
    BY StoreConstants
<1>2. [op |-> "publish", id |-> id, seal |-> FALSE, retention |-> "retained"] \in Calls
    BY <1>1 DEF Calls, Ops, Retentions
<1>. QED
    BY <1>2 DEF NoCall

LEMMA CallFields ==
    ASSUME NEW c \in Calls
    PROVE  /\ c.op \in Ops /\ c.id \in Artifacts
           /\ c.seal \in BOOLEAN /\ c.retention \in Retentions
BY DEF Calls

LEMMA IndexedType ==
    ASSUME NEW reg \in Seq(Entries)
    PROVE  Indexed(reg) \subseteq Artifacts
<1>1. \A i \in DOMAIN reg : reg[i] \in Entries
    BY ElementOfSeq, LenProperties
<1>2. \A e \in Entries : e.id \in Artifacts
    BY DEF Entries
<1>. QED
    BY <1>1, <1>2 DEF Indexed

LEMMA TypeInit == Init => TypeInv
<1> SUFFICES ASSUME Init PROVE TypeInv
    OBVIOUS
<1>1. FilesTyped
    BY EmptySeq DEF Init, FilesTyped, BundleKinds
<1>2. ScanTyped /\ BoundsTyped
    BY DEF Init, ScanTyped, BoundsTyped
<1>3. CallsTyped
    BY NoCallType DEF Init, CallsTyped, Stages, Outcomes
<1>4. EntryReady
    BY DEF Init, EntryReady, NeedsEntry
<1>5. LockInv
    BY StoreConstants DEF Init, LockInv, Critical
<1>. QED
    BY <1>1, <1>2, <1>3, <1>4, <1>5 DEF TypeInv, ControlInv

(* The forms in which a call moves on, each keeping ControlInv.             *)

LEMMA ReturnKeeps ==
    ASSUME ControlInv, NEW p \in Procs, NEW result \in Outcomes, Return(p, result)
    PROVE  ControlInv'
<1> USE DEF ControlInv, Return
<1>1. CallsTyped' /\ pc' = [pc EXCEPT ![p] = "idle"]
    BY DEF CallsTyped, Goto, Release, Stages
<1>2. ScanTyped' /\ BoundsTyped'
    BY DEF ScanTyped, BoundsTyped, ForgetScan, bounds
<1>3. EntryReady'
    BY <1>1 DEF EntryReady, NeedsEntry, CallsTyped
<1>4. LockInv'
    BY <1>1, StoreConstants DEF LockInv, Release, CallsTyped, Critical
<1>. QED
    BY <1>1, <1>2, <1>3, <1>4

LEMMA ContinueKeeps ==
    ASSUME ControlInv, NEW p \in Procs, NEW stage \in Stages, Continue(p, stage),
           stage \in Critical <=> pc[p] \in Critical,
           NeedsEntry(stage, call[p].op) => entry[p] \in Entries
    PROVE  ControlInv'
<1> USE DEF ControlInv, Continue
<1>1. CallsTyped' /\ pc' = [pc EXCEPT ![p] = stage]
    BY DEF CallsTyped, Goto
<1>2. ScanTyped' /\ BoundsTyped'
    BY DEF ScanTyped, BoundsTyped, scanner, bounds
<1>3. EntryReady'
    BY <1>1 DEF EntryReady, CallsTyped
<1>4. LockInv'
    BY <1>1 DEF LockInv, CallsTyped
<1>. QED
    BY <1>1, <1>2, <1>3, <1>4

(* Releasing the lock for a stage outside of it that needs no entry.        *)
LEMMA ReleaseKeeps ==
    ASSUME ControlInv, NEW p \in Procs, NEW stage \in {"scan", "reread"},
           Goto(p, stage), Release(p), UNCHANGED <<call, outcome, bounds>>,
           entry' = [entry EXCEPT ![p] = NoEntry] \/ UNCHANGED entry,
           ScanTyped'
    PROVE  ControlInv'
<1>1. CallsTyped' /\ BoundsTyped'
    BY DEF ControlInv, CallsTyped, BoundsTyped, Goto, Release, Stages, bounds
<1>2. EntryReady'
    BY DEF ControlInv, CallsTyped, EntryReady, NeedsEntry, Goto
<1>3. LockInv'
    BY StoreConstants DEF ControlInv, CallsTyped, LockInv, Critical, Goto, Release
<1>. QED
    BY <1>1, <1>2, <1>3 DEF ControlInv

LEMMA FailAppendKeeps ==
    ASSUME ControlInv, NEW p \in Procs, NEW result \in Outcomes, FailAppend(p, result)
    PROVE  ControlInv'
<1>1. CASE Return(p, result)
    BY <1>1, ReturnKeeps
<1>2. CASE ResumeScan(p) /\ UNCHANGED seen
    <2>1. ScanTyped'
        BY <1>2 DEF ResumeScan, ControlInv, ScanTyped
    <2>. QED
        BY <1>2, <2>1, ReleaseKeeps DEF ResumeScan
<1>. QED
    BY <1>1, <1>2 DEF FailAppend

LEMMA CallProceedKeeps ==
    ASSUME ControlInv, NEW p \in Procs, NEW c \in Menu[p], NEW stage \in Stages \ Critical,
           Issue(p, c), Proceed(p, stage), ScanTyped',
           entry' \in [Procs -> Entries \cup {NoEntry}],
           \A q \in Procs \ {p} : entry'[q] = entry[q],
           NeedsEntry(stage, c.op) => entry'[p] \in Entries
    PROVE  ControlInv'
<1> USE DEF ControlInv, Issue, Proceed
<1>0. c \in Calls
    BY StoreConstants
<1>1. CallsTyped' /\ pc' = [pc EXCEPT ![p] = stage] /\ call' = [call EXCEPT ![p] = c]
    BY <1>0 DEF CallsTyped, Goto, Outcomes
<1>2. BoundsTyped'
    BY StoreConstants DEF BoundsTyped
<1>3. EntryReady'
    BY <1>1 DEF EntryReady, CallsTyped
<1>4. LockInv'
    BY <1>1 DEF LockInv, CallsTyped, Critical
<1>. QED
    BY <1>1, <1>2, <1>3, <1>4

LEMMA CallRefuseKeeps ==
    ASSUME ControlInv, NEW p \in Procs, NEW c \in Menu[p], NEW result \in Outcomes,
           Issue(p, c), Refuse(p, result), UNCHANGED <<entry, scanner>>
    PROVE  ControlInv'
<1> USE DEF ControlInv, Issue, Refuse
<1>0. c \in Calls
    BY StoreConstants
<1>1. CallsTyped' /\ call' = [call EXCEPT ![p] = c]
    BY <1>0 DEF CallsTyped
<1>2. ScanTyped' /\ BoundsTyped'
    BY StoreConstants DEF ScanTyped, BoundsTyped, scanner
<1>3. EntryReady'
    BY <1>1 DEF EntryReady, CallsTyped, NeedsEntry
<1>4. LockInv'
    BY DEF LockInv
<1>. QED
    BY <1>1, <1>2, <1>3, <1>4

LEMMA TypeStep == TypeInv /\ [Next]_vars => TypeInv'
<1> SUFFICES ASSUME TypeInv, [Next]_vars PROVE TypeInv'
    OBVIOUS
<1> USE DEF TypeInv
<1>0. /\ pc \in [Procs -> Stages] /\ call \in [Procs -> Calls]
      /\ \A p \in Procs : NeedsEntry(pc[p], call[p].op) => entry[p] \in Entries
      /\ \A p \in Procs : call[p].op \in Ops /\ call[p].id \in Artifacts
    BY CallFields DEF ControlInv, CallsTyped, EntryReady
<1>1. ASSUME NEW p \in Procs, NEW c \in Menu[p], CallPublish(p, c) PROVE TypeInv'
    <2>1. FilesTyped'
        BY <1>1 DEF CallPublish, Issue, durable, FilesTyped
    <2>2. CASE Refuse(p, "sealed")
        BY <1>1, <2>1, <2>2, CallRefuseKeeps DEF CallPublish, Outcomes
    <2>3. CASE Proceed(p, "wait")
        <3>1. ScanTyped' /\ UNCHANGED entry
            BY <1>1 DEF CallPublish, ScanTyped, scanner, ControlInv
        <3>2. "wait" \in Stages \ Critical /\ ~NeedsEntry("wait", c.op)
            BY <1>1 DEF CallPublish, Stages, Critical, NeedsEntry
        <3>. QED
            BY <1>1, <2>1, <2>3, <3>1, <3>2, CallProceedKeeps DEF CallPublish, ControlInv, CallsTyped
    <2>. QED
        BY <1>1, <2>2, <2>3 DEF CallPublish
<1>2. ASSUME NEW p \in Procs, NEW c \in Menu[p], CallRegisterExisting(p, c) PROVE TypeInv'
    <2>1. FilesTyped'
        BY <1>2 DEF CallRegisterExisting, Issue, durable, FilesTyped
    <2>2. CASE Refuse(p, "sealed")
        BY <1>2, <2>1, <2>2, CallRefuseKeeps DEF CallRegisterExisting, Outcomes
    <2>3. CASE Proceed(p, "precheck")
        <3>1. ScanTyped' /\ UNCHANGED entry
            BY <1>2 DEF CallRegisterExisting, ScanTyped, scanner, ControlInv
        <3>2. "precheck" \in Stages \ Critical /\ ~NeedsEntry("precheck", c.op)
            BY <1>2 DEF CallRegisterExisting, Stages, Critical, NeedsEntry
        <3>. QED
            BY <1>2, <2>1, <2>3, <3>1, <3>2, CallProceedKeeps DEF CallRegisterExisting, ControlInv, CallsTyped
    <2>. QED
        BY <1>2, <2>2, <2>3 DEF CallRegisterExisting
<1>3. ASSUME NEW p \in Procs, NEW c \in Menu[p], CallRegisterExternal(p, c) PROVE TypeInv'
    <2>1. FilesTyped'
        BY <1>3 DEF CallRegisterExternal, Issue, durable, FilesTyped
    <2>2. CASE Refuse(p, "sealed")
        BY <1>3, <2>1, <2>2, CallRefuseKeeps DEF CallRegisterExternal, Outcomes
    <2>3. CASE Proceed(p, "wait")
        <3>1. ScanTyped' /\ UNCHANGED entry
            BY <1>3 DEF CallRegisterExternal, ScanTyped, scanner, ControlInv
        <3>2. "wait" \in Stages \ Critical /\ ~NeedsEntry("wait", c.op)
            BY <1>3 DEF CallRegisterExternal, Stages, Critical, NeedsEntry
        <3>. QED
            BY <1>3, <2>1, <2>3, <3>1, <3>2, CallProceedKeeps DEF CallRegisterExternal, ControlInv, CallsTyped
    <2>. QED
        BY <1>3, <2>2, <2>3 DEF CallRegisterExternal
<1>4. ASSUME NEW p \in Procs, NEW c \in Menu[p], CallUpdateRetention(p, c) PROVE TypeInv'
    <2> DEFINE e == [kind |-> "retention_transition", id |-> c.id, retention |-> c.retention]
               stage == IF c.retention = "missing" THEN "probe" ELSE "wait"
    <2>0. e \in Entries
        <3>1. c \in Calls
            BY StoreConstants
        <3>. QED
            BY <3>1, CallFields DEF Entries, EntryKinds
    <2>1. FilesTyped'
        BY <1>4 DEF CallUpdateRetention, Issue, durable, FilesTyped
    <2>2. ASSUME NEW result \in {"corrupt", "not_found", "conflict"},
                 Refuse(p, result), UNCHANGED entry
          PROVE  ControlInv'
        BY <1>4, <2>2, CallRefuseKeeps DEF CallUpdateRetention, Outcomes
    <2>3. CASE Proceed(p, stage) /\ entry' = [entry EXCEPT ![p] = e]
        <3>1. ScanTyped'
            BY <1>4 DEF CallUpdateRetention, ScanTyped, scanner, ControlInv
        <3>2. stage \in Stages \ Critical
            BY DEF Stages, Critical
        <3>3. /\ entry' \in [Procs -> Entries \cup {NoEntry}]
              /\ entry'[p] = e /\ \A q \in Procs \ {p} : entry'[q] = entry[q]
            BY <2>0, <2>3 DEF ControlInv, CallsTyped
        <3>4. Issue(p, c) /\ Proceed(p, stage)
            BY <1>4, <2>3 DEF CallUpdateRetention
        <3>. HIDE DEF e, stage
        <3>. QED
            BY <2>0, <2>1, <3>1, <3>2, <3>3, <3>4, CallProceedKeeps
    <2>. QED
        BY <1>4, <2>1, <2>2, <2>3 DEF CallUpdateRetention
<1>5. ASSUME NEW p \in Procs, NEW c \in Menu[p], CallReconcile(p, c) PROVE TypeInv'
    <2>1. FilesTyped'
        BY <1>5 DEF CallReconcile, Issue, durable, FilesTyped
    <2>2. CASE torn
        BY <1>5, <2>1, <2>2, CallRefuseKeeps DEF CallReconcile, Outcomes
    <2>3. CASE ~torn
        <3>1. ScanTyped' /\ UNCHANGED entry
            BY <1>5, <2>3, IndexedType
            DEF CallReconcile, ScanTyped, ControlInv, IndexSnapshot, FilesTyped
        <3>2. "scan" \in Stages \ Critical /\ ~NeedsEntry("scan", c.op)
            BY DEF Stages, Critical, NeedsEntry
        <3>. QED
            BY <1>5, <2>1, <2>3, <3>1, <3>2, CallProceedKeeps
            DEF CallReconcile, ControlInv, CallsTyped
    <2>. QED
        BY <2>2, <2>3
<1>6. ASSUME NEW p \in Procs, NEW c \in Menu[p], CallSealAttempt(p, c) PROVE TypeInv'
    <2>1. FilesTyped'
        BY <1>6 DEF CallSealAttempt, Issue, durable, FilesTyped
    <2>2. ScanTyped' /\ UNCHANGED entry
        BY <1>6 DEF CallSealAttempt, ScanTyped, scanner, ControlInv
    <2>3. "wait" \in Stages \ Critical /\ ~NeedsEntry("wait", c.op)
        BY <1>6 DEF CallSealAttempt, Stages, Critical, NeedsEntry
    <2>. QED
        BY <1>6, <2>1, <2>2, <2>3, CallProceedKeeps DEF CallSealAttempt, ControlInv, CallsTyped
<1>7. ASSUME NEW p \in Procs, NEW c \in Menu[p], CallCompleteSeal(p, c) PROVE TypeInv'
    <2>1. FilesTyped'
        BY <1>7 DEF CallCompleteSeal, Issue, durable, FilesTyped
    <2>2. ScanTyped' /\ UNCHANGED entry
        BY <1>7 DEF CallCompleteSeal, ScanTyped, scanner, ControlInv
    <2>3. "wait" \in Stages \ Critical /\ ~NeedsEntry("wait", c.op)
        BY <1>7 DEF CallCompleteSeal, Stages, Critical, NeedsEntry
    <2>. QED
        BY <1>7, <2>1, <2>2, <2>3, CallProceedKeeps DEF CallCompleteSeal, ControlInv, CallsTyped
<1>8. ASSUME NEW p \in Procs, DelegateToPublish(p) PROVE TypeInv'
    <2>1. FilesTyped'
        BY <1>8, <1>0 DEF DelegateToPublish, durable, FilesTyped
    <2>2. ControlInv'
        BY <1>8, <1>0, ReturnKeeps, ContinueKeeps
        DEF DelegateToPublish, Stages, Critical, Outcomes, NeedsEntry
    <2>. QED
        BY <2>1, <2>2
<1>9. ASSUME NEW p \in Procs, ProbeContent(p) PROVE TypeInv'
    <2>1. FilesTyped'
        BY <1>9, <1>0 DEF ProbeContent, durable, FilesTyped
    <2>2. ControlInv'
        BY <1>9, <1>0, ReturnKeeps, ContinueKeeps
        DEF ProbeContent, Stages, Critical, Outcomes, NeedsEntry
    <2>. QED
        BY <2>1, <2>2
<1>10. ASSUME NEW p \in Procs, ListCategory(p) PROVE TypeInv'
    <2>1. FilesTyped' /\ CallsTyped' /\ EntryReady' /\ LockInv' /\ BoundsTyped'
        BY <1>10 DEF ListCategory, ControlInv, FilesTyped, CallsTyped, EntryReady, LockInv,
                     BoundsTyped, durable, bounds
    <2>2. ScanTyped'
        BY <1>10 DEF ListCategory, ControlInv, ScanTyped
    <2>. QED
        BY <2>1, <2>2 DEF ControlInv
<1>11. ASSUME NEW p \in Procs, VisitBundle(p) PROVE TypeInv'
    <2>1. FilesTyped' /\ ScanTyped' /\ BoundsTyped'
        BY <1>11 DEF VisitBundle, ControlInv, FilesTyped, ScanTyped, BoundsTyped, durable, bounds
    <2>2. PICK a \in Artifacts :
              IF bundle[a] \in {"local", "external"}
              THEN /\ entry' = [entry EXCEPT ![p] = PublicationEntry(a, bundle[a])]
                   /\ pc' = [pc EXCEPT ![p] = "wait"]
              ELSE UNCHANGED <<entry, pc>>
        BY <1>11 DEF VisitBundle, Goto, ControlInv, ScanTyped
    <2>3. PublicationEntry(a, bundle[a]) \in Entries
        BY PublicationEntryType
    <2>4. UNCHANGED <<lock, call, outcome>>
        BY <1>11 DEF VisitBundle
    <2>5. CallsTyped'
        BY <2>2, <2>3, <2>4 DEF CallsTyped, ControlInv, Stages
    <2>6. EntryReady'
        BY <2>2, <2>3, <2>4 DEF EntryReady, NeedsEntry, ControlInv, CallsTyped
    <2>7. LockInv'
        BY <1>11, <2>2, <2>4 DEF VisitBundle, LockInv, Critical, ControlInv, CallsTyped
    <2>. QED
        BY <2>1, <2>5, <2>6, <2>7 DEF ControlInv
<1>12. ASSUME NEW p \in Procs, FinishScan(p) PROVE TypeInv'
    <2>1. FilesTyped'
        BY <1>12, <1>0 DEF FinishScan, durable, FilesTyped
    <2>2. ControlInv'
        BY <1>12, <1>0, ReturnKeeps, ContinueKeeps
        DEF FinishScan, Stages, Critical, Outcomes, NeedsEntry
    <2>. QED
        BY <2>1, <2>2
<1>13. ASSUME NEW p \in Procs, Acquire(p) PROVE TypeInv'
    <2>1. FilesTyped' /\ ScanTyped' /\ BoundsTyped'
        BY <1>13 DEF Acquire, ControlInv, FilesTyped, ScanTyped, BoundsTyped, durable, scanner, bounds
    <2>2. CallsTyped'
        BY <1>13 DEF Acquire, Goto, CallsTyped, ControlInv, Stages
    <2>3. EntryReady'
        BY <1>13 DEF Acquire, Goto, EntryReady, NeedsEntry, ControlInv, CallsTyped
    <2>4. LockInv'
        BY <1>13, StoreConstants DEF Acquire, Goto, LockInv, Critical, ControlInv, CallsTyped
    <2>. QED
        BY <2>1, <2>2, <2>3, <2>4 DEF ControlInv
<1>14. ASSUME NEW p \in Procs, GiveUp(p) PROVE TypeInv'
    <2>1. FilesTyped'
        BY <1>14, <1>0 DEF GiveUp, durable, FilesTyped
    <2>2. ControlInv'
        BY <1>14, <1>0, FailAppendKeeps, ContinueKeeps
        DEF GiveUp, Stages, Critical, Outcomes, NeedsEntry
    <2>. QED
        BY <2>1, <2>2
<1>15. ASSUME NEW p \in Procs, LockedPublish(p) PROVE TypeInv'
    <2>1. FilesTyped'
        BY <1>15, <1>0 DEF LockedPublish, durable, FilesTyped
    <2>2. ControlInv'
        BY <1>15, <1>0, ReturnKeeps, ContinueKeeps
        DEF LockedPublish, FirstWrite, Stages, Critical, Outcomes, NeedsEntry
    <2>. QED
        BY <2>1, <2>2
<1>16. ASSUME NEW p \in Procs, LockedRegisterExternal(p) PROVE TypeInv'
    <2>1. FilesTyped'
        BY <1>16, <1>0 DEF LockedRegisterExternal, durable, FilesTyped
    <2>2. ControlInv'
        BY <1>16, <1>0, ReturnKeeps, ContinueKeeps
        DEF LockedRegisterExternal, Stages, Critical, Outcomes, NeedsEntry
    <2>. QED
        BY <2>1, <2>2
<1>17. ASSUME NEW p \in Procs, LockedAppend(p) PROVE TypeInv'
    <2>1. FilesTyped'
        BY <1>17, <1>0 DEF LockedAppend, FilesTyped
    <2>2. ControlInv'
        BY <1>17, <1>0, FailAppendKeeps, ContinueKeeps
        DEF LockedAppend, Stages, Critical, Outcomes, NeedsEntry
    <2>. QED
        BY <2>1, <2>2
<1>18. ASSUME NEW p \in Procs, LockedSealAttempt(p) PROVE TypeInv'
    <2>1. FilesTyped'
        BY <1>18, <1>0 DEF LockedSealAttempt, durable, FilesTyped
    <2>2. ControlInv'
        BY <1>18, <1>0, ReturnKeeps, ContinueKeeps
        DEF LockedSealAttempt, Stages, Critical, Outcomes, NeedsEntry
    <2>. QED
        BY <2>1, <2>2
<1>19. ASSUME NEW p \in Procs, LockedCompleteSeal(p) PROVE TypeInv'
    <2>1. FilesTyped'
        BY <1>19, <1>0 DEF LockedCompleteSeal, durable, FilesTyped
    <2>2. ControlInv'
        BY <1>19, <1>0, ReturnKeeps, ContinueKeeps
        DEF LockedCompleteSeal, Stages, Critical, Outcomes, NeedsEntry
    <2>. QED
        BY <2>1, <2>2
<1>20. ASSUME NEW p \in Procs, CreateIntent(p) PROVE TypeInv'
    <2>1. FilesTyped'
        BY <1>20, <1>0 DEF CreateIntent, FilesTyped
    <2>2. ControlInv'
        BY <1>20, <1>0, ReturnKeeps, ContinueKeeps
        DEF CreateIntent, AfterIntent, Stages, Critical, Outcomes, NeedsEntry
    <2>. QED
        BY <2>1, <2>2
<1>21. ASSUME NEW p \in Procs, WriteIntent(p) PROVE TypeInv'
    <2>1. FilesTyped'
        BY <1>21, <1>0 DEF WriteIntent, FilesTyped
    <2>2. ControlInv'
        BY <1>21, <1>0, ReturnKeeps, ContinueKeeps
        DEF WriteIntent, AfterIntent, Stages, Critical, Outcomes, NeedsEntry
    <2>. QED
        BY <2>1, <2>2
<1>22. ASSUME NEW p \in Procs, RenameBundle(p) PROVE TypeInv'
    <2>1. FilesTyped'
        BY <1>22, <1>0 DEF RenameBundle, BundleKinds, FilesTyped
    <2>2. ControlInv'
        BY <1>22, <1>0, ReturnKeeps, ContinueKeeps
        DEF RenameBundle, Stages, Critical, Outcomes, NeedsEntry
    <2>. QED
        BY <2>1, <2>2
<1>23. ASSUME NEW p \in Procs, EnsureIndexed(p) PROVE TypeInv'
    <2>1. FilesTyped'
        BY <1>23 DEF EnsureIndexed, FilesTyped
    <2>2. CASE Return(p, "corrupt") \/ Continue(p, "appended")
        BY <1>23, <1>0, <2>1, <2>2, ReturnKeeps, ContinueKeeps
        DEF EnsureIndexed, Stages, Critical, Outcomes, NeedsEntry
    <2>3. CASE /\ entry' = [entry EXCEPT ![p] = NewEntry(call[p])]
               /\ Goto(p, "appending")
               /\ UNCHANGED <<lock, call, scanner, outcome, bounds>>
        <3>1. NewEntry(call[p]) \in Entries
            BY <1>0, PublicationEntryType DEF NewEntry
        <3>2. CallsTyped' /\ ScanTyped' /\ BoundsTyped'
            BY <2>3, <3>1 DEF ControlInv, CallsTyped, ScanTyped, BoundsTyped, Goto, Stages,
                              scanner, bounds
        <3>3. EntryReady'
            BY <2>3, <3>1 DEF ControlInv, CallsTyped, EntryReady, NeedsEntry, Goto
        <3>4. LockInv'
            BY <1>23, <2>3 DEF EnsureIndexed, ControlInv, CallsTyped, LockInv, Critical, Goto
        <3>. QED
            BY <2>1, <3>2, <3>3, <3>4 DEF ControlInv
    <2>. QED
        BY <1>23, <2>2, <2>3 DEF EnsureIndexed
<1>24. ASSUME NEW p \in Procs, FinishAppend(p) PROVE TypeInv'
    <2>1. entry[p] \in Entries
        BY <1>24, <1>0 DEF FinishAppend, NeedsEntry
    <2>2. FilesTyped'
        BY <1>24, <2>1, AppendProperties DEF FinishAppend, FilesTyped
    <2>3. ControlInv'
        BY <1>24, <2>1, ContinueKeeps DEF FinishAppend, Stages, Critical
    <2>. QED
        BY <2>2, <2>3
<1>25. ASSUME NEW p \in Procs, AfterAppend(p) PROVE TypeInv'
    <2>1. FilesTyped'
        BY <1>25 DEF AfterAppend, durable, FilesTyped
    <2>2. CASE \/ Continue(p, "mark_sealed")
               \/ Return(p, "sealed")
               \/ Return(p, "ok")
        BY <1>25, <1>0, <2>1, <2>2, ReturnKeeps, ContinueKeeps
        DEF AfterAppend, Stages, Critical, Outcomes, NeedsEntry
    <2>3. CASE /\ call[p].op = "reconcile_orphans"
               /\ seen' = [seen EXCEPT ![p] = @ \cup {entry[p].id}]
               /\ ResumeScan(p)
        <3>1. entry[p].id \in Artifacts
            BY <1>25, <1>0, <2>3 DEF AfterAppend, NeedsEntry, Entries
        <3>2. ScanTyped'
            BY <2>3, <3>1 DEF ControlInv, ScanTyped, ResumeScan
        <3>. QED
            BY <2>1, <2>3, <3>2, ReleaseKeeps DEF ResumeScan
    <2>4. CASE /\ Release(p) /\ Goto(p, "reread")
               /\ UNCHANGED <<call, entry, scanner, outcome, bounds>>
        <3>1. ScanTyped'
            BY <2>4 DEF ControlInv, ScanTyped, scanner
        <3>. QED
            BY <2>1, <2>4, <3>1, ReleaseKeeps
    <2>. QED
        BY <1>25, <2>1, <2>2, <2>3, <2>4 DEF AfterAppend
<1>26. ASSUME NEW p \in Procs, RereadRecord(p) PROVE TypeInv'
    <2>1. FilesTyped'
        BY <1>26, <1>0 DEF RereadRecord, durable, FilesTyped
    <2>2. ControlInv'
        BY <1>26, <1>0, ReturnKeeps, ContinueKeeps
        DEF RereadRecord, Stages, Critical, Outcomes, NeedsEntry
    <2>. QED
        BY <2>1, <2>2
<1>27. ASSUME NEW p \in Procs, MarkSealed(p) PROVE TypeInv'
    <2>1. FilesTyped'
        BY <1>27, <1>0 DEF MarkSealed, FilesTyped
    <2>2. ControlInv'
        BY <1>27, <1>0, ReturnKeeps, ContinueKeeps
        DEF MarkSealed, Stages, Critical, Outcomes, NeedsEntry
    <2>. QED
        BY <2>1, <2>2
<1>28. ASSUME NEW p \in Procs, RemoveIntent(p) PROVE TypeInv'
    <2>1. FilesTyped'
        BY <1>28, <1>0 DEF RemoveIntent, FilesTyped
    <2>2. ControlInv'
        BY <1>28, <1>0, ReturnKeeps, ContinueKeeps
        DEF RemoveIntent, Stages, Critical, Outcomes, NeedsEntry
    <2>. QED
        BY <2>1, <2>2
<1>29. ASSUME NEW p \in Procs, Abort(p) PROVE TypeInv'
    <2>1. FilesTyped' /\ ScanTyped'
        BY <1>29 DEF Abort, durable, FilesTyped, ControlInv, ScanTyped, ForgetScan
    <2>2. CallsTyped'
        BY <1>29 DEF Abort, ControlInv, CallsTyped, Goto, Release, Stages, Outcomes
    <2>3. BoundsTyped'
        BY <1>29 DEF Abort, ControlInv, BoundsTyped
    <2>4. EntryReady'
        BY <1>29 DEF Abort, ControlInv, CallsTyped, EntryReady, NeedsEntry, Goto
    <2>5. LockInv'
        BY <1>29, StoreConstants DEF Abort, ControlInv, CallsTyped, LockInv, Critical, Goto, Release
    <2>. QED
        BY <2>1, <2>2, <2>3, <2>4, <2>5 DEF ControlInv
<1>30. CASE LoseContent
    <2>1. FilesTyped'
        BY <1>30 DEF LoseContent, FilesTyped, BundleKinds
    <2>2. CallsTyped' /\ ScanTyped' /\ EntryReady' /\ LockInv'
        BY <1>30 DEF LoseContent, ControlInv, CallsTyped, ScanTyped, EntryReady, LockInv, scanner
    <2>3. BoundsTyped'
        BY <1>30 DEF LoseContent, ControlInv, BoundsTyped
    <2>. QED
        BY <2>1, <2>2, <2>3 DEF ControlInv
<1>31. CASE UNCHANGED vars
    BY <1>31 DEF vars, durable, scanner, bounds, FilesTyped, ControlInv, CallsTyped, ScanTyped,
                BoundsTyped, EntryReady, LockInv
<1>. QED
    BY <1>1, <1>2, <1>3, <1>4, <1>5, <1>6, <1>7, <1>8, <1>9, <1>10, <1>11, <1>12,
       <1>13, <1>14, <1>15, <1>16, <1>17, <1>18, <1>19, <1>20, <1>21, <1>22, <1>23, <1>24,
       <1>25, <1>26, <1>27, <1>28, <1>29, <1>30, <1>31
    DEF Next, Call, Step

(* Whatever the instance, the values of the variables are of their types.   *)
THEOREM Typing == Spec => []TypeOK
<1>. QED
    BY TypeInit, TypeStep, TypeInvImpliesTypeOK, PTL DEF Spec

-----------------------------------------------------------------------------
(* A sealed inventory is final.  The property is not inductive: a call that *)
(* is past its check of the markers could still write after the seal.  It   *)
(* cannot, because whoever seals holds the lock, so no other call is        *)
(* between its check under the lock and its last write.                     *)

(* A stage from which a call may reach a write without checking "sealed".   *)
QuietAt(stage, op) ==
    /\ stage \notin {"rename", "index", "appending"}
    /\ stage \in {"intent", "intent_write"} => op = "complete_seal"

SealQuiet == sealed => \A p \in Procs : QuietAt(pc[p], call[p].op)

LEMMA QuietInit == Init => SealQuiet
BY DEF Init, SealQuiet

LEMMA QuietFrame ==
    ASSUME SealQuiet, NEW p \in Procs, UNCHANGED sealed,
           \A q \in Procs \ {p} : pc'[q] = pc[q] /\ call'[q] = call[q],
           sealed => QuietAt(pc'[p], call'[p].op)
    PROVE  SealQuiet'
BY DEF SealQuiet

LEMMA QuietReturn ==
    ASSUME TypeInv, SealQuiet, NEW p \in Procs, NEW result, Return(p, result),
           UNCHANGED sealed
    PROVE  SealQuiet'
<1>1. pc' = [pc EXCEPT ![p] = "idle"] /\ UNCHANGED call /\ pc \in [Procs -> Stages]
    BY DEF Return, Goto, TypeInv, ControlInv, CallsTyped
<1>2. QuietAt("idle", call[p].op)
    BY DEF QuietAt
<1>. QED
    BY <1>1, <1>2, QuietFrame

LEMMA QuietFailAppend ==
    ASSUME TypeInv, SealQuiet, NEW p \in Procs, NEW result, FailAppend(p, result),
           UNCHANGED sealed
    PROVE  SealQuiet'
<1>1. CASE Return(p, result)
    BY <1>1, QuietReturn
<1>2. CASE ResumeScan(p)
    <2>1. pc' = [pc EXCEPT ![p] = "scan"] /\ UNCHANGED call /\ pc \in [Procs -> Stages]
        BY <1>2 DEF ResumeScan, Goto, TypeInv, ControlInv, CallsTyped
    <2>2. QuietAt("scan", call[p].op)
        BY DEF QuietAt
    <2>. QED
        BY <2>1, <2>2, QuietFrame
<1>. QED
    BY <1>1, <1>2 DEF FailAppend

LEMMA QuietContinue ==
    ASSUME TypeInv, SealQuiet, NEW p \in Procs, NEW stage, Continue(p, stage),
           UNCHANGED sealed, sealed => QuietAt(stage, call[p].op)
    PROVE  SealQuiet'
<1>1. pc' = [pc EXCEPT ![p] = stage] /\ UNCHANGED call /\ pc \in [Procs -> Stages]
    BY DEF Continue, Goto, TypeInv, ControlInv, CallsTyped
<1>. QED
    BY <1>1, QuietFrame

(* No stage a call starts in is disturbed by the seal.                      *)
LEMMA QuietIssue ==
    ASSUME TypeInv, SealQuiet, NEW p \in Procs, NEW c \in Menu[p], Issue(p, c),
           \/ \E result \in Outcomes : Refuse(p, result)
           \/ \E stage \in {"precheck", "probe", "scan", "wait"} : Proceed(p, stage)
    PROVE  SealQuiet'
<1>1. pc \in [Procs -> Stages] /\ call \in [Procs -> Calls] /\ pc[p] = "idle"
    BY DEF TypeInv, ControlInv, CallsTyped, Issue
<1>2. call' = [call EXCEPT ![p] = c] /\ UNCHANGED sealed
    BY DEF Issue, durable
<1>3. \/ pc' = pc
      \/ \E stage \in {"precheck", "probe", "scan", "wait"} : pc' = [pc EXCEPT ![p] = stage]
    BY DEF Refuse, Proceed, Goto
<1>4. QuietAt(pc'[p], c.op)
    BY <1>1, <1>3 DEF QuietAt
<1>. QED
    BY <1>1, <1>2, <1>3, <1>4, QuietFrame

LEMMA QuietStep == TypeInv /\ SealQuiet /\ [Next]_vars => SealQuiet'
<1> SUFFICES ASSUME TypeInv, SealQuiet, [Next]_vars PROVE SealQuiet'
    OBVIOUS
<1>0. pc \in [Procs -> Stages] /\ call \in [Procs -> Calls]
    BY DEF TypeInv, ControlInv, CallsTyped
<1>1. ASSUME NEW p \in Procs, NEW c \in Menu[p], CallPublish(p, c) PROVE SealQuiet'
    BY <1>1, QuietIssue DEF CallPublish, Outcomes
<1>2. ASSUME NEW p \in Procs, NEW c \in Menu[p], CallRegisterExisting(p, c) PROVE SealQuiet'
    BY <1>2, QuietIssue DEF CallRegisterExisting, Outcomes
<1>3. ASSUME NEW p \in Procs, NEW c \in Menu[p], CallRegisterExternal(p, c) PROVE SealQuiet'
    BY <1>3, QuietIssue DEF CallRegisterExternal, Outcomes
<1>4. ASSUME NEW p \in Procs, NEW c \in Menu[p], CallUpdateRetention(p, c) PROVE SealQuiet'
    BY <1>4, QuietIssue DEF CallUpdateRetention, Outcomes
<1>5. ASSUME NEW p \in Procs, NEW c \in Menu[p], CallReconcile(p, c) PROVE SealQuiet'
    BY <1>5, QuietIssue DEF CallReconcile, Outcomes
<1>6. ASSUME NEW p \in Procs, NEW c \in Menu[p], CallSealAttempt(p, c) PROVE SealQuiet'
    BY <1>6, QuietIssue DEF CallSealAttempt, Outcomes
<1>7. ASSUME NEW p \in Procs, NEW c \in Menu[p], CallCompleteSeal(p, c) PROVE SealQuiet'
    BY <1>7, QuietIssue DEF CallCompleteSeal, Outcomes
<1>8. ASSUME NEW p \in Procs, DelegateToPublish(p) PROVE SealQuiet'
    BY <1>8, QuietReturn, QuietContinue DEF DelegateToPublish, QuietAt, durable
<1>9. ASSUME NEW p \in Procs, ProbeContent(p) PROVE SealQuiet'
    BY <1>9, QuietReturn, QuietContinue DEF ProbeContent, QuietAt, durable
<1>10. ASSUME NEW p \in Procs, FinishScan(p) PROVE SealQuiet'
    BY <1>10, QuietReturn, QuietContinue DEF FinishScan, QuietAt, durable
<1>11. ASSUME NEW p \in Procs, GiveUp(p) PROVE SealQuiet'
    BY <1>11, QuietFailAppend DEF GiveUp, QuietAt, durable
<1>12. ASSUME NEW p \in Procs, LockedPublish(p) PROVE SealQuiet'
    BY <1>12, QuietReturn, QuietContinue DEF LockedPublish, QuietAt, durable, PublishRefused
<1>13. ASSUME NEW p \in Procs, LockedRegisterExternal(p) PROVE SealQuiet'
    BY <1>13, QuietReturn, QuietContinue DEF LockedRegisterExternal, QuietAt, durable, SealedOrSealing
<1>14. ASSUME NEW p \in Procs, LockedAppend(p) PROVE SealQuiet'
    BY <1>14, QuietFailAppend, QuietContinue DEF LockedAppend, QuietAt, AppendRefused, SealedOrSealing
<1>15. ASSUME NEW p \in Procs, LockedSealAttempt(p) PROVE SealQuiet'
    BY <1>15, QuietReturn, QuietContinue DEF LockedSealAttempt, QuietAt, durable
<1>16. ASSUME NEW p \in Procs, LockedCompleteSeal(p) PROVE SealQuiet'
    BY <1>16, QuietReturn, QuietContinue DEF LockedCompleteSeal, QuietAt, durable
<1>17. ASSUME NEW p \in Procs, CreateIntent(p) PROVE SealQuiet'
    BY <1>17, QuietReturn, QuietContinue DEF CreateIntent, QuietAt, AfterIntent, SealQuiet
<1>18. ASSUME NEW p \in Procs, WriteIntent(p) PROVE SealQuiet'
    BY <1>18, QuietReturn, QuietContinue DEF WriteIntent, QuietAt, AfterIntent, SealQuiet
<1>19. ASSUME NEW p \in Procs, RenameBundle(p) PROVE SealQuiet'
    BY <1>19, QuietReturn, QuietContinue DEF RenameBundle, QuietAt, SealQuiet
<1>20. ASSUME NEW p \in Procs, FinishAppend(p) PROVE SealQuiet'
    BY <1>20, QuietReturn, QuietContinue DEF FinishAppend, QuietAt, SealQuiet
<1>21. ASSUME NEW p \in Procs, RereadRecord(p) PROVE SealQuiet'
    BY <1>21, QuietReturn, QuietContinue DEF RereadRecord, QuietAt, durable
<1>22. ASSUME NEW p \in Procs, RemoveIntent(p) PROVE SealQuiet'
    BY <1>22, QuietReturn, QuietContinue DEF RemoveIntent, QuietAt
<1>23. ASSUME NEW p \in Procs, ListCategory(p) PROVE SealQuiet'
    BY <1>0, <1>23, QuietFrame DEF ListCategory, SealQuiet, QuietAt, durable
<1>24. ASSUME NEW p \in Procs, VisitBundle(p) PROVE SealQuiet'
    BY <1>0, <1>24, QuietFrame DEF VisitBundle, SealQuiet, QuietAt, durable, Goto
<1>25. ASSUME NEW p \in Procs, Acquire(p) PROVE SealQuiet'
    BY <1>0, <1>25, QuietFrame DEF Acquire, SealQuiet, QuietAt, durable, Goto
<1>26. ASSUME NEW p \in Procs, EnsureIndexed(p) PROVE SealQuiet'
    <2>1. ~sealed
        BY <1>26 DEF EnsureIndexed, SealQuiet, QuietAt
    <2>. QED
        BY <1>26, <2>1 DEF EnsureIndexed, SealQuiet
<1>27. ASSUME NEW p \in Procs, AfterAppend(p) PROVE SealQuiet'
    <2>1. UNCHANGED sealed
        BY <1>27 DEF AfterAppend, durable
    <2>2. CASE \E result \in {"sealed", "ok"} : Return(p, result)
        BY <2>1, <2>2, QuietReturn
    <2>3. CASE Continue(p, "mark_sealed")
        BY <2>1, <2>3, QuietContinue DEF QuietAt
    <2>4. CASE \E stage \in {"scan", "reread"} : Goto(p, stage) /\ UNCHANGED call
        BY <1>0, <2>1, <2>4, QuietFrame DEF Goto, QuietAt
    <2>. QED
        BY <1>27, <2>2, <2>3, <2>4 DEF AfterAppend, ResumeScan
<1>28. ASSUME NEW p \in Procs, Abort(p) PROVE SealQuiet'
    BY <1>0, <1>28, QuietFrame DEF Abort, SealQuiet, QuietAt, durable, Goto
<1>29. ASSUME NEW p \in Procs, MarkSealed(p) PROVE SealQuiet'
    <2>1. \A q \in Procs \ {p} : pc[q] \notin Critical /\ pc'[q] = pc[q] /\ call'[q] = call[q]
        BY <1>29, <1>0 DEF MarkSealed, TypeInv, ControlInv, LockInv, Critical,
                          Return, Continue, Goto
    <2>2. pc'[p] \in {"idle", "unmark"}
        BY <1>29, <1>0 DEF MarkSealed, Return, Continue, Goto
    <2>. QED
        BY <2>1, <2>2 DEF SealQuiet, QuietAt, Critical
<1>30. CASE LoseContent
    BY <1>30 DEF LoseContent, SealQuiet
<1>31. CASE UNCHANGED vars
    BY <1>31 DEF vars, durable, SealQuiet
<1>. QED
    BY <1>1, <1>2, <1>3, <1>4, <1>5, <1>6, <1>7, <1>8, <1>9, <1>10, <1>11, <1>12,
       <1>13, <1>14, <1>15, <1>16, <1>17, <1>18, <1>19, <1>20, <1>21, <1>22, <1>23, <1>24,
       <1>25, <1>26, <1>27, <1>28, <1>29, <1>30, <1>31
    DEF Next, Call, Step

(* The step formula of SealFreezesInventory.                                *)
Frozen ==
    sealed => UNCHANGED <<registry, torn>> /\ (losses' = losses => UNCHANGED bundle)

LEMMA FrozenStep == TypeInv /\ SealQuiet /\ [Next]_vars => Frozen
<1> SUFFICES ASSUME TypeInv, SealQuiet, [Next]_vars, sealed PROVE Frozen
    BY DEF Frozen
<1>1. \A p \in Procs : pc[p] \notin {"rename", "index", "appending"}
    BY DEF SealQuiet, QuietAt
<1>2. ASSUME NEW p \in Procs, Call(p) PROVE Frozen
    BY <1>2 DEF Call, CallPublish, CallRegisterExisting, CallRegisterExternal,
                CallUpdateRetention, CallReconcile, CallSealAttempt, CallCompleteSeal,
                Issue, durable, Frozen
<1>3. ASSUME NEW p \in Procs, Step(p) PROVE Frozen
    <2>1. CASE RenameBundle(p) \/ EnsureIndexed(p) \/ FinishAppend(p)
        BY <1>1, <2>1 DEF RenameBundle, EnsureIndexed, FinishAppend
    <2>2. CASE LockedAppend(p)
        BY <2>2 DEF LockedAppend, AppendRefused, SealedOrSealing, Frozen
    <2>3. CASE \/ DelegateToPublish(p) \/ ProbeContent(p) \/ ListCategory(p)
               \/ VisitBundle(p) \/ FinishScan(p) \/ Acquire(p) \/ GiveUp(p)
        BY <2>3 DEF DelegateToPublish, ProbeContent, ListCategory, VisitBundle, FinishScan,
                    Acquire, GiveUp, durable, Frozen
    <2>4. CASE \/ LockedPublish(p) \/ LockedRegisterExternal(p) \/ LockedSealAttempt(p)
               \/ LockedCompleteSeal(p) \/ CreateIntent(p) \/ WriteIntent(p)
        BY <2>4 DEF LockedPublish, LockedRegisterExternal, LockedSealAttempt,
                    LockedCompleteSeal, CreateIntent, WriteIntent, durable, Frozen
    <2>5. CASE AfterAppend(p) \/ RereadRecord(p) \/ MarkSealed(p) \/ RemoveIntent(p)
        BY <2>5 DEF AfterAppend, RereadRecord, MarkSealed, RemoveIntent, durable, Frozen
    <2>. QED
        BY <1>3, <2>1, <2>2, <2>3, <2>4, <2>5 DEF Step
<1>4. ASSUME NEW p \in Procs, Abort(p) PROVE Frozen
    BY <1>4 DEF Abort, durable, Frozen
<1>5. CASE LoseContent
    <2>1. losses' # losses
        BY <1>5 DEF LoseContent, TypeInv, ControlInv, BoundsTyped
    <2>. QED
        BY <1>5, <2>1 DEF LoseContent, Frozen
<1>6. CASE UNCHANGED vars
    BY <1>6 DEF vars, durable, Frozen
<1>. QED
    BY <1>2, <1>3, <1>4, <1>5, <1>6 DEF Next

(* Once the "sealed" marker exists, no step changes the registry, and the   *)
(* bundles change only when something outside the store removes one.        *)
THEOREM SealIsFinal == Spec => SealFreezesInventory
<1>1. TypeInv /\ SealQuiet /\ [Next]_vars => [Frozen]_vars
    BY FrozenStep
<1>. QED
    BY <1>1, TypeInit, TypeStep, QuietInit, QuietStep, PTL
    DEF Spec, SealFreezesInventory, Frozen
-----------------------------------------------------------------------------
(* The registry is a valid history.  A call replays the history with its    *)
(* new entry under the lock and then writes the line; between the two the   *)
(* registry cannot change, because only a call that holds the lock changes  *)
(* it.                                                                      *)

AppendReady == \A p \in Procs : pc[p] = "appending" => HistoryAccepts(registry, entry[p])

HistoryInv == HistoryIsValid /\ AppendReady

LEMMA HistoryInit == Init => HistoryInv
BY DEF Init, HistoryInv, HistoryIsValid, AppendReady

LEMMA HistoryFrame ==
    ASSUME HistoryInv, NEW p \in Procs, UNCHANGED registry,
           \A q \in Procs \ {p} : pc'[q] = pc[q] /\ entry'[q] = entry[q],
           pc'[p] = "appending" => HistoryAccepts(registry, entry'[p])
    PROVE  HistoryInv'
BY DEF HistoryInv, HistoryIsValid, AppendReady

LEMMA HistoryReturn ==
    ASSUME TypeInv, HistoryInv, NEW p \in Procs, NEW result, Return(p, result),
           UNCHANGED registry
    PROVE  HistoryInv'
<1>1. /\ pc' = [pc EXCEPT ![p] = "idle"] /\ entry' = [entry EXCEPT ![p] = NoEntry]
      /\ pc \in [Procs -> Stages] /\ entry \in [Procs -> Entries \cup {NoEntry}]
    BY DEF Return, Goto, TypeInv, ControlInv, CallsTyped
<1>. QED
    BY <1>1, HistoryFrame

LEMMA HistoryFailAppend ==
    ASSUME TypeInv, HistoryInv, NEW p \in Procs, NEW result, FailAppend(p, result),
           UNCHANGED registry
    PROVE  HistoryInv'
<1>1. CASE Return(p, result)
    BY <1>1, HistoryReturn
<1>2. CASE ResumeScan(p)
    <2>1. /\ pc' = [pc EXCEPT ![p] = "scan"] /\ entry' = [entry EXCEPT ![p] = NoEntry]
          /\ pc \in [Procs -> Stages] /\ entry \in [Procs -> Entries \cup {NoEntry}]
        BY <1>2 DEF ResumeScan, Goto, TypeInv, ControlInv, CallsTyped
    <2>. QED
        BY <2>1, HistoryFrame
<1>. QED
    BY <1>1, <1>2 DEF FailAppend

LEMMA HistoryContinue ==
    ASSUME TypeInv, HistoryInv, NEW p \in Procs, NEW stage, Continue(p, stage),
           UNCHANGED registry,
           stage = "appending" => HistoryAccepts(registry, entry[p])
    PROVE  HistoryInv'
<1>1. pc' = [pc EXCEPT ![p] = stage] /\ UNCHANGED entry /\ pc \in [Procs -> Stages]
    BY DEF Continue, Goto, TypeInv, ControlInv, CallsTyped
<1>. QED
    BY <1>1, HistoryFrame

LEMMA HistoryIssue ==
    ASSUME TypeInv, HistoryInv, NEW p \in Procs, NEW c \in Menu[p], Issue(p, c),
           \/ \E result \in Outcomes : Refuse(p, result)
           \/ \E stage \in {"precheck", "probe", "scan", "wait"} : Proceed(p, stage),
           \A q \in Procs \ {p} : entry'[q] = entry[q]
    PROVE  HistoryInv'
<1>1. pc \in [Procs -> Stages] /\ pc[p] = "idle" /\ UNCHANGED registry
    BY DEF TypeInv, ControlInv, CallsTyped, Issue, durable
<1>2. \/ pc' = pc
      \/ \E stage \in {"precheck", "probe", "scan", "wait"} : pc' = [pc EXCEPT ![p] = stage]
    BY DEF Refuse, Proceed, Goto
<1>. QED
    BY <1>1, <1>2, HistoryFrame

(* A publication of an artifact that is not indexed continues any history.  *)
LEMMA PublicationAccepted ==
    ASSUME NEW a \in Artifacts, NEW kind, a \notin Indexed(registry)
    PROVE  HistoryAccepts(registry, PublicationEntry(a, kind))
BY DEF HistoryAccepts, PublicationEntry

LEMMA HistoryGrows ==
    ASSUME FilesTyped, HistoryIsValid, NEW e \in Entries, HistoryAccepts(registry, e),
           registry' = Append(registry, e)
    PROVE  HistoryIsValid'
<1> DEFINE n == Len(registry)
<1>1. n \in Nat /\ DOMAIN registry = 1 .. n /\ registry \in Seq(Entries)
    BY LenProperties DEF FilesTyped
<1>2. /\ registry' \in Seq(Entries) /\ Len(registry') = n + 1
      /\ \A i \in 1 .. n : registry'[i] = registry[i]
      /\ registry'[n + 1] = e
    BY <1>1, AppendProperties
<1>3. DOMAIN registry' = 1 .. n + 1
    BY <1>2, LenProperties
<1>4. ASSUME NEW i \in 1 .. n + 1
      PROVE  SubSeq(registry', 1, i - 1) = SubSeq(registry, 1, i - 1)
    <2>1. i - 1 \in 0 .. n
        BY <1>1
    <2> DEFINE m == i - 1
    <2>2. /\ \A j \in 1 .. m : registry[j] \in Entries
          /\ \A j \in 1 .. m : registry'[j] \in Entries /\ registry'[j] = registry[j]
        BY <1>1, <1>2, <2>1, ElementOfSeq
    <2>3. m \in Int /\ 1 \in Int /\ \A j \in 1 .. m - 1 + 1 : 1 + j - 1 = j /\ j \in 1 .. m
        BY <2>1
    <2>4. /\ SubSeq(registry, 1, m) \in Seq(Entries)
          /\ Len(SubSeq(registry, 1, m)) = IF 1 <= m THEN m - 1 + 1 ELSE 0
          /\ \A j \in 1 .. m - 1 + 1 : SubSeq(registry, 1, m)[j] = registry[1 + j - 1]
        BY <2>2, <2>3, SubSeqProperties
    <2>5. /\ SubSeq(registry', 1, m) \in Seq(Entries)
          /\ Len(SubSeq(registry', 1, m)) = IF 1 <= m THEN m - 1 + 1 ELSE 0
          /\ \A j \in 1 .. m - 1 + 1 : SubSeq(registry', 1, m)[j] = registry'[1 + j - 1]
        BY <2>2, <2>3, SubSeqProperties
    <2>6. /\ Len(SubSeq(registry, 1, m)) = m /\ Len(SubSeq(registry', 1, m)) = m
          /\ \A j \in 1 .. m : SubSeq(registry, 1, m)[j] = SubSeq(registry', 1, m)[j]
        BY <2>1, <2>2, <2>3, <2>4, <2>5
    <2> HIDE DEF m
    <2>7. SubSeq(registry', 1, m) = SubSeq(registry, 1, m)
        BY <2>4, <2>5, <2>6, SeqEqual
    <2>. QED
        BY <2>7 DEF m
<1>5. SubSeq(registry, 1, n) = registry
    BY <1>1, SubSeqFull
<1>6. ASSUME NEW i \in 1 .. n + 1
      PROVE  HistoryAccepts(SubSeq(registry', 1, i - 1), registry'[i])
    <2>1. CASE i \in 1 .. n
        BY <1>1, <1>2, <1>4, <2>1 DEF HistoryIsValid
    <2>2. CASE i = n + 1
        <3>1. i - 1 = n
            BY <1>1, <2>2
        <3>. QED
            BY <1>2, <1>4, <1>5, <2>2, <3>1
    <2>. QED
        BY <1>1, <2>1, <2>2
<1>. QED
    BY <1>3, <1>6 DEF HistoryIsValid

LEMMA HistoryStep == TypeInv /\ HistoryInv /\ [Next]_vars => HistoryInv'
<1> SUFFICES ASSUME TypeInv, HistoryInv, [Next]_vars PROVE HistoryInv'
    OBVIOUS
<1>0. /\ pc \in [Procs -> Stages] /\ entry \in [Procs -> Entries \cup {NoEntry}]
      /\ call \in [Procs -> Calls]
    BY DEF TypeInv, ControlInv, CallsTyped
<1>1. ASSUME NEW p \in Procs, NEW c \in Menu[p], CallPublish(p, c) PROVE HistoryInv'
    BY <1>1, HistoryIssue DEF CallPublish, Outcomes
<1>2. ASSUME NEW p \in Procs, NEW c \in Menu[p], CallRegisterExisting(p, c) PROVE HistoryInv'
    BY <1>2, HistoryIssue DEF CallRegisterExisting, Outcomes
<1>3. ASSUME NEW p \in Procs, NEW c \in Menu[p], CallRegisterExternal(p, c) PROVE HistoryInv'
    BY <1>3, HistoryIssue DEF CallRegisterExternal, Outcomes
<1>4. ASSUME NEW p \in Procs, NEW c \in Menu[p], CallUpdateRetention(p, c) PROVE HistoryInv'
    <2>1. \A q \in Procs \ {p} : entry'[q] = entry[q]
        BY <1>0, <1>4 DEF CallUpdateRetention
    <2>2. Issue(p, c) /\ ( \/ \E result \in Outcomes : Refuse(p, result)
                           \/ \E stage \in {"precheck", "probe", "scan", "wait"} : Proceed(p, stage))
        BY <1>4 DEF CallUpdateRetention, Outcomes
    <2>. QED
        BY <2>1, <2>2, HistoryIssue
<1>5. ASSUME NEW p \in Procs, NEW c \in Menu[p], CallReconcile(p, c) PROVE HistoryInv'
    BY <1>5, HistoryIssue DEF CallReconcile, Outcomes
<1>6. ASSUME NEW p \in Procs, NEW c \in Menu[p], CallSealAttempt(p, c) PROVE HistoryInv'
    BY <1>6, HistoryIssue DEF CallSealAttempt, Outcomes
<1>7. ASSUME NEW p \in Procs, NEW c \in Menu[p], CallCompleteSeal(p, c) PROVE HistoryInv'
    BY <1>7, HistoryIssue DEF CallCompleteSeal, Outcomes
<1>8. ASSUME NEW p \in Procs,
             DelegateToPublish(p) \/ ProbeContent(p) \/ FinishScan(p) \/ RereadRecord(p)
      PROVE  HistoryInv'
    BY <1>8, HistoryReturn, HistoryContinue
    DEF DelegateToPublish, ProbeContent, FinishScan, RereadRecord, durable
<1>9. ASSUME NEW p \in Procs, GiveUp(p) PROVE HistoryInv'
    BY <1>9, HistoryFailAppend DEF GiveUp, durable
<1>10. ASSUME NEW p \in Procs,
              \/ LockedPublish(p) \/ LockedRegisterExternal(p)
              \/ LockedSealAttempt(p) \/ LockedCompleteSeal(p)
       PROVE  HistoryInv'
    BY <1>10, HistoryReturn, HistoryContinue
    DEF LockedPublish, LockedRegisterExternal, LockedSealAttempt, LockedCompleteSeal,
        FirstWrite, durable
<1>11. ASSUME NEW p \in Procs, LockedAppend(p) PROVE HistoryInv'
    BY <1>11, HistoryFailAppend, HistoryContinue DEF LockedAppend, Replays
<1>12. ASSUME NEW p \in Procs,
              CreateIntent(p) \/ WriteIntent(p) \/ RenameBundle(p) \/ MarkSealed(p) \/ RemoveIntent(p)
       PROVE  HistoryInv'
    BY <1>12, HistoryReturn, HistoryContinue
    DEF CreateIntent, WriteIntent, RenameBundle, MarkSealed, RemoveIntent, AfterIntent
<1>13. ASSUME NEW p \in Procs, ListCategory(p) PROVE HistoryInv'
    BY <1>13, HistoryFrame DEF ListCategory, durable, HistoryInv, AppendReady
<1>14. ASSUME NEW p \in Procs, VisitBundle(p) PROVE HistoryInv'
    <2>1. /\ UNCHANGED registry /\ pc[p] = "scan" /\ pc'[p] # "appending"
          /\ \A q \in Procs \ {p} : pc'[q] = pc[q] /\ entry'[q] = entry[q]
        BY <1>0, <1>14 DEF VisitBundle, durable, Goto
    <2>. QED
        BY <2>1, HistoryFrame
<1>15. ASSUME NEW p \in Procs, Acquire(p) \/ Abort(p) PROVE HistoryInv'
    BY <1>0, <1>15, HistoryFrame DEF Acquire, Abort, durable, Goto
<1>16. ASSUME NEW p \in Procs, EnsureIndexed(p) PROVE HistoryInv'
    <2>1. CASE Return(p, "corrupt") \/ Continue(p, "appended")
        BY <1>16, <2>1, HistoryReturn, HistoryContinue DEF EnsureIndexed
    <2>2. CASE /\ ~IsIndexed(call[p].id)
               /\ entry' = [entry EXCEPT ![p] = NewEntry(call[p])]
               /\ Goto(p, "appending")
        <3>1. call[p].id \in Artifacts
            BY <1>0 DEF Calls
        <3>2. HistoryAccepts(registry, NewEntry(call[p]))
            BY <2>2, <3>1, PublicationAccepted DEF IsIndexed, NewEntry
        <3>3. UNCHANGED registry
            BY <1>16 DEF EnsureIndexed
        <3>. QED
            BY <1>0, <2>2, <3>2, <3>3, HistoryFrame DEF Goto
    <2>. QED
        BY <1>16, <2>1, <2>2 DEF EnsureIndexed
<1>17. ASSUME NEW p \in Procs, FinishAppend(p) PROVE HistoryInv'
    <2>1. /\ pc[p] = "appending" /\ registry' = Append(registry, entry[p])
          /\ pc' = [pc EXCEPT ![p] = "appended"] /\ UNCHANGED entry
        BY <1>17 DEF FinishAppend, Continue, Goto
    <2>2. entry[p] \in Entries /\ HistoryAccepts(registry, entry[p])
        BY <2>1 DEF TypeInv, ControlInv, EntryReady, NeedsEntry, HistoryInv, AppendReady
    <2>3. HistoryIsValid'
        BY <2>1, <2>2, HistoryGrows DEF TypeInv, HistoryInv
    <2>4. \A q \in Procs : pc'[q] # "appending"
        BY <1>0, <2>1 DEF TypeInv, ControlInv, LockInv, Critical
    <2>. QED
        BY <2>3, <2>4 DEF HistoryInv, AppendReady
<1>18. ASSUME NEW p \in Procs, AfterAppend(p) PROVE HistoryInv'
    <2>1. UNCHANGED registry
        BY <1>18 DEF AfterAppend, durable
    <2>2. CASE \E result \in {"sealed", "ok"} : Return(p, result)
        BY <2>1, <2>2, HistoryReturn
    <2>3. CASE Continue(p, "mark_sealed")
        BY <2>1, <2>3, HistoryContinue
    <2>4. CASE ResumeScan(p)
        BY <1>0, <2>1, <2>4, HistoryFrame DEF ResumeScan, Goto
    <2>5. CASE Goto(p, "reread") /\ UNCHANGED entry
        BY <1>0, <2>1, <2>5, HistoryFrame DEF Goto
    <2>. QED
        BY <1>18, <2>2, <2>3, <2>4, <2>5 DEF AfterAppend
<1>19. CASE LoseContent
    BY <1>19 DEF LoseContent, HistoryInv, HistoryIsValid, AppendReady
<1>20. CASE UNCHANGED vars
    BY <1>20 DEF vars, durable, HistoryInv, HistoryIsValid, AppendReady
<1>. QED
    BY <1>1, <1>2, <1>3, <1>4, <1>5, <1>6, <1>7, <1>8, <1>9, <1>10, <1>11, <1>12, <1>13,
       <1>14, <1>15, <1>16, <1>17, <1>18, <1>19, <1>20
    DEF Next, Call, Step

(* No interleaving of checks, waits, crashes and appends makes the registry *)
(* one that a scan rejects.                                                 *)
THEOREM HistoryStaysValid == Spec => []HistoryIsValid
<1>1. HistoryInv => HistoryIsValid
    BY DEF HistoryInv
<1>. QED
    BY <1>1, TypeInit, TypeStep, HistoryInit, HistoryStep, PTL DEF Spec

-----------------------------------------------------------------------------
(* The chain of retention states.  The state of an artifact is that of its  *)
(* last transition, or of its first entry when there is none; only a line   *)
(* that the history accepted is appended, whatever was checked before.      *)

(* A set of naturals that is not empty has a least member.                  *)
LEMMA Least ==
    ASSUME NEW S \in SUBSET Nat, S # {}
    PROVE  \E n \in S : \A m \in S : n <= m
<1>1. IsWellFoundedOn(OpToRel(<, Nat), Nat)
    BY NatLessThanWellFounded
<1>2. PICK n \in S : \A m \in S : ~ (<<m, n>> \in OpToRel(<, Nat))
    BY <1>1, WFMin
<1>3. \A m \in S : ~ (m < n)
    BY <1>2 DEF OpToRel
<1>. QED
    BY <1>3

(* One that is bounded has a greatest.                                      *)
LEMMA Greatest ==
    ASSUME NEW n \in Nat, NEW S \in SUBSET (1 .. n), S # {}
    PROVE  \E i \in S : \A j \in S : j <= i
<1> DEFINE D == {n - i : i \in S}
<1>1. D \in SUBSET Nat /\ D # {}
    <2>1. \A i \in S : n - i \in Nat
        OBVIOUS
    <2>. QED
        BY <2>1
<1>2. PICK d \in D : \A e \in D : d <= e
    <2> HIDE DEF D
    <2>. QED
        BY <1>1, Least
<1>3. PICK i \in S : d = n - i
    BY <1>2
<1>4. \A j \in S : n - i <= n - j
    BY <1>2, <1>3
<1>. QED
    BY <1>3, <1>4

(* The first entry of an indexed artifact, and the last of its transitions. *)
LEMMA EntriesOfIndexed ==
    ASSUME FilesTyped, NEW a \in Indexed(registry)
    PROVE  /\ FirstIndex(registry, a) \in DOMAIN registry
           /\ registry[FirstIndex(registry, a)].id = a
           /\ Transitions(registry, a) # {} =>
                 (CHOOSE i \in Transitions(registry, a) :
                     \A j \in Transitions(registry, a) : j <= i) \in Transitions(registry, a)
<1>1. Len(registry) \in Nat /\ DOMAIN registry = 1 .. Len(registry)
    BY LenProperties DEF FilesTyped
<1>2. \E i \in DOMAIN registry : /\ registry[i].id = a
                                 /\ \A j \in DOMAIN registry : registry[j].id = a => i <= j
    <2> DEFINE S == {i \in DOMAIN registry : registry[i].id = a}
    <2>1. S \in SUBSET Nat /\ S # {}
        BY <1>1 DEF Indexed
    <2>2. PICK i \in S : \A j \in S : i <= j
        <3> HIDE DEF S
        <3>. QED
            BY <2>1, Least
    <2>. QED
        BY <2>2
<1>3. FirstIndex(registry, a) \in DOMAIN registry /\ registry[FirstIndex(registry, a)].id = a
    BY <1>2 DEF FirstIndex
<1> DEFINE T == Transitions(registry, a)
<1>4. T \in SUBSET (1 .. Len(registry))
    BY <1>1 DEF Transitions
<1>5. ASSUME T # {}
      PROVE  (CHOOSE i \in T : \A j \in T : j <= i) \in T
    <2> HIDE DEF T
    <2>1. \E i \in T : \A j \in T : j <= i
        BY <1>1, <1>4, <1>5, Greatest
    <2>. QED
        BY <2>1
<1>. QED
    BY <1>3, <1>5

(* The state of an indexed artifact is one of the matrix, and a step to     *)
(* itself is legal.                                                         *)
LEMMA RetentionIsTyped ==
    ASSUME FilesTyped, NEW a \in Indexed(registry)
    PROVE  /\ RetentionOf(registry, a) \in Retentions
           /\ IsLegalRetention(RetentionOf(registry, a), RetentionOf(registry, a))
<1>1. \A i \in DOMAIN registry : registry[i].retention \in Retentions
    <2>1. \A i \in DOMAIN registry : registry[i] \in Entries
        BY ElementOfSeq, LenProperties DEF FilesTyped
    <2>. QED
        BY <2>1 DEF Entries
<1>2. Transitions(registry, a) \subseteq DOMAIN registry
    BY DEF Transitions
<1>3. RetentionOf(registry, a) \in Retentions
    BY <1>1, <1>2, EntriesOfIndexed DEF RetentionOf
<1>4. \A r \in Retentions : IsLegalRetention(r, r)
    BY DEF IsLegalRetention, RetentionTransitions, Retentions
<1>. QED
    BY <1>3, <1>4

(* An accepted line leaves the state of an artifact or takes a legal step.  *)
LEMMA RetentionGrows ==
    ASSUME FilesTyped, NEW e \in Entries, HistoryAccepts(registry, e),
           registry' = Append(registry, e), NEW a \in Indexed(registry)
    PROVE  IsLegalRetention(RetentionOf(registry, a), RetentionOf(registry', a))
<1> DEFINE n == Len(registry)
           T == Transitions(registry, a)
           U == Transitions(registry', a)
<1>1. n \in Nat /\ DOMAIN registry = 1 .. n
    BY LenProperties DEF FilesTyped
<1>2. /\ DOMAIN registry' = 1 .. n + 1
      /\ \A i \in 1 .. n : registry'[i] = registry[i]
      /\ registry'[n + 1] = e
    BY <1>1, AppendProperties, LenProperties DEF FilesTyped
<1>3. CASE e.id = a /\ e.kind = "retention_transition"
    <2>1. n + 1 \in U /\ U \subseteq 1 .. n + 1
        BY <1>1, <1>2, <1>3 DEF Transitions
    <2> DEFINE last == CHOOSE i \in U : \A j \in U : j <= i
    <2>2. last = n + 1
        <3> HIDE DEF U
        <3>1. \A i \in U : (\A j \in U : j <= i) <=> i = n + 1
            BY <1>1, <2>1
        <3>. QED
            BY <2>1, <3>1
    <2>3. RetentionOf(registry', a) = registry'[last].retention
        BY <2>1 DEF RetentionOf
    <2>4. IsLegalRetention(RetentionOf(registry, a), e.retention)
        BY <1>3 DEF HistoryAccepts
    <2>. QED
        BY <1>2, <2>2, <2>3, <2>4
<1>4. CASE ~(e.id = a /\ e.kind = "retention_transition")
    <2>1. U = T /\ T \subseteq 1 .. n
        BY <1>1, <1>2, <1>4 DEF Transitions
    <2>2. FirstIndex(registry', a) = FirstIndex(registry, a)
        <3>1. PICK k \in 1 .. n : registry[k].id = a
            BY <1>1 DEF Indexed
        <3> DEFINE P(i) == i \in DOMAIN registry /\ registry[i].id = a
                           /\ \A j \in DOMAIN registry : registry[j].id = a => i <= j
                   Q(i) == i \in DOMAIN registry' /\ registry'[i].id = a
                           /\ \A j \in DOMAIN registry' : registry'[j].id = a => i <= j
        <3>2. \A i : P(i) <=> Q(i)
            BY <1>1, <1>2, <3>1
        <3>3. /\ FirstIndex(registry, a) = CHOOSE i : P(i)
              /\ FirstIndex(registry', a) = CHOOSE i : Q(i)
            BY DEF FirstIndex
        <3> HIDE DEF P, Q
        <3>. QED
            BY <3>2, <3>3
    <2>3. RetentionOf(registry', a) = RetentionOf(registry, a)
        <3> DEFINE last == CHOOSE i \in T : \A j \in T : j <= i
        <3>1. /\ FirstIndex(registry, a) \in 1 .. n
              /\ T # {} => last \in T
            BY <1>1, EntriesOfIndexed
        <3>2. /\ RetentionOf(registry, a) = IF T = {} THEN registry[FirstIndex(registry, a)].retention
                                            ELSE registry[last].retention
              /\ RetentionOf(registry', a) = IF T = {} THEN registry'[FirstIndex(registry, a)].retention
                                             ELSE registry'[last].retention
            BY <2>1, <2>2 DEF RetentionOf
        <3> HIDE DEF last
        <3>. QED
            BY <1>2, <2>1, <3>1, <3>2
    <2>. QED
        BY <2>3, RetentionIsTyped
<1>. QED
    BY <1>3, <1>4

LegalStep ==
    \A a \in Indexed(registry) :
        IsLegalRetention(RetentionOf(registry, a), RetentionOf(registry', a))

(* Only the end of an append changes the registry.                          *)
LEMMA RegistryChanges ==
    ASSUME [Next]_vars
    PROVE  UNCHANGED registry \/ \E p \in Procs : FinishAppend(p)
<1>1. ASSUME NEW p \in Procs, Call(p) PROVE UNCHANGED registry
    BY <1>1 DEF Call, CallPublish, CallRegisterExisting, CallRegisterExternal,
                CallUpdateRetention, CallReconcile, CallSealAttempt, CallCompleteSeal,
                Issue, durable
<1>2. ASSUME NEW p \in Procs, Step(p), ~FinishAppend(p) PROVE UNCHANGED registry
    <2>1. CASE RenameBundle(p) \/ EnsureIndexed(p) \/ LockedAppend(p)
        BY <2>1 DEF RenameBundle, EnsureIndexed, LockedAppend
    <2>2. CASE \/ DelegateToPublish(p) \/ ProbeContent(p) \/ ListCategory(p)
               \/ VisitBundle(p) \/ FinishScan(p) \/ Acquire(p) \/ GiveUp(p)
        BY <2>2 DEF DelegateToPublish, ProbeContent, ListCategory, VisitBundle, FinishScan,
                    Acquire, GiveUp, durable
    <2>3. CASE \/ LockedPublish(p) \/ LockedRegisterExternal(p) \/ LockedSealAttempt(p)
               \/ LockedCompleteSeal(p) \/ CreateIntent(p) \/ WriteIntent(p)
        BY <2>3 DEF LockedPublish, LockedRegisterExternal, LockedSealAttempt,
                    LockedCompleteSeal, CreateIntent, WriteIntent, durable
    <2>4. CASE AfterAppend(p) \/ RereadRecord(p) \/ MarkSealed(p) \/ RemoveIntent(p)
        BY <2>4 DEF AfterAppend, RereadRecord, MarkSealed, RemoveIntent, durable
    <2>. QED
        BY <1>2, <2>1, <2>2, <2>3, <2>4 DEF Step
<1>3. ASSUME NEW p \in Procs, Abort(p) PROVE UNCHANGED registry
    BY <1>3 DEF Abort, durable
<1>4. CASE LoseContent
    BY <1>4 DEF LoseContent
<1>5. CASE UNCHANGED vars
    BY <1>5 DEF vars, durable
<1>. QED
    BY <1>1, <1>2, <1>3, <1>4, <1>5 DEF Next

(* Whatever a writer checked before it waited for the lock, the state its   *)
(* line records is a legal successor of the one the registry holds when the *)
(* line is written.                                                         *)
LEMMA RetentionStep == TypeInv /\ HistoryInv /\ [Next]_vars => LegalStep
<1> SUFFICES ASSUME TypeInv, HistoryInv, [Next]_vars PROVE LegalStep
    OBVIOUS
<1>1. FilesTyped
    BY DEF TypeInv
<1>2. CASE UNCHANGED registry
    BY <1>1, <1>2, RetentionIsTyped DEF LegalStep
<1>3. ASSUME NEW p \in Procs, FinishAppend(p) PROVE LegalStep
    <2>1. pc[p] = "appending" /\ registry' = Append(registry, entry[p])
        BY <1>3 DEF FinishAppend
    <2>2. entry[p] \in Entries /\ HistoryAccepts(registry, entry[p])
        BY <2>1 DEF TypeInv, ControlInv, EntryReady, NeedsEntry, HistoryInv, AppendReady
    <2>. QED
        BY <1>1, <2>1, <2>2, RetentionGrows DEF LegalStep
<1>. QED
    BY <1>2, <1>3, RegistryChanges

(* The states an artifact passes through form a legal chain, also when two  *)
(* writers checked their transitions against the same older state.          *)
THEOREM LegalChain == Spec => RetentionStepsAreLegal
<1>1. TypeInv /\ HistoryInv /\ [Next]_vars => [LegalStep]_vars
    BY RetentionStep
<1>. QED
    BY <1>1, TypeInit, TypeStep, HistoryInit, HistoryStep, PTL
    DEF Spec, RetentionStepsAreLegal, LegalStep
=============================================================================
