------------------------------ MODULE SmokeGate ------------------------------
(***************************************************************************)
(* The gate of smoke/runner.py and run.py: an uninterrupted attempt u0, an *)
(* attempt r0 that stops after K updates, and an attempt r1 that resumes   *)
(* from r0's checkpoint and is compared with u0 after N updates.  Each     *)
(* attempt ends with a manifest, published and sealed by the               *)
(* ManifestGenerator of experiments/store.py.  Any step may raise or be    *)
(* the last of its process; afterwards an operator may finalize what was   *)
(* left, with the bytes of a manifest generated before or with new ones.   *)
(*                                                                         *)
(* Arithmetic is kept as a term: the parameters after an update stand for  *)
(* what they were computed from, so two runs are bit for bit equal exactly *)
(* when their terms are.  An artifact is its category and a number:        *)
(* the updates of a checkpoint, the place of a manifest in made[a].        *)
(***************************************************************************)
EXTENDS Integers, Sequences, FiniteSets, SequencesExt

CONSTANTS
    Configs,   \* resolved configurations, corpora and fault injections
    Window,    \* VALIDATION_WINDOW_TOKENS
    MaxFaults, \* bound: steps that raise or are the last, contents lost
    MaxRetries \* bound: finalizations an operator tries

ASSUME GateConstants ==
    /\ Window \in Nat /\ MaxFaults \in Nat /\ MaxRetries \in Nat
    /\ \A c \in Configs :
          /\ {c.tokens, c.interval, c.batch, c.seq, c.length} \subseteq Nat
          /\ c.batch > 0 /\ c.seq > 0 /\ c.length > 0
          /\ {c.mismatch, c.improves} \subseteq BOOLEAN

Attempts == {"u0", "r0", "r1"}

VARIABLES
    cfg,      \* the configuration of this gate
    phase,    \* of the gate: "building", "running", "over", "returned"
    cur, pc,  \* the attempt under way and the step of its script
    loop,     \* updates done in the training loop under way
    rt,       \* the live runtime
    loss,     \* the last validation loss
    comp,     \* computational state extracted from each attempt
    report,   \* decision of the comparison
    lineage,  \* identity of each attempt: its parent checkpoint, if any
    stream,   \* telemetry stream of each attempt
    saved,    \* content of the checkpoints
    made,     \* manifests generated for each attempt, in that order
    bundles,  \* artifacts with content on the disk
    reg,      \* registry of each attempt
    sealing,  \* artifact the sealing intent is bound to
    sealed,   \* attempts with a sealed marker
    fin,      \* the finalization under way
    passed,   \* what the gate has returned
    faults, retries

run    == <<rt, loss, comp, report, loop>>
store  == <<stream, saved, made, bundles, reg, sealing, sealed>>
limits == <<faults, retries>>
vars   == <<cfg, phase, cur, pc, run, lineage, store, fin, passed, limits>>

Id(kind, n) == [kind |-> kind, n |-> n]
NotPrepared == [prepared |-> FALSE, parent |-> <<>>]
NoFin == [stage |-> "none", a |-> "u0", id |-> 0, by |-> "gate", seal |-> FALSE]

----------------------------------------------------------------------------
(* Configuration.                                                           *)

TokensPerUpdate == cfg.batch * cfg.seq
N == cfg.tokens \div TokensPerUpdate
K == cfg.interval \div TokensPerUpdate

(* build_runner refuses a gate that does not split into whole updates.      *)
Builds ==
    /\ cfg.tokens % TokensPerUpdate = 0
    /\ cfg.interval % TokensPerUpdate = 0
    /\ 0 < K /\ K < N

----------------------------------------------------------------------------
(* Training: SmokeDataCursor, SmokeAdamW, SmokeScheduler, SmokeRuntime.     *)

Start == [epoch |-> 0, position |-> 0, accepted |-> 0]

Fresh ==
    [params |-> <<>>, slots |-> <<>>, steps |-> 0, sched |-> 0, cursor |-> Start,
     counters |-> [update |-> 0, accepted |-> 0, tokens |-> 0], generator |-> 1]

NextBatch(cursor) ==
    [i \in 1 .. TokensPerUpdate |-> (cursor.position + i - 1) % cfg.length]

(* The cursor after a batch; the position wraps as often as it has to.      *)
Advanced(cursor) ==
    LET to == cursor.position + TokensPerUpdate IN
    [epoch    |-> cursor.epoch + to \div cfg.length,
     position |-> to % cfg.length,
     accepted |-> cursor.accepted + cfg.batch]

(* The backward pass over a batch, at the parameters it is taken.           *)
Gradient(r) == [batch |-> NextBatch(r.cursor), at |-> r.params]

(* Moments from the gradient, parameters from the moments and the step.     *)
Updated(r) ==
    LET slots  == Append(r.slots, Gradient(r))
        cursor == Advanced(r.cursor)
    IN  [r EXCEPT
            !.slots = slots, !.steps = @ + 1, !.sched = @ + 1, !.cursor = cursor,
            !.params = Append(@, [step |-> r.steps + 1, slots |-> slots]),
            !.counters = [update |-> @.update + 1, accepted |-> cursor.accepted,
                          tokens |-> (@.update + 1) * TokensPerUpdate]]

Perturbed(r) == [r EXCEPT !.params = Append(@, [step |-> 0, slots |-> <<>>])]

Positions(batch) == {batch[i] : i \in DOMAIN batch}
Trained(r) == UNION {Positions(r.slots[i].batch) : i \in DOMAIN r.slots}

HeldOut == cfg.length - Window .. cfg.length - 1

(* Mutant of ValidationFits: the window is not counted.                     *)
ValidationFits_NoWindow == N * TokensPerUpdate <= cfg.length

ValidationFits == N * TokensPerUpdate + Window <= cfg.length

LossOf(r) == [of |-> r.params, on |-> HeldOut]

SampleOf(r) == r.params

(* What the comparison looks at; probes read copies and advance nothing.    *)
Extracted(r, l) ==
    [params |-> r.params, slots |-> r.slots, steps |-> r.steps, sched |-> r.sched,
     counters |-> r.counters, cursor |-> r.cursor,
     nextItem |-> NextBatch(r.cursor), nextRandom |-> r.generator,
     loss |-> l, sample |-> SampleOf(r)]

Differences(s, t) == {f \in DOMAIN s : s[f] # t[f]}

Decision(differences) == IF differences = {} THEN "pass" ELSE "fail"

(* Mutant of Restored: the cursor starts over.                              *)
Restored_FreshCursor(r, content) == [content EXCEPT !.cursor = Start]

(* RestoreTransaction over SmokeStateFactory: every part of the runtime is  *)
(* replaced by the checkpoint's.                                            *)
Restored(r, content) ==
    [r EXCEPT !.params = content.params, !.slots = content.slots,
              !.steps = content.steps, !.sched = content.sched,
              !.cursor = content.cursor, !.counters = content.counters,
              !.generator = content.generator]

----------------------------------------------------------------------------
(* The scripts: run_u0, run_r0, run_r1.                                     *)

Script(a) ==
    CASE a = "u0" -> <<"prepare", "resolved_configuration", "provenance", "open",
                       "runtime", "validate", "train_K", "save", "train_N",
                       "validate", "save", "sample", "close", "register",
                       "extract", "finalize">>
      [] a = "r0" -> <<"prepare", "resolved_configuration", "provenance", "open",
                       "runtime", "train_K", "save", "close", "register", "finalize">>
      [] a = "r1" -> <<"prepare", "resolved_configuration", "provenance", "open",
                       "runtime", "load", "restore", "perturb", "train_N",
                       "validate", "save", "sample", "extract", "compare", "close",
                       "register", "report", "finalize">>

Successor == [u0 |-> "r0", r0 |-> "r1", r1 |-> "r1"]

At(step) == phase = "running" /\ fin = NoFin /\ Script(cur)[pc] = step

Proceed == pc' = pc + 1 /\ UNCHANGED <<cfg, phase, cur, fin, passed>>
Raise   == phase' = "over" /\ UNCHANGED <<cfg, cur, pc, fin, passed>>

NoFault == UNCHANGED limits
Fault   == faults < MaxFaults /\ faults' = faults + 1 /\ UNCHANGED retries

Init ==
    /\ cfg \in Configs /\ phase = "building" /\ cur = "u0" /\ pc = 1 /\ loop = 0
    /\ rt = Fresh /\ loss = <<>> /\ report = "none" /\ saved = <<>>
    /\ comp = [a \in Attempts |-> <<>>]
    /\ lineage = [a \in Attempts |-> NotPrepared]
    /\ stream = [a \in Attempts |-> "none"]
    /\ made = [a \in Attempts |-> <<>>]
    /\ bundles = [a \in Attempts |-> {}]
    /\ reg = [a \in Attempts |-> <<>>]
    /\ sealing = [a \in Attempts |-> <<>>]
    /\ sealed = {} /\ fin = NoFin /\ passed = "none"
    /\ faults = 0 /\ retries = 0

Build ==
    /\ phase = "building"
    /\ phase' = IF Builds THEN "running" ELSE "over"
    /\ UNCHANGED <<cfg, cur, pc, run, lineage, store, fin, passed, limits>>

----------------------------------------------------------------------------
(* The artifact store, as far as one writer sees it.                        *)

Registered(a) == ToSet(reg[a])
Closed(a)     == a \in sealed \/ sealing[a] # <<>>

Indexed(a, x) == IF x \in Registered(a) THEN reg ELSE [reg EXCEPT ![a] = Append(@, x)]

(* publish without a seal: the bundle, then its registry entry; what raises *)
(* or dies in between leaves the bundle an orphan.                          *)
Publish(x) ==
    \/ /\ ~Closed(cur) /\ NoFault /\ Proceed
       /\ bundles' = [bundles EXCEPT ![cur] = @ \cup {x}]
       /\ reg' = Indexed(cur, x)
    \/ Closed(cur) /\ NoFault /\ Raise /\ UNCHANGED <<bundles, reg>>
    \/ /\ ~Closed(cur) /\ Fault /\ Raise
       /\ \/ bundles' = [bundles EXCEPT ![cur] = @ \cup {x}] /\ reg' \in {reg, Indexed(cur, x)}
          \/ UNCHANGED <<bundles, reg>>

----------------------------------------------------------------------------
(* Steps of an attempt.                                                     *)

(* Mutant of ParentOf: the lineage names the uninterrupted attempt.         *)
ParentOf_Uninterrupted(a) ==
    IF a = "r1" THEN <<[a |-> "u0", x |-> Id("checkpoint", K)]>> ELSE <<>>

(* The checkpoint r1's lineage names.                                       *)
ParentOf(a) ==
    IF a = "r1" THEN <<[a |-> "r0", x |-> Id("checkpoint", K)]>> ELSE <<>>

Prepare ==
    /\ At("prepare") /\ Proceed /\ NoFault
    /\ lineage' = [lineage EXCEPT ![cur] = [prepared |-> TRUE, parent |-> ParentOf(cur)]]
    /\ UNCHANGED <<run, store>>

PublishRecord ==
    /\ \E kind \in {"resolved_configuration", "provenance"} :
          At(kind) /\ Publish(Id(kind, 0))
    /\ UNCHANGED <<run, lineage, stream, saved, made, sealing, sealed>>

OpenTelemetry ==
    /\ At("open") /\ Proceed /\ NoFault
    /\ stream' = [stream EXCEPT ![cur] = "open"]
    /\ UNCHANGED <<run, lineage, saved, made, bundles, reg, sealing, sealed>>

NewRuntime ==
    /\ At("runtime") /\ Proceed /\ NoFault
    /\ rt' = Fresh /\ loss' = <<>>
    /\ UNCHANGED <<loop, comp, report, lineage, store>>

(* Validation refuses a corpus that cannot keep its window apart.           *)
Validate ==
    /\ At("validate") /\ NoFault
    /\ IF ValidationFits THEN loss' = LossOf(rt) /\ Proceed
       ELSE Raise /\ UNCHANGED loss
    /\ UNCHANGED <<rt, loop, comp, report, lineage, store>>

(* One update of the loop over a fixed number of them.                      *)
Train ==
    /\ At("train_K") \/ At("train_N")
    /\ NoFault
    /\ rt' = Updated(rt)
    /\ LET rounds == IF At("train_K") THEN K ELSE N - K IN
       IF loop + 1 < rounds
       THEN loop' = loop + 1 /\ UNCHANGED <<cfg, phase, cur, pc, fin, passed>>
       ELSE loop' = 0 /\ Proceed
    /\ UNCHANGED <<loss, comp, report, lineage, store>>

Save ==
    LET x == Id("checkpoint", rt.counters.update) IN
    /\ At("save") /\ Publish(x)
    /\ saved' = IF x \in bundles'[cur] THEN Append(saved, [a |-> cur, x |-> x, rt |-> rt])
                ELSE saved
    /\ UNCHANGED <<run, lineage, stream, made, sealing, sealed>>

PublishSample ==
    /\ At("sample") /\ Publish(Id("generated_sample", 0))
    /\ UNCHANGED <<run, lineage, stream, saved, made, sealing, sealed>>

(* Mutant of Outcome: the decision of the comparison is taken for a status. *)
Outcome_Decision(a) == IF a = "r1" THEN report ELSE "normal"

(* The stream says how the attempt ended: interrupted, or by the comparison. *)
Outcome(a) ==
    CASE a = "r0" -> "interrupted"
      [] a = "r1" /\ report = "fail" -> "failed"
      [] OTHER -> "normal"

CloseTelemetry ==
    /\ At("close") /\ Proceed /\ NoFault
    /\ stream' = [stream EXCEPT ![cur] = Outcome(cur)]
    /\ UNCHANGED <<run, lineage, saved, made, bundles, reg, sealing, sealed>>

(* The stream is loaded strictly before it is registered.                   *)
RegisterTelemetry ==
    /\ At("register")
    /\ stream[cur] \notin {"none", "open"}
    /\ Publish(Id("telemetry", 0))
    /\ UNCHANGED <<run, lineage, stream, saved, made, sealing, sealed>>

Extract ==
    /\ At("extract") /\ Proceed /\ NoFault
    /\ comp' = [comp EXCEPT ![cur] = <<Extracted(rt, loss)>>]
    /\ UNCHANGED <<rt, loop, loss, report, lineage, store>>

Content(a, x) == (CHOOSE i \in DOMAIN saved : saved[i].a = a /\ saved[i].x = x)

(* r1 loads r0's checkpoint through r0's store.                             *)
Load ==
    /\ At("load") /\ NoFault
    /\ LET parent == lineage[cur].parent[1] IN
       IF parent.x \in Registered(parent.a) \cap bundles[parent.a] THEN Proceed ELSE Raise
    /\ UNCHANGED <<run, lineage, store>>

(* A restore that fails leaves the runtime alone, writes its event and      *)
(* raises: the stream stays open and no manifest follows.                   *)
Restore ==
    LET parent == lineage[cur].parent[1] IN
    /\ At("restore")
    /\ \/ /\ NoFault /\ Proceed
          /\ rt' = Restored(rt, saved[Content(parent.a, parent.x)].rt)
       \/ Fault /\ Raise /\ UNCHANGED rt
    /\ UNCHANGED <<loop, loss, comp, report, lineage, store>>

ForceMismatch ==
    /\ At("perturb") /\ Proceed /\ NoFault
    /\ rt' = IF cfg.mismatch THEN Perturbed(rt) ELSE rt
    /\ UNCHANGED <<loop, loss, comp, report, lineage, store>>

Compare ==
    /\ At("compare") /\ Proceed /\ NoFault
    /\ report' = Decision(Differences(comp["u0"][1], comp["r1"][1]))
    /\ UNCHANGED <<rt, loop, loss, comp, lineage, store>>

PublishReport ==
    /\ At("report") /\ Publish(Id("report", 0))
    /\ UNCHANGED <<run, lineage, stream, saved, made, sealing, sealed>>

(* Every other step may raise, and the process may die before any of them.  *)
Interrupt ==
    /\ phase = "running" /\ fin = NoFin /\ Fault /\ Raise
    /\ UNCHANGED <<run, lineage, store>>

----------------------------------------------------------------------------
(* The manifest: ManifestGenerator.generate and its validators.             *)

Manifests(a) == {x \in Registered(a) : x.kind = "experiment_manifest"}

Eligible == {"resolved_configuration", "provenance", "telemetry", "checkpoint",
             "generated_sample"}

(* The records each attempt of the gate hands over.                         *)
GateRecords(a) ==
    {Id("resolved_configuration", 0), Id("provenance", 0), Id("telemetry", 0)}
    \cup (IF a = "r1" THEN {Id("report", 0)} ELSE {Id("checkpoint", K)})
    \cup (IF a = "r0" THEN {} ELSE {Id("checkpoint", N), Id("generated_sample", 0)})

Missing(m) ==
    {k \in Eligible : \A x \in m.refs : x.kind # k}
        \cup (IF m.evaluated THEN {} ELSE {"evaluation_summary"})

LifecycleHolds(m) == m.status \in {"failed", "interrupted"} <=> m.diagnostic # "none"
RolesHold(m)      == \A x \in m.refs : x.kind # "experiment_manifest"
ResumeBinds(a, m) == m.resume = lineage[a].parent
EvidenceHolds(m)  == m.status = "completed" => Missing(m) = {}

ManifestAccepted(a, m) ==
    LifecycleHolds(m) /\ RolesHold(m) /\ ResumeBinds(a, m) /\ EvidenceHolds(m)

(* Mutant of TerminalStatus: the comparison is not asked.                   *)
TerminalStatus_Ignored(a) == IF a = "r0" THEN "interrupted" ELSE "completed"

TerminalStatus(a) ==
    CASE a = "r0" -> "interrupted"
      [] a = "r1" /\ report # "pass" -> "failed"
      [] OTHER -> "completed"

Diagnostic(a) ==
    CASE TerminalStatus(a) = "interrupted" -> "handled_interruption"
      [] TerminalStatus(a) = "failed" -> "compatibility_mismatch"
      [] OTHER -> "none"

Generate(a, m, by, seal) ==
    /\ made' = IF m \in ToSet(made[a]) THEN made ELSE [made EXCEPT ![a] = Append(@, m)]
    /\ fin' = [stage |-> "verify", a |-> a, by |-> by, seal |-> seal,
               id |-> CHOOSE i \in DOMAIN made'[a] : made'[a][i] = m]

FinalizeManifest ==
    LET m == [status |-> TerminalStatus(cur), diagnostic |-> Diagnostic(cur), at |-> 0,
              refs |-> GateRecords(cur), evaluated |-> cur # "r0",
              resume |-> lineage[cur].parent]
    IN  /\ At("finalize") /\ NoFault
        /\ ManifestAccepted(cur, m) /\ Generate(cur, m, "gate", TRUE)
        /\ UNCHANGED <<cfg, phase, cur, pc, run, lineage, stream, saved, bundles, reg,
                       sealing, sealed, passed>>

(* After the gate, an operator finalizes an attempt it left open: with the  *)
(* bytes of an earlier manifest, or with what is registered now (its time   *)
(* tells it from every other; the status is one for which no evidence is    *)
(* asked).  Without a seal this is finalize_attempt, with one a publish     *)
(* that seals as the gate's does.                                           *)
Refinalize(a) ==
    LET fresh == [status |-> "interrupted", diagnostic |-> "handled_interruption",
                  at |-> retries + 1, refs |-> Registered(a) \ Manifests(a),
                  evaluated |-> FALSE, resume |-> lineage[a].parent]
    IN  /\ phase = "over" /\ fin = NoFin /\ lineage[a].prepared
        /\ retries < MaxRetries /\ retries' = retries + 1 /\ UNCHANGED faults
        /\ \E m \in ToSet(made[a]) \cup {fresh}, seal \in BOOLEAN :
              ManifestAccepted(a, m) /\ Generate(a, m, "operator", seal)
        /\ UNCHANGED <<cfg, phase, cur, pc, run, lineage, stream, saved, bundles, reg,
                       sealing, sealed, passed>>

----------------------------------------------------------------------------
(* ManifestGenerator.publish and the store's publish, sealing or not.       *)

Manifest == Id("experiment_manifest", fin.id)

Finalizing(stage) == fin.stage = stage
Continue(stage) ==
    fin' = [fin EXCEPT !.stage = stage] /\ UNCHANGED <<cfg, phase, cur, pc, passed>>

(* The caller's call raises: the gate is over, an operator may try again.   *)
GiveUp ==
    /\ fin' = NoFin
    /\ phase' = IF fin.by = "gate" THEN "over" ELSE phase
    /\ UNCHANGED <<cfg, cur, pc, passed>>

Backed(a, x) == x \in Registered(a) /\ x \in bundles[a]

ReferencesVerified(a, m) ==
    /\ \A x \in m.refs : Backed(a, x)
    /\ \A i \in DOMAIN m.resume : Backed(m.resume[i].a, m.resume[i].x)

(* Mutant of CoverageHolds: what the manifest leaves out goes unnoticed.    *)
CoverageHolds_OneWay(a, m) == m.refs \subseteq Registered(a)

CoverageHolds(a, m) ==
    /\ {x \in Registered(a) : x.kind \in Eligible} \subseteq m.refs
    /\ m.refs \subseteq Registered(a)

FinVerify ==
    LET m == made[fin.a][fin.id]
        existing == Manifests(fin.a)
    IN  /\ Finalizing("verify") /\ NoFault
        /\ IF ~ReferencesVerified(fin.a, m) \/ ~CoverageHolds(fin.a, m) THEN GiveUp
           ELSE IF existing = {} THEN Continue("publish")
           ELSE IF existing = {Manifest} /\ Manifest \in bundles[fin.a] 
           THEN Continue(IF fin.seal THEN "complete" ELSE "check")
           ELSE GiveUp
        /\ UNCHANGED <<run, lineage, store>>

(* Mutant of MayPublish: an intent for another manifest does not matter.    *)
MayPublish_AnyIntent(a, x, seal) == a \notin sealed

(* A pending intent lets through the artifact it is bound to and no other,  *)
(* and that one only when it seals.                                         *)
MayPublish(a, x, seal) ==
    a \notin sealed /\ sealing[a] \in IF seal THEN {<<>>, <<x>>} ELSE {<<>>}

FinPublish ==
    /\ Finalizing("publish") /\ NoFault
    /\ IF ~MayPublish(fin.a, Manifest, fin.seal) THEN GiveUp /\ UNCHANGED sealing
       ELSE IF Manifest \in bundles[fin.a] THEN Continue("append") /\ UNCHANGED sealing
       ELSE /\ Continue("rename")
            /\ sealing' = IF fin.seal THEN [sealing EXCEPT ![fin.a] = <<Manifest>>] ELSE sealing
    /\ UNCHANGED <<run, lineage, stream, saved, made, bundles, reg, sealed>>

FinRename ==
    /\ Finalizing("rename") /\ NoFault /\ Continue("append")
    /\ bundles' = [bundles EXCEPT ![fin.a] = @ \cup {Manifest}]
    /\ UNCHANGED <<run, lineage, stream, saved, made, reg, sealing, sealed>>

FinAppend ==
    /\ Finalizing("append") /\ NoFault /\ Continue(IF fin.seal THEN "mark" ELSE "check")
    /\ reg' = Indexed(fin.a, Manifest)
    /\ UNCHANGED <<run, lineage, stream, saved, made, bundles, sealing, sealed>>

(* A manifest that is registered already: the seal is completed for it, if  *)
(* it is the last that was registered.                                      *)
FinComplete ==
    /\ Finalizing("complete") /\ NoFault
    /\ IF sealing[fin.a] = <<Manifest>> THEN Continue("mark") /\ UNCHANGED sealing
       ELSE IF sealing[fin.a] = <<>> /\ Last(reg[fin.a]) = Manifest
       THEN Continue("mark") /\ sealing' = [sealing EXCEPT ![fin.a] = <<Manifest>>]
       ELSE GiveUp /\ UNCHANGED sealing
    /\ UNCHANGED <<run, lineage, stream, saved, made, bundles, reg, sealed>>

FinMark ==
    /\ Finalizing("mark") /\ NoFault
    /\ IF sealing[fin.a] = <<Manifest>>
       THEN Continue("unmark") /\ sealed' = sealed \cup {fin.a}
       ELSE GiveUp /\ UNCHANGED sealed
    /\ UNCHANGED <<run, lineage, stream, saved, made, bundles, reg, sealing>>

FinUnmark ==
    /\ Finalizing("unmark") /\ NoFault /\ Continue("check")
    /\ sealing' = [sealing EXCEPT ![fin.a] = <<>>]
    /\ UNCHANGED <<run, lineage, stream, saved, made, bundles, reg, sealed>>

(* Mutant of Passes: only the loss is asked.                                *)
Passes_LossOnly == cfg.improves

(* run_gate compares again and adds the criterion on the loss.              *)
Passes == Differences(comp["u0"][1], comp["r1"][1]) = {} /\ cfg.improves

(* The manifest is read back; the attempt has returned, and the next one    *)
(* begins or the gate returns.                                              *)
FinCheck ==
    /\ Finalizing("check") /\ NoFault
    /\ IF Manifest \notin bundles[fin.a] THEN GiveUp
       ELSE /\ fin' = NoFin /\ UNCHANGED cfg
            /\ IF fin.by = "operator" THEN UNCHANGED <<phase, cur, pc, passed>>
               ELSE IF cur = "r1"
               THEN /\ phase' = "returned"
                    /\ passed' = IF Passes THEN "yes" ELSE "no"
                    /\ UNCHANGED <<cur, pc>>
               ELSE cur' = Successor[cur] /\ pc' = 1 /\ UNCHANGED <<phase, passed>>
    /\ UNCHANGED <<run, lineage, store>>

(* Any call of the finalization may fail, or the process die before it.     *)
FinInterrupted ==
    /\ fin # NoFin /\ Fault /\ GiveUp
    /\ UNCHANGED <<run, lineage, store>>

----------------------------------------------------------------------------
(* Others.                                                                  *)

(* reconcile_orphans, which no one runs while a finalization is under way:  *)
(* ManifestGenerator.publish leaves quiescence to its caller.               *)
Reconcile(a) ==
    /\ phase # "running" /\ fin = NoFin /\ ~Closed(a)
    /\ \E x \in bundles[a] \ Registered(a) : reg' = Indexed(a, x)
    /\ UNCHANGED <<cfg, phase, cur, pc, run, lineage, stream, saved, made, bundles,
                   sealing, sealed, fin, passed, limits>>

LoseContent(a) ==
    /\ Fault
    /\ \E x \in bundles[a] : bundles' = [bundles EXCEPT ![a] = @ \ {x}]
    /\ UNCHANGED <<cfg, phase, cur, pc, run, lineage, stream, saved, made, reg,
                   sealing, sealed, fin, passed>>

Next ==
    \/ Build \/ Prepare \/ PublishRecord \/ OpenTelemetry \/ NewRuntime \/ Validate
    \/ Train \/ Save \/ PublishSample \/ CloseTelemetry \/ RegisterTelemetry
    \/ Extract \/ Load \/ Restore \/ ForceMismatch \/ Compare \/ PublishReport
    \/ Interrupt \/ FinalizeManifest
    \/ FinVerify \/ FinPublish \/ FinRename \/ FinAppend \/ FinComplete
    \/ FinMark \/ FinUnmark \/ FinCheck \/ FinInterrupted
    \/ \E a \in Attempts : Refinalize(a) \/ Reconcile(a) \/ LoseContent(a)

Spec == Init /\ [][Next]_vars

----------------------------------------------------------------------------
TypeOK ==
    /\ cfg \in Configs /\ phase \in {"building", "running", "over", "returned"}
    /\ cur \in Attempts /\ pc \in DOMAIN Script(cur)
    /\ report \in {"none", "pass", "fail"} /\ passed \in {"none", "yes", "no"}
    /\ \A a \in Attempts :
          /\ stream[a] \in {"none", "open", "normal", "interrupted", "failed"}
          /\ Len(sealing[a]) <= 1 /\ Len(comp[a]) <= 1
          /\ \A x \in Manifests(a) : x.n \in DOMAIN made[a]
    /\ sealed \subseteq Attempts
    /\ fin.stage # "none" => fin.id \in DOMAIN made[fin.a]
    /\ faults \in 0 .. MaxFaults /\ retries \in 0 .. MaxRetries

ManifestOf(a) == made[a][(CHOOSE x \in Manifests(a) : TRUE).n]

(* After N updates the resumed attempt is in the state of the uninterrupted *)
(* one, unless a fault was injected, and then the report says so (runner.py *)
(* run_r1, comparison.py compare).                                          *)
ResumeEqualsUninterrupted ==
    comp["r1"] # <<>> =>
        /\ Differences(comp["u0"][1], comp["r1"][1]) = {} <=> ~cfg.mismatch
        /\ report = "fail" => cfg.mismatch
        /\ report = "pass" => ~cfg.mismatch

(* A sealed attempt has one manifest, its last entry, which accounts for    *)
(* every eligible artifact of the registry and nothing else, whoever        *)
(* finalized it after whatever failures (store.py publish, load_manifest).  *)
SealedIsCovered ==
    \A a \in sealed :
        /\ Cardinality(Manifests(a)) = 1
        /\ Last(reg[a]) \in Manifests(a)
        /\ {x \in Registered(a) : x.kind \in Eligible} \subseteq ManifestOf(a).refs
        /\ ManifestOf(a).refs \subseteq Registered(a)

(* While a seal is pending no other manifest gets into the registry, and    *)
(* nothing that the manifest it is bound to leaves out or that comes after  *)
(* it, so that this finalizer and no other can be repeated, whatever was    *)
(* published without a seal before (artifacts/store.py publish).            *)
PendingSealExcludes ==
    \A a \in Attempts : sealing[a] # <<>> =>
        LET x == sealing[a][1] IN
        /\ Manifests(a) \subseteq {x}
        /\ x \in Registered(a) => Last(reg[a]) = x
        /\ CoverageHolds(a, made[a][x.n])

(* A manifest that says completed belongs to an attempt that trained to N,  *)
(* closed its stream normally, saved the state that was compared and, if it *)
(* resumed, was found equal (runner.py run_u0, run_r1).                     *)
CompletedIsBacked ==
    \A a \in Attempts : \A x \in Manifests(a) :
        made[a][x.n].status = "completed" =>
            /\ stream[a] = "normal"
            /\ \E i \in DOMAIN saved :
                  /\ saved[i].a = a /\ saved[i].x \in made[a][x.n].refs
                  /\ saved[i].rt.counters.update = N
                  /\ Extracted(saved[i].rt, comp[a][1].loss) = comp[a][1]
            /\ a = "r1" => Differences(comp["u0"][1], comp["r1"][1]) = {}

(* No token of the validation window was trained on before any checkpoint   *)
(* or comparison (data.py validation_tokens).                               *)
HeldOutIsNeverTrained ==
    \A i \in DOMAIN saved : Trained(saved[i].rt) \cap HeldOut = {}

(* A resumed attempt descends from one that is sealed as interrupted and    *)
(* accounts for the checkpoint, taken after K updates (runner.py run_r1).   *)
LineageIsSealed ==
    lineage["r1"].prepared =>
        \A i \in DOMAIN lineage["r1"].parent :
            LET parent == lineage["r1"].parent[i] IN
            /\ parent.a \in sealed
            /\ ManifestOf(parent.a).status = "interrupted"
            /\ parent.x \in ManifestOf(parent.a).refs
            /\ saved[Content(parent.a, parent.x)].rt.counters.update = K

(* A gate that passed has left three sealed attempts, of which the resumed  *)
(* one equals the uninterrupted one (run.py run_gate).                      *)
PassIsSealed ==
    passed = "yes" =>
        /\ sealed = Attempts
        /\ ManifestOf("u0").status = "completed" /\ ManifestOf("r1").status = "completed"
        /\ ManifestOf("r0").status = "interrupted"
        /\ comp["u0"] = comp["r1"]
=============================================================================
