--------------------------- MODULE RunPreparation ---------------------------
(***************************************************************************)
(* prepare_run of provenance/orchestrate.py: what a run is bound to before *)
(* training begins. A call reads the source tree in several commands while *)
(* it may be edited, computes the specification fingerprint, allocates a   *)
(* run and an attempt, writes the identity sidecar, reads the environment  *)
(* and writes the provenance sidecar. Several processes share one artifact *)
(* root; each system call may fail and a process may die at any step.      *)
(*                                                                         *)
(* A run id is its specification prefix and a number that stands for time  *)
(* and 80 random bits, which never repeat; attempt ids come from a pool so *)
(* small that they do. Times and schema versions are left out.             *)
(***************************************************************************)
EXTENDS SourceSnapshot, RunConfiguration

CONSTANTS
    Procs,       \* processes that prepare runs
    Trees,       \* trees a repository may hold
    Edits(_),    \* bound: the trees an edit makes of a tree
    Settings(_), \* bound: arguments and environments of a call, by the tree it saw
    Attempts,    \* pool of attempt ids
    Prefix(_),   \* the first hex digits of a fingerprint; not injective
    MaxEdits,    \* bound: edits of the source tree
    MaxCalls,    \* bound: calls of prepare_run
    MaxFaults    \* bound: failing system calls and deaths

ASSUME PreparationBounds ==
    /\ MaxEdits \in Nat /\ MaxCalls \in Nat /\ MaxFaults \in Nat
    /\ \A t \in Trees : Edits(t) \subseteq Trees

ElementsOf(s) == {s[i] : i \in DOMAIN s}
ASSUME TreesAndArguments ==
    \A t \in Trees :
        /\ IsTree(t)
        /\ \A s \in Settings(t) : /\ s.tokens \in Seq(ElementsOf(s.tokens))
                                 /\ s.extra \in Seq(ElementsOf(s.extra))

VARIABLES
    tree,    \* the repository the runs are started from
    edits,
    files,   \* sidecars on disk: from <<kind, run, attempt>> to contents
    call,    \* what each process is doing, and what it has read so far
    calls,   \* calls begun
    runs,    \* run ids allocated
    faults

vars == <<tree, edits, files, call, calls, runs, faults>>

(* A sidecar that was created and not completely written.                   *)
Torn == [torn |-> TRUE]
Whole(path) == path \in DOMAIN files /\ ~files[path].torn
Put(path, contents) == files' = [q \in DOMAIN files \cup {path} |->
                                    IF q = path THEN contents ELSE files[q]]
Remove(path) == files' = [q \in DOMAIN files \ {path} |-> files[q]]

Finished == {"returned", "failed", "escaped", "dead"}
Fresh == [step |-> "idle"]

Init ==
    /\ tree \in Trees /\ edits = 0
    /\ files = <<>>
    /\ call = [p \in Procs |-> Fresh]
    /\ calls = 0 /\ runs = 0 /\ faults = 0

Fault == faults < MaxFaults /\ faults' = faults + 1
NoFault == UNCHANGED faults

(* failed: the error prepare_run documents. escaped: another exception. What *)
(* a call that does not return has read is lost.                            *)
Goto(p, step) == call' = [call EXCEPT ![p].step = step]
Stop(p, how) == call' = [call EXCEPT ![p] = [step |-> how]]
Learn(p, more) == call' = [call EXCEPT ![p] = [f \in DOMAIN more \cup DOMAIN @ |->
                             IF f \in DOMAIN more THEN more[f] ELSE @[f]]]
Unwritten == UNCHANGED <<tree, edits, files, calls, runs>>

----------------------------------------------------------------------------
(* The environment.                                                         *)

Capturing(p) == call[p].step \in {"committed", "listing", "evidence"}

(* An edit or commit of the source tree, while a call is or may yet be      *)
(* reading it; calls under way have now seen two trees.                     *)
Edit ==
    /\ edits < MaxEdits
    /\ calls < MaxCalls \/ \E p \in Procs : Capturing(p)
    /\ edits' = edits + 1
    /\ tree' \in Edits(tree)
    /\ call' = [p \in Procs |->
                  IF Capturing(p) THEN [call[p] EXCEPT !.still = FALSE] ELSE call[p]]
    /\ UNCHANGED <<files, calls, runs, faults>>

Die(p) ==
    /\ call[p].step \notin Finished \cup {"idle"}
    /\ Fault /\ Stop(p, "dead")
    /\ Unwritten

(* A process whose call has ended makes the next one.                       *)
Again(p) ==
    /\ call[p].step \in Finished
    /\ calls < MaxCalls
    /\ call' = [call EXCEPT ![p] = Fresh]
    /\ UNCHANGED <<tree, edits, files, calls, runs, faults>>

----------------------------------------------------------------------------
(* capture_source_snapshot. A git command that fails makes it unavailable;  *)
(* but the remote may be missing from the snapshot, and the gitlinks and    *)
(* the submodules from the evidence.                                        *)

GitFails(p) ==
    /\ Capturing(p)
    /\ Fault /\ Stop(p, "failed")
    /\ Unwritten

CheckDirty(p) ==
    /\ call[p].step = "idle"
    /\ calls < MaxCalls /\ calls' = calls + 1
    /\ \E allowDirty \in BOOLEAN :
          IF IsDirty(tree) /\ ~allowDirty THEN Stop(p, "failed")
          ELSE Learn(p, [step |-> "committed", dirty |-> IsDirty(tree),
                         seen |-> tree, still |-> TRUE])
    /\ UNCHANGED <<tree, edits, files, runs, faults>>

(* The snapshot is built and its validators run: <<>> or the evidence.      *)
Capture(p, committed, evidence) ==
    LET snap == Snapshot(committed, evidence) IN
    IF SnapshotAccepted(snap)
    THEN call' = [call EXCEPT ![p] = [step |-> "identity", snap |-> snap,
                                      seen |-> @.seen, still |-> @.still]]
    ELSE Stop(p, "escaped")

ReadCommitted(p) ==
    LET c == call[p]
        Read(remote) ==
            LET committed == [commit |-> tree.commit, tree |-> CleanTreeDigest(tree),
                              remote |-> remote]
            IN  IF c.dirty THEN Learn(p, [step |-> "listing", committed |-> committed])
                           ELSE Capture(p, committed, <<>>)
    IN
    /\ c.step = "committed"
    /\ \/ NoFault /\ Read(tree.remote)
       \/ /\ tree.remote.shape # "absent"
          /\ Fault /\ Read([tree.remote EXCEPT !.shape = "absent"])
    /\ Unwritten

List(p) ==
    /\ call[p].step = "listing"
    /\ \/ /\ NoFault
          /\ Learn(p, [step |-> "evidence", listing |-> Porcelain(tree), blind |-> FALSE,
                       known |-> [m \in Gitlinks(tree) |-> tree.link[m].index]])
       \/ /\ Fault
          /\ Learn(p, [step |-> "evidence", listing |-> Porcelain(tree), blind |-> TRUE,
                       known |-> <<>>])
    /\ Unwritten

ReadEvidence(p) ==
    LET c == call[p] IN
    /\ c.step = "evidence"
    /\ \E submoduleFailed \in BOOLEAN :
          LET e == BuildDirtyEvidence(c.listing, c.known, c.blind, tree, submoduleFailed) IN
          /\ IF submoduleFailed THEN Fault ELSE NoFault
          /\ IF EvidenceAccepted(e) THEN Capture(p, c.committed, <<e>>)
             ELSE Learn(p, [step |-> "escaped", refused |-> e])
    /\ Unwritten

----------------------------------------------------------------------------
(* emit_attempt_identity.                                                   *)

(* from_envelope: the names of the inputs are distinct.                     *)
InputsAccepted(inputs) == \A i, j \in DOMAIN inputs : inputs[i].name = inputs[j].name => i = j

SpecificationFingerprint(config, inputs) ==
    [config |-> config, inputs |-> {inputs[i] : i \in DOMAIN inputs}]

(* What the caller passes of the run it continues: everything is optional.  *)
Parent(lineage, fingerprint, retained) ==
    [lineage |-> lineage, fingerprint |-> fingerprint, retained |-> retained]

(* Mutant of VerifyParentSpec: that a fingerprint was given is enough.      *)
VerifyParentSpec_Given(fp, parent) == parent.fingerprint # <<>>

(* _verify_parent_spec, and the prefix embedded in the ids of the retained  *)
(* run and of the parent run.                                               *)
VerifyParentSpec(fp, parent) == parent.fingerprint = <<fp>>
RetainedRunPrefix(fp, parent) == parent.retained[1].prefix = Prefix(fp)
ParentRunPrefix(parent) == parent.lineage[1].run.prefix = Prefix(parent.fingerprint[1])

Retains(fp, parent) ==
    /\ parent.lineage # <<>> /\ parent.retained # <<>> /\ parent.fingerprint # <<>>
    /\ VerifyParentSpec(fp, parent)
    /\ parent.lineage[1].run = parent.retained[1]
    /\ RetainedRunPrefix(fp, parent) /\ ParentRunPrefix(parent)

ModeAccepted(mode, fp, parent) ==
    CASE mode = "independent" -> parent = Parent(<<>>, <<>>, <<>>)
      [] mode = "resume" -> Retains(fp, parent) /\ parent.lineage[1].attempt # <<>>
      [] mode = "legacy" -> Retains(fp, parent)
      [] mode = "fork" -> /\ parent.lineage # <<>> /\ parent.lineage[1].attempt # <<>>
                          /\ parent.retained = <<>> /\ parent.fingerprint # <<>>
                          /\ ParentRunPrefix(parent)

Modes == {"independent", "resume", "fork", "legacy"}

(* The runs and attempts a caller can know: those with an identity sidecar. *)
(* The fingerprint it gives is that of the attempt it names.                *)
Known == {files[q] : q \in {q \in DOMAIN files : q[1] = "identity" /\ Whole(q)}}
Optional(S) == {<<>>} \cup {<<x>> : x \in S}
Parents ==
    LET retained == Optional({i.run : i \in Known})
        Named(i) == Optional({[run |-> i.run, attempt |-> a] : a \in Optional({i.attempt})})
    IN  {Parent(<<>>, <<>>, <<>>)} \cup
        UNION {[lineage : Named(i), fingerprint : Optional({i.fp}), retained : retained] :
                  i \in Known}

(* run_id and attempt_id: a caller may pass a predicate that tells whether  *)
(* an id is in use; candidates in use are drawn again, up to a limit.       *)
RunId(fp) == [prefix |-> Prefix(fp), n |-> runs + 1]
Used == {q[3] : q \in DOMAIN files}
AttemptCandidates(checks) == IF checks THEN Attempts \ Used ELSE Attempts
AttemptIdsRunOut(checks) == checks /\ Attempts \cap Used # {}

(* The record that is written; resume and legacy retain the run id.         *)
IdentityRecord(fp, parent, attempt) ==
    [torn |-> FALSE, fp |-> fp, attempt |-> attempt, lineage |-> parent.lineage,
     run |-> IF parent.retained # <<>> THEN parent.retained[1] ELSE RunId(fp)]

(* A setting is the configuration file and the override tokens the caller   *)
(* has resolved, its extra inputs, the machine it runs on and the sections  *)
(* of the provenance it passes itself.                                      *)
Identify(p) ==
    LET c == call[p] IN
    /\ c.step = "identity"
    /\ \E set \in {x \in Settings(c.seen) : Resolves(x.file, x.tokens)} :
          LET inputs == <<[name |-> "source.snapshot", digest |-> c.snap.digest]>> \o set.extra
              fp == SpecificationFingerprint(CanonicalBytes(set.file, set.tokens), inputs)
          IN
          IF ~InputsAccepted(inputs) THEN Stop(p, "escaped") /\ UNCHANGED runs
          ELSE
            LET asked == [mode : Modes, parent : Parents, checks : BOOLEAN]
                accepted == {a \in asked : ModeAccepted(a.mode, fp, a.parent)}
                refused == {a \in asked : a \notin accepted \/ AttemptIdsRunOut(a.checks)}
                chosen == UNION {[parent : {a.parent}, attempt : AttemptCandidates(a.checks)] :
                                    a \in accepted}
            IN
            \/ refused # {} /\ Stop(p, "failed") /\ UNCHANGED runs
            \/ \E x \in chosen :
                 /\ Learn(p, [step |-> "identity file", set |-> set,
                              ident |-> IdentityRecord(fp, x.parent, x.attempt)])
                 /\ runs' = IF x.parent.retained # <<>> THEN runs ELSE runs + 1
    /\ NoFault
    /\ UNCHANGED <<tree, edits, files, calls>>

(* Mutant of Sidecar: a fork is written beside the attempt it forks.        *)
Sidecar_Parent(kind, c) ==
    <<kind, IF c.ident.lineage = <<>> THEN c.ident.run ELSE c.ident.lineage[1].run,
      c.ident.attempt>>

(* write_identity_sidecar: the directory is made outside the error handler, *)
(* the file is created exclusively, and removed when writing it fails.      *)
Sidecar(kind, c) == <<kind, c.ident.run, c.ident.attempt>>

MakeDirectoryFails(p) ==
    /\ call[p].step = "identity file"
    /\ Fault /\ Stop(p, "escaped")
    /\ Unwritten

(* Mutant of CreateExclusive: without O_EXCL an existing file is opened.    *)
CreateExclusive_Existing(p, kind, next) ==
    \/ /\ NoFault
       /\ Put(Sidecar(kind, call[p]), Torn) /\ Goto(p, next)
    \/ /\ Fault /\ Stop(p, "failed") /\ UNCHANGED files

CreateExclusive(p, kind, next) ==
    \/ /\ Sidecar(kind, call[p]) \notin DOMAIN files /\ NoFault
       /\ Put(Sidecar(kind, call[p]), Torn) /\ Goto(p, next)
    \/ /\ Sidecar(kind, call[p]) \in DOMAIN files /\ NoFault
       /\ Stop(p, "failed") /\ UNCHANGED files
    \/ /\ Fault /\ Stop(p, "failed") /\ UNCHANGED files

WriteAll(p, kind, contents, next) ==
    \/ /\ NoFault
       /\ Put(Sidecar(kind, call[p]), contents) /\ Goto(p, next)
    \/ /\ Fault
       /\ Remove(Sidecar(kind, call[p])) /\ Stop(p, "failed")

CreateIdentity(p) ==
    /\ call[p].step = "identity file"
    /\ CreateExclusive(p, "identity", "identity bytes")
    /\ UNCHANGED <<tree, edits, calls, runs>>

WriteIdentity(p) ==
    /\ call[p].step = "identity bytes"
    /\ WriteAll(p, "identity", call[p].ident, "environment")
    /\ UNCHANGED <<tree, edits, calls, runs>>

----------------------------------------------------------------------------
(* The environment as a process finds it: installed distributions, uv.lock, *)
(* nvidia-smi and the variables a launcher sets.                            *)

(* _capture_dependencies: the first version of a name is reported, and      *)
(* every name seen at two versions; version 0 is an empty one.              *)
Dependencies(deps) ==
    {[name |-> deps[i].name, version |-> deps[i].version] :
        i \in {i \in DOMAIN deps : \A j \in 1..(i - 1) : deps[j].name # deps[i].name}}
Conflicts(deps) ==
    {deps[i].name : i \in {i \in DOMAIN deps :
        \E j \in DOMAIN deps : /\ deps[i].name = deps[j].name
                               /\ 0 \notin {deps[i].version, deps[j].version}
                               /\ deps[i].version # deps[j].version}}

Software(m) == [dependencies |-> Dependencies(m.deps), conflicts |-> Conflicts(m.deps),
                lockfile |-> m.lockfile, platform |-> "available", cpu |-> m.cpu,
                memory |-> m.memory]
SoftwareAccepted(s) == \A d \in s.dependencies : d.version # 0

(* capture_accelerator: rows with a bad ordinal are skipped, two rows with  *)
(* one ordinal are an error.                                                *)
Accelerator(m) ==
    LET rows == {i \in DOMAIN m.smi.rows : m.smi.rows[i] >= 0}
        Of(status, reason, n) == [status |-> status, reason |-> reason, count |-> n]
    IN  IF m.smi.outcome = "fails" THEN Of("error", "io_error", 0)
        ELSE IF m.smi.outcome = "times out" THEN Of("error", "timeout", 0)
        ELSE IF m.smi.outcome = "missing" \/ rows = {} THEN Of("unavailable", "", 0)
        ELSE IF \E i, j \in rows : i # j /\ m.smi.rows[i] = m.smi.rows[j]
             THEN Of("error", "duplicate_device_ordinals", 0)
        ELSE Of("available", "", Cardinality(rows))

(* capture_topology without explicit arguments: env maps the variables that *)
(* parse, bad holds those that do not.                                      *)
NotDistributed(status, reason) ==
    [status |-> status, reason |-> reason, vars |-> <<>>]
TopologyOf(env) ==
    LET Has(v) == v \in DOMAIN env IN
    IF DOMAIN env = {} THEN NotDistributed("not_applicable", "")
    ELSE IF Has("RANK") # Has("WORLD_SIZE")
         THEN NotDistributed("error", "rank_and_world_size_required_together")
    ELSE IF ~Has("RANK")
         THEN NotDistributed("error", "partial_topology_env_without_rank_world_size")
    ELSE IF env["RANK"] >= env["WORLD_SIZE"]
         THEN NotDistributed("error", "rank_must_be_less_than_world_size")
    ELSE IF Has("LOCAL_RANK") /\ env["LOCAL_RANK"] >= env["WORLD_SIZE"]
         THEN NotDistributed("error", "invalid_local_rank")
    ELSE IF Has("NNODES") /\ env["NNODES"] < 1
         THEN NotDistributed("error", "node_count_must_be_positive")
    ELSE [status |-> "available", reason |-> "",
          vars |-> [v \in DOMAIN env \ {"NODE_RANK", "LOCAL_WORLD_SIZE"} |-> env[v]]]

TopologyAccepted(t) ==
    /\ \A v \in DOMAIN t.vars : t.vars[v] >= IF v \in {"WORLD_SIZE", "NNODES"} THEN 1 ELSE 0
    /\ t.status = "available" => t.vars["RANK"] < t.vars["WORLD_SIZE"]

(* Mutant of Merged: an explicit topology replaces the captured warnings.   *)
Merged_Given(given, captured) == given

(* The warnings capture_hardware collects beside the topology, and their    *)
(* union with those of a topology the caller passes.                        *)
TopologyWarnings(m) == {<<"invalid_topology_env_value", v>> : v \in m.bad}
Merged(given, captured) == given \cup captured

----------------------------------------------------------------------------
(* ProvenanceRecord._derive_completeness: what went wrong in each section.  *)

Statuses(r) ==
    [cpu |-> r.software.cpu, memory |-> r.software.memory, platform |-> r.software.platform,
     lockfile |-> r.software.lockfile, accelerator |-> r.hardware.status,
     topology |-> r.topology.status]
Stated(r) == {<<n, Statuses(r)[n]>> : n \in DOMAIN Statuses(r)}

(* The statuses that warn, and those that are only a limitation: not every  *)
(* section has every branch.                                                *)
Failed == {"cpu", "memory", "platform", "lockfile", "accelerator", "topology"} \X {"error"}
Warned == Failed \cup {"cpu", "memory", "platform", "accelerator"} \X {"redacted"}
Limited == {"cpu", "memory", "lockfile", "accelerator"} \X {"unavailable"}
           \cup {<<"topology", "not_applicable">>}

(* What is both a warning and a limitation.                                 *)
Observed(r) ==
    {w \in {<<"source", "non_canonical_dirty_source">>} : ~r.source.clean}
    \cup {<<"software", "dependency_version_conflict">> : n \in r.software.conflicts}
    \cup (Stated(r) \cap Warned) \cup r.warnings

Warnings(r) ==
    Observed(r) \cup {<<"source", w>> : w \in r.source.warnings}
    \cup UNION {{<<"source", w>> : w \in r.source.evidence[i].warnings} :
                   i \in DOMAIN r.source.evidence}

Limitations(r) ==
    Observed(r) \cup (Stated(r) \cap Limited)
    \cup UNION {{<<"source", l[1]>> : l \in r.source.evidence[i].limits} :
                   i \in DOMAIN r.source.evidence}

DeriveCompleteness(r) ==
    [status |-> IF Stated(r) \cap Failed # {} THEN "error"
                ELSE IF Warnings(r) # {} THEN "partial" ELSE "complete",
     warnings |-> Warnings(r), limits |-> Limitations(r)]

(* from_identity, and the validators of the record.                         *)
Sections(source, software, hardware, topology, warnings) ==
    [source |-> source, software |-> software, hardware |-> hardware,
     topology |-> topology, warnings |-> warnings]

FromIdentity(ident, sections) ==
    [torn |-> FALSE, run |-> ident.run, attempt |-> ident.attempt, fp |-> ident.fp,
     sections |-> sections, completeness |-> DeriveCompleteness(sections)]

ProvenanceAccepted(r) ==
    /\ [name |-> "source.snapshot", digest |-> r.sections.source.digest] \in r.fp.inputs
    /\ r.completeness = DeriveCompleteness(r.sections)
    /\ SoftwareAccepted(r.sections.software) /\ TopologyAccepted(r.sections.topology)

(* load_provenance_sidecar: what was parsed agrees with an identity and a   *)
(* snapshot the caller holds.                                               *)
Loads(r, ident, snap) ==
    /\ ~r.torn /\ ProvenanceAccepted(r)
    /\ r.run = ident.run /\ r.attempt = ident.attempt /\ r.fp = ident.fp
    /\ r.sections.source = snap

(* The caller may pass a software, hardware or topology section of its own, *)
(* the last with warnings; the hardware is probed all the same.             *)
Observe(p) ==
    LET c == call[p]
        m == c.set.machine
        own == c.set.own
        captured == TopologyOf(m.env)
        Or(given, probed) == IF given = <<>> THEN probed ELSE given[1]
        r == FromIdentity(c.ident, Sections(c.snap, Or(own.software, Software(m)),
                Or(own.hardware, Accelerator(m)), Or(own.topology, captured),
                IF own.topology = <<>> THEN TopologyWarnings(m)
                ELSE Merged(own.warnings, TopologyWarnings(m))))
    IN
    /\ c.step = "environment"
    /\ IF ProvenanceAccepted(r) /\ TopologyAccepted(captured)
       THEN Learn(p, [step |-> "provenance file", prov |-> r])
       ELSE Stop(p, "escaped")
    /\ NoFault /\ Unwritten

CreateProvenance(p) ==
    /\ call[p].step = "provenance file"
    /\ CreateExclusive(p, "provenance", "provenance bytes")
    /\ UNCHANGED <<tree, edits, calls, runs>>

WriteProvenance(p) ==
    /\ call[p].step = "provenance bytes"
    /\ WriteAll(p, "provenance", call[p].prov, "returned")
    /\ UNCHANGED <<tree, edits, calls, runs>>

----------------------------------------------------------------------------
Next ==
    \/ Edit
    \/ \E p \in Procs :
          \/ Die(p) \/ Again(p) \/ GitFails(p)
          \/ CheckDirty(p) \/ ReadCommitted(p) \/ List(p) \/ ReadEvidence(p)
          \/ Identify(p) \/ MakeDirectoryFails(p) \/ CreateIdentity(p) \/ WriteIdentity(p)
          \/ Observe(p) \/ CreateProvenance(p) \/ WriteProvenance(p)

Spec == Init /\ [][Next]_vars

----------------------------------------------------------------------------
(* Every sidecar on disk is torn or a record of the path it is at, and a    *)
(* call past its identity file has the attempt it writes for.               *)
TypeOK ==
    /\ tree \in Trees
    /\ edits \in 0..MaxEdits /\ calls \in 0..MaxCalls /\ faults \in 0..MaxFaults
    /\ runs \in Nat
    /\ \A q \in DOMAIN files :
          /\ q[1] \in {"identity", "provenance"}
          /\ q[2].n \in 1..runs /\ q[3] \in Attempts
          /\ files[q] = Torn \/ <<files[q].run, files[q].attempt>> = <<q[2], q[3]>>
    /\ \A p \in Procs : call[p].step \in Finished \cup
          {"idle", "committed", "listing", "evidence", "identity", "identity file",
           "identity bytes", "environment", "provenance file", "provenance bytes"}

(* The evidence a capture builds passes its own validators whatever edits   *)
(* fall between listing the tree and reading it: a dirty tree is refused    *)
(* with an untyped error only for an untracked path with a trailing slash,  *)
(* a repository inside the repository. Counts, warnings and limitations are *)
(* computed in _build_dirty_evidence and checked in SourceEvidence.         *)
EvidenceIsAccepted ==
    \A p \in Procs : "refused" \in DOMAIN call[p] =>
        \E u \in call[p].refused.untracked : u.slash

(* Two calls whose captures no edit has disturbed and whose evidence is     *)
(* complete have the same specification fingerprint exactly when the        *)
(* effective configuration, the source tree and the extra inputs are the    *)
(* same; the order of override tokens and of inputs does not enter. Commits *)
(* of one tree and remotes are not told apart; whether a submodule was      *)
(* initialized is evidence of a dirty tree, and not looked at in a clean one.*)
Settled(p) == "ident" \in DOMAIN call[p] /\ call[p].still
Complete(snap) == \A i \in DOMAIN snap.evidence : snap.evidence[i].completeness = "complete"
SourceOf(t) ==
    [head |-> t.head, index |-> t.index, work |-> t.work, other |-> t.other,
     link |-> [m \in Links |-> IF IsDirty(t) THEN t.link[m]
                                ELSE [t.link[m] EXCEPT !.checked = t.link[m].index]]]
SpecificationIsFingerprinted ==
    \A p, q \in {p \in Procs : Settled(p) /\ Complete(call[p].snap)} :
        LET c == call[p]
            d == call[q]
            same == /\ SourceOf(c.seen) = SourceOf(d.seen)
                    /\ ElementsOf(c.set.extra) = ElementsOf(d.set.extra)
        IN  /\ c.set.file = d.set.file /\ same
                  /\ ElementsOf(c.set.tokens) = ElementsOf(d.set.tokens)
                => c.ident.fp = d.ident.fp
            /\ c.ident.fp = d.ident.fp =>
                  /\ same
                  /\ CanonicalBytes(c.set.file, c.set.tokens) = CanonicalBytes(d.set.file, d.set.tokens)

(* All attempts of a run have one specification: a resumed run with another *)
(* configuration or source is refused although the prefix its id embeds may *)
(* be the same. emit.py checks the fingerprint, and says such a change must *)
(* use fork.                                                                *)
RunHasOneSpecification ==
    \A i, j \in Known : i.run = j.run => i.fp = j.fp

(* When prepare_run has returned, training has one attempt to itself, and   *)
(* what is on disk of it is what was returned: its identity, and a          *)
(* provenance that loads with that identity and snapshot while that of no   *)
(* other attempt does.                                                      *)
PreparedIsRecorded ==
    \A p \in {p \in Procs : call[p].step = "returned"} :
        LET c == call[p] IN
        /\ Whole(Sidecar("identity", c)) /\ files[Sidecar("identity", c)] = c.ident
        /\ \A q \in {q \in DOMAIN files : q[1] = "provenance" /\ Whole(q)} :
              Loads(files[q], c.ident, c.snap) <=> q = Sidecar("provenance", c)
        /\ Whole(Sidecar("provenance", c))
        /\ \A r \in Procs \ {p} :
              call[r].step \in {"environment", "provenance file", "provenance bytes", "returned"}
              => Sidecar("identity", call[r]) # Sidecar("identity", c)

(* A record that calls itself complete hides nothing its capture has met:   *)
(* no dirty source, no variable of the launcher that did not parse - also   *)
(* when the caller passes a topology - and no conflict and no failed probe  *)
(* in a section that was captured. A section the caller passes stands for   *)
(* the machine's, and the record does not tell the two apart.               *)
CompleteIsHonest ==
    \A p \in Procs : "prov" \in DOMAIN call[p] =>
        LET m == call[p].set.machine
            own == call[p].set.own
        IN
        call[p].prov.completeness.status = "complete" =>
            /\ ~IsDirty(call[p].seen) /\ m.bad = {}
            /\ own.software = <<>> => m.lockfile # "error" /\ Conflicts(m.deps) = {}
            /\ own.hardware = <<>> => Accelerator(m).status # "error"
            /\ own.topology = <<>> => TopologyOf(m.env).status # "error"
=============================================================================
