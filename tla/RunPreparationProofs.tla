------------------------ MODULE RunPreparationProofs ------------------------
(***************************************************************************)
(* Proofs about RunPreparation, for any trees, edits, settings, attempts,  *)
(* prefixes and bounds: the sidecars on disk are well formed (Typing), a   *)
(* run has one specification (OneSpecification), a call that returned has  *)
(* recorded what it returned (Recorded), a record that calls itself        *)
(* complete hides nothing (HonestCompleteness), the evidence of a dirty    *)
(* tree is accepted by its own validators (AcceptedEvidence), and the      *)
(* fingerprint tells configuration, source and inputs (Fingerprinted).     *)
(***************************************************************************)
EXTENDS RunPreparation, SequenceTheorems, FiniteSetTheorems, TLAPS

(* Steps at which a call has drawn its identity, has created the identity   *)
(* sidecar, has written it, has a provenance record, has created its file.  *)
Identified == {"identity file", "identity bytes", "environment", "provenance file",
               "provenance bytes", "returned"}
HasFile == Identified \ {"identity file"}
HasIdentity == HasFile \ {"identity bytes"}
HasRecord == HasIdentity \ {"environment"}
HasProvenance == HasRecord \ {"provenance file"}
Early == {"idle", "committed", "listing", "evidence", "identity"}
Steps == Finished \cup Early \cup Identified

(* The fields a call has at each step.                                      *)
Shape ==
    /\ DOMAIN call = Procs
    /\ \A p \in Procs :
          /\ "step" \in DOMAIN call[p] /\ call[p].step \in Steps
          /\ call[p].step = "identity" => "snap" \in DOMAIN call[p]
          /\ call[p].step \in Identified => {"ident", "snap"} \subseteq DOMAIN call[p]
          /\ call[p].step \in HasRecord => "prov" \in DOMAIN call[p]

----------------------------------------------------------------------------
(* What Stop, Goto and Learn make of the calls.                             *)

LEMMA Stopped ==
    ASSUME DOMAIN call = Procs, NEW p \in Procs, NEW how, Stop(p, how)
    PROVE  /\ DOMAIN call' = Procs
           /\ \A r \in Procs \ {p} : call'[r] = call[r]
           /\ call'[p] = [step |-> how]
  BY DEF Stop

LEMMA Gone ==
    ASSUME Shape, NEW p \in Procs, NEW step, Goto(p, step)
    PROVE  /\ DOMAIN call' = Procs
           /\ \A r \in Procs \ {p} : call'[r] = call[r]
           /\ DOMAIN call'[p] = DOMAIN call[p]
           /\ call'[p].step = step
           /\ \A f \in DOMAIN call[p] \ {"step"} : call'[p][f] = call[p][f]
  BY DEF Goto, Shape

LEMMA Learned ==
    ASSUME Shape, NEW p \in Procs, NEW more, Learn(p, more)
    PROVE  /\ DOMAIN call' = Procs
           /\ \A r \in Procs \ {p} : call'[r] = call[r]
           /\ DOMAIN call'[p] = DOMAIN more \cup DOMAIN call[p]
           /\ \A f \in DOMAIN more : call'[p][f] = more[f]
           /\ \A f \in DOMAIN call[p] \ DOMAIN more : call'[p][f] = call[p][f]
  BY DEF Learn, Shape

----------------------------------------------------------------------------
(* Steps that leave the disk and every identified call alone.               *)
Quiet ==
    /\ Shape'
    /\ files' = files /\ runs' = runs
    /\ \A r \in Procs : call'[r].step \in Identified => call'[r] = call[r]

(* One call moves to a step at which it has no identity.                    *)
LEMMA EarlyIsQuiet ==
    ASSUME Shape, NEW p \in Procs, DOMAIN call' = Procs,
           \A r \in Procs \ {p} : call'[r] = call[r],
           "step" \in DOMAIN call'[p], call'[p].step \in Steps \ Identified,
           call'[p].step = "identity" => "snap" \in DOMAIN call'[p],
           files' = files, runs' = runs
    PROVE  Quiet
<1>1. HasRecord \subseteq Identified
  BY DEF HasRecord, HasIdentity, HasFile
<1>2. ASSUME NEW r \in Procs
      PROVE  /\ "step" \in DOMAIN call'[r] /\ call'[r].step \in Steps
             /\ call'[r].step = "identity" => "snap" \in DOMAIN call'[r]
             /\ call'[r].step \in Identified => {"ident", "snap"} \subseteq DOMAIN call'[r]
             /\ call'[r].step \in HasRecord => "prov" \in DOMAIN call'[r]
  <2>1. CASE r = p
    BY <1>1, <2>1
  <2>2. CASE r # p
    BY <2>2 DEF Shape
  <2>. QED  BY <2>1, <2>2
<1>3. Shape'
  BY <1>2 DEF Shape
<1>. QED  BY <1>3 DEF Quiet

LEMMA StopIsQuiet ==
    ASSUME Shape, NEW p \in Procs, NEW how \in Finished \ {"returned"}, Stop(p, how),
           files' = files, runs' = runs
    PROVE  Quiet
<1>1. /\ DOMAIN call' = Procs
      /\ \A r \in Procs \ {p} : call'[r] = call[r]
      /\ call'[p] = [step |-> how]
  BY Stopped DEF Shape
<1>2. call'[p].step = how /\ "step" \in DOMAIN call'[p]
  BY <1>1
<1>3. how \in Steps \ Identified /\ how # "identity"
  BY DEF Finished, Steps, Identified
<1>. QED  BY <1>1, <1>2, <1>3, EarlyIsQuiet

LEMMA CaptureIsQuiet ==
    ASSUME Shape, NEW p \in Procs, NEW committed, NEW evidence, Capture(p, committed, evidence),
           files' = files, runs' = runs
    PROVE  Quiet
<1>1. CASE SnapshotAccepted(Snapshot(committed, evidence))
  <2>1. /\ DOMAIN call' = Procs
        /\ \A r \in Procs \ {p} : call'[r] = call[r]
        /\ call'[p].step = "identity" /\ {"step", "snap"} \subseteq DOMAIN call'[p]
    BY <1>1 DEF Capture, Shape
  <2>2. "identity" \in Steps \ Identified
    BY DEF Steps, Early, Identified
  <2>. QED  BY <2>1, <2>2, EarlyIsQuiet
<1>2. CASE ~SnapshotAccepted(Snapshot(committed, evidence))
  <2>1. Stop(p, "escaped")
    BY <1>2 DEF Capture
  <2>. QED  BY <2>1, StopIsQuiet DEF Finished
<1>. QED  BY <1>1, <1>2

(* What a call has learned before it has an identity.                       *)
LEMMA LearningIsQuiet ==
    ASSUME Shape, NEW p \in Procs, NEW more, Learn(p, more), "step" \in DOMAIN more,
           more["step"] \in {"committed", "listing", "evidence", "escaped"},
           files' = files, runs' = runs
    PROVE  Quiet
<1>1. /\ DOMAIN call' = Procs
      /\ \A r \in Procs \ {p} : call'[r] = call[r]
      /\ call'[p].step = more["step"] /\ "step" \in DOMAIN call'[p]
  BY Learned
<1>2. more["step"] \in Steps \ Identified /\ more["step"] # "identity"
  BY DEF Steps, Early, Finished, Identified
<1>. QED  BY <1>1, <1>2, EarlyIsQuiet

LEMMA QuietSteps ==
    ASSUME Shape, NEW p \in Procs,
           \/ Edit \/ Die(p) \/ Again(p) \/ GitFails(p) \/ CheckDirty(p) \/ ReadCommitted(p)
           \/ List(p) \/ ReadEvidence(p) \/ MakeDirectoryFails(p)
    PROVE  Quiet
<1>1. CASE Edit
  <2>1. /\ DOMAIN call' = Procs /\ files' = files /\ runs' = runs
        /\ \A r \in Procs : ~Capturing(r) => call'[r] = call[r]
    BY <1>1 DEF Edit
  <2>2. ASSUME NEW r \in Procs, Capturing(r)
        PROVE  /\ DOMAIN call'[r] = DOMAIN call[r] /\ call'[r].step = call[r].step
               /\ call[r].step \notin Identified \cup HasRecord \cup {"identity"}
    <3>1. call'[r] = [call[r] EXCEPT !.still = FALSE]
      BY <1>1, <2>2 DEF Edit
    <3>2. "step" \in DOMAIN call[r]
      BY DEF Shape
    <3>. QED  BY <3>1, <3>2, <2>2 DEF Capturing, Identified, HasRecord, HasIdentity, HasFile
  <2>. QED  BY <2>1, <2>2 DEF Quiet, Shape
<1>2. CASE Die(p)
  BY <1>2, StopIsQuiet DEF Die, Unwritten, Finished
<1>3. CASE Again(p)
  <2>1. /\ DOMAIN call' = Procs /\ \A r \in Procs \ {p} : call'[r] = call[r]
        /\ call'[p].step = "idle" /\ "step" \in DOMAIN call'[p]
        /\ files' = files /\ runs' = runs
    BY <1>3 DEF Again, Fresh, Shape
  <2>2. "idle" \in Steps \ Identified
    BY DEF Steps, Early, Identified
  <2>. QED  BY <2>1, <2>2, EarlyIsQuiet
<1>4. CASE GitFails(p)
  BY <1>4, StopIsQuiet DEF GitFails, Unwritten, Finished
<1>5. CASE CheckDirty(p)
  <2>1. PICK allowDirty \in BOOLEAN :
           IF IsDirty(tree) /\ ~allowDirty THEN Stop(p, "failed")
           ELSE Learn(p, [step |-> "committed", dirty |-> IsDirty(tree),
                          seen |-> tree, still |-> TRUE])
    BY <1>5 DEF CheckDirty
  <2>2. files' = files /\ runs' = runs
    BY <1>5 DEF CheckDirty
  <2>3. CASE Stop(p, "failed")
    BY <2>2, <2>3, StopIsQuiet DEF Finished
  <2>4. CASE Learn(p, [step |-> "committed", dirty |-> IsDirty(tree),
                       seen |-> tree, still |-> TRUE])
    BY <2>2, <2>4, LearningIsQuiet
  <2>. QED  BY <2>1, <2>3, <2>4
<1>6. CASE ReadCommitted(p)
  <2>1. files' = files /\ runs' = runs
    BY <1>6 DEF ReadCommitted, Unwritten
  <2>2. PICK committed : \/ Learn(p, [step |-> "listing", committed |-> committed])
                         \/ Capture(p, committed, <<>>)
    BY <1>6 DEF ReadCommitted
  <2>3. CASE Learn(p, [step |-> "listing", committed |-> committed])
    BY <2>1, <2>3, LearningIsQuiet
  <2>4. CASE Capture(p, committed, <<>>)
    BY <2>1, <2>4, CaptureIsQuiet
  <2>. QED  BY <2>2, <2>3, <2>4
<1>7. CASE List(p)
  <2>1. files' = files /\ runs' = runs
    BY <1>7 DEF List, Unwritten
  <2>2. PICK listing, blind, known :
           Learn(p, [step |-> "evidence", listing |-> listing, blind |-> blind, known |-> known])
    BY <1>7 DEF List
  <2>. QED  BY <2>1, <2>2, LearningIsQuiet
<1>8. CASE ReadEvidence(p)
  <2>1. files' = files /\ runs' = runs
    BY <1>8 DEF ReadEvidence, Unwritten
  <2>2. PICK e : \/ Capture(p, call[p].committed, <<e>>)
                 \/ Learn(p, [step |-> "escaped", refused |-> e])
    BY <1>8 DEF ReadEvidence
  <2>3. CASE Capture(p, call[p].committed, <<e>>)
    BY <2>1, <2>3, CaptureIsQuiet
  <2>4. CASE Learn(p, [step |-> "escaped", refused |-> e])
    BY <2>1, <2>4, LearningIsQuiet
  <2>. QED  BY <2>2, <2>3, <2>4
<1>9. CASE MakeDirectoryFails(p)
  BY <1>9, StopIsQuiet DEF MakeDirectoryFails, Unwritten, Finished
<1>. QED  BY <1>1, <1>2, <1>3, <1>4, <1>5, <1>6, <1>7, <1>8, <1>9
----------------------------------------------------------------------------
(* What the disk and the calls agree on.                                    *)

Drawn(i) == i.torn = FALSE /\ i.run.n \in 1..runs /\ i.attempt \in Attempts

FileKept(q) ==
    /\ q = <<q[1], q[2], q[3]>> /\ q[1] \in {"identity", "provenance"}
    /\ q[2].n \in 1..runs /\ q[3] \in Attempts
    /\ files[q] = Torn \/ (/\ files[q].torn = FALSE
                           /\ files[q].run = q[2] /\ files[q].attempt = q[3])

(* The provenance of a call is of its identity and its snapshot.            *)
Recording(c) ==
    /\ c.prov.torn = FALSE /\ ProvenanceAccepted(c.prov)
    /\ c.prov.run = c.ident.run /\ c.prov.attempt = c.ident.attempt /\ c.prov.fp = c.ident.fp
    /\ c.prov.sections.source = c.snap

CallKept(p) ==
    /\ call[p].step \in Identified => Drawn(call[p].ident)
    /\ call[p].step \in HasFile => Sidecar("identity", call[p]) \in DOMAIN files
    /\ call[p].step \in HasIdentity => files[Sidecar("identity", call[p])] = call[p].ident
    /\ call[p].step \in HasRecord => Recording(call[p])
    /\ call[p].step \in HasProvenance => Sidecar("provenance", call[p]) \in DOMAIN files
    /\ call[p].step = "returned" => files[Sidecar("provenance", call[p])] = call[p].prov

(* Two calls that have created their identity file have distinct attempts.  *)
Apart ==
    \A p, r \in Procs :
        p # r /\ call[p].step \in HasFile /\ call[r].step \in HasFile
        => Sidecar("identity", call[p]) # Sidecar("identity", call[r])

(* RunHasOneSpecification, of the identities on disk and those drawn.       *)
Idents == Known \cup {call[p].ident : p \in {p \in Procs : call[p].step \in Identified}}
OneEach == \A i, j \in Idents : i.run = j.run => i.fp = j.fp

PInv ==
    /\ Shape /\ runs \in Nat
    /\ \A q \in DOMAIN files : FileKept(q)
    /\ \A p \in Procs : CallKept(p)
    /\ Apart /\ OneEach

----------------------------------------------------------------------------
(* How the counter of runs grows, and what the disk keeps.                  *)

LEMMA Grows ==
    ASSUME NEW m \in Nat, NEW k, k = m \/ k = m + 1
    PROVE  k \in Nat /\ \A n \in 1..m : n \in 1..k
  OBVIOUS

LEMMA PutAt ==
    ASSUME NEW path, NEW contents, Put(path, contents)
    PROVE  /\ DOMAIN files' = DOMAIN files \cup {path}
           /\ files'[path] = contents
           /\ \A q \in DOMAIN files \ {path} : files'[q] = files[q]
  BY DEF Put

LEMMA RemoveAt ==
    ASSUME NEW path, Remove(path)
    PROVE  /\ DOMAIN files' = DOMAIN files \ {path}
           /\ \A q \in DOMAIN files \ {path} : files'[q] = files[q]
  BY DEF Remove

(* Identities that were drawn before this step stay what they were.         *)
LEMMA DrawnStays ==
    ASSUME runs \in Nat, runs' = runs \/ runs' = runs + 1, NEW i, Drawn(i)
    PROVE  Drawn(i)'
  BY Grows DEF Drawn

(* Every identity is drawn.                                                 *)
LEMMA IdentsAreDrawn ==
    ASSUME PInv, NEW i \in Idents
    PROVE  i.run.n \in 1..runs
<1>1. CASE i \in Known
  <2>1. PICK q \in DOMAIN files : q[1] = "identity" /\ Whole(q) /\ i = files[q]
    BY <1>1 DEF Known
  <2>2. files[q] # Torn
    BY <2>1 DEF Whole, Torn
  <2>. QED  BY <2>1, <2>2 DEF PInv, FileKept
<1>2. CASE i \notin Known
  BY <1>2 DEF PInv, CallKept, Idents, Drawn
<1>. QED  BY <1>1, <1>2

(* A run id that is retained is that of a known run with the fingerprint.   *)
LEMMA RetainedIsKnown ==
    ASSUME NEW fp, NEW mode \in Modes, NEW parent \in Parents, ModeAccepted(mode, fp, parent),
           parent.retained # <<>>
    PROVE  \E i \in Known : parent.retained[1] = i.run /\ fp = i.fp
<1>1. Retains(fp, parent)
  <2>1. mode # "fork"
    BY DEF ModeAccepted
  <2>2. mode # "independent"
    <3>1. Parent(<<>>, <<>>, <<>>).retained = <<>>
      BY DEF Parent
    <3>. QED  BY <3>1 DEF ModeAccepted
  <2>. QED  BY <2>1, <2>2 DEF ModeAccepted, Modes
<1>2. parent.lineage # <<>> /\ parent.fingerprint = <<fp>>
      /\ parent.lineage[1].run = parent.retained[1]
  BY <1>1 DEF Retains, VerifyParentSpec
<1>3. PICK i \in Known :
        /\ parent.lineage \in
              Optional({[run |-> i.run, attempt |-> a] : a \in Optional({i.attempt})})
        /\ parent.fingerprint \in Optional({i.fp})
  <2>1. parent # Parent(<<>>, <<>>, <<>>)
    BY DEF Parent
  <2>2. PICK i \in Known :
          parent \in [lineage : Optional({[run |-> i.run, attempt |-> a] : a \in Optional({i.attempt})}),
                     fingerprint : Optional({i.fp}), retained : Optional({k.run : k \in Known})]
    BY <2>1, Zenon DEF Parents
  <2>. QED  BY <2>2
<1>4. fp = i.fp
  BY <1>2, <1>3 DEF Optional
<1>5. parent.lineage[1].run = i.run
  <2>1. PICK x \in {[run |-> i.run, attempt |-> a] : a \in Optional({i.attempt})} :
              parent.lineage = <<x>>
    BY <1>2, <1>3 DEF Optional
  <2>. QED  BY <2>1
<1>. QED  BY <1>2, <1>4, <1>5

----------------------------------------------------------------------------
(* Steps of other calls, and steps that are quiet.                          *)

LEMMA Nested ==
    /\ "returned" \in HasProvenance /\ HasProvenance \subseteq HasRecord
    /\ HasRecord \subseteq HasIdentity /\ HasIdentity \subseteq HasFile
    /\ HasFile \subseteq Identified
  BY DEF HasProvenance, HasRecord, HasIdentity, HasFile, Identified

LEMMA OtherKept ==
    ASSUME PInv, NEW r \in Procs, call'[r] = call[r], runs' = runs \/ runs' = runs + 1,
           call[r].step \in HasFile => \A q \in DOMAIN files :
              q \in {Sidecar("identity", call[r]), Sidecar("provenance", call[r])}
              => q \in DOMAIN files' /\ files'[q] = files[q]
    PROVE  CallKept(r)'
<1>1. runs \in Nat /\ CallKept(r)
  BY DEF PInv
<1>2. call[r].step \in Identified => Drawn(call[r].ident)'
  BY <1>1, DrawnStays DEF CallKept
<1>3. Recording(call[r])' = Recording(call[r])
  BY DEF Recording, ProvenanceAccepted, DeriveCompleteness
<1>. QED  BY <1>1, <1>2, <1>3, Nested DEF CallKept, Sidecar

LEMMA FileStays ==
    ASSUME PInv, runs' = runs \/ runs' = runs + 1, NEW q \in DOMAIN files,
           files'[q] = files[q]
    PROVE  FileKept(q)'
<1>1. runs \in Nat /\ FileKept(q)
  BY DEF PInv
<1>2. q[2].n \in 1..runs'
  BY <1>1, Grows DEF FileKept
<1>. QED  BY <1>1, <1>2 DEF FileKept

LEMMA QuietKeeps ==
    ASSUME PInv, Quiet
    PROVE  PInv'
<1>1. Shape' /\ runs' \in Nat
  BY DEF Quiet, PInv
<1>2. ASSUME NEW q \in DOMAIN files'
      PROVE  FileKept(q)'
  BY <1>2, FileStays DEF Quiet
<1>3. ASSUME NEW r \in Procs
      PROVE  CallKept(r)'
  <2>1. CASE call'[r].step \in Identified
    BY <2>1, OtherKept DEF Quiet
  <2>2. CASE call'[r].step \notin Identified
    BY <2>2, Nested DEF CallKept
  <2>. QED  BY <2>1, <2>2
<1>4. Apart'
  BY Nested DEF PInv, Apart, Quiet, Sidecar
<1>5. OneEach'
  <2>1. Known' = Known
    BY DEF Quiet, Known, Whole
  <2>2. Idents' \subseteq Idents
    BY <2>1 DEF Idents, Quiet
  <2>. QED  BY <2>2 DEF OneEach, PInv
<1>. QED  BY <1>1, <1>2, <1>3, <1>4, <1>5 DEF PInv

----------------------------------------------------------------------------
(* Identify either stops or draws an identity, of a new run or of one that  *)
(* is known.                                                                *)
LEMMA IdentityIsDrawn ==
    ASSUME PInv, NEW p \in Procs, Identify(p)
    PROVE  \/ Quiet
           \/ \E set, ident :
                 /\ Learn(p, [step |-> "identity file", set |-> set, ident |-> ident])
                 /\ ident.torn = FALSE /\ ident.attempt \in Attempts
                 /\ files' = files
                 /\ \/ runs' = runs + 1 /\ ident.run.n = runs + 1
                    \/ runs' = runs /\ \E i \in Known : ident.run = i.run /\ ident.fp = i.fp
<1>1. files' = files /\ Shape
  BY DEF Identify, PInv
<1>2. CASE runs' = runs /\ \E how \in Finished \ {"returned"} : Stop(p, how)
  BY <1>1, <1>2, StopIsQuiet
<1>3. CASE \E set, fp : \E mode \in Modes, parent \in Parents, attempt \in Attempts :
              /\ ModeAccepted(mode, fp, parent)
              /\ Learn(p, [step |-> "identity file", set |-> set,
                           ident |-> IdentityRecord(fp, parent, attempt)])
              /\ runs' = IF parent.retained # <<>> THEN runs ELSE runs + 1
  <2>1. PICK set, fp : \E mode \in Modes, parent \in Parents, attempt \in Attempts :
              /\ ModeAccepted(mode, fp, parent)
              /\ Learn(p, [step |-> "identity file", set |-> set,
                           ident |-> IdentityRecord(fp, parent, attempt)])
              /\ runs' = IF parent.retained # <<>> THEN runs ELSE runs + 1
    BY <1>3
  <2>2. PICK mode \in Modes, parent \in Parents, attempt \in Attempts :
              /\ ModeAccepted(mode, fp, parent)
              /\ Learn(p, [step |-> "identity file", set |-> set,
                           ident |-> IdentityRecord(fp, parent, attempt)])
              /\ runs' = IF parent.retained # <<>> THEN runs ELSE runs + 1
    BY <2>1
  <2> DEFINE ident == IdentityRecord(fp, parent, attempt)
  <2>3. /\ ident.torn = FALSE /\ ident.attempt \in Attempts /\ ident.fp = fp
        /\ ident.run = IF parent.retained # <<>> THEN parent.retained[1] ELSE RunId(fp)
    BY DEF IdentityRecord
  <2>. HIDE DEF ident
  <2>4. CASE parent.retained = <<>>
    <3>1. runs' = runs + 1
      BY <2>2, <2>4
    <3>2. ident.run.n = runs + 1
      BY <2>3, <2>4 DEF RunId
    <3>. QED  BY <1>1, <2>2, <2>3, <3>1, <3>2 DEF ident
  <2>5. CASE parent.retained # <<>>
    <3>1. \E i \in Known : ident.run = i.run /\ ident.fp = i.fp
      <4>1. \E i \in Known : parent.retained[1] = i.run /\ fp = i.fp
        BY <2>2, <2>5, RetainedIsKnown
      <4>. QED  BY <2>3, <2>5, <4>1
    <3>2. runs' = runs
      BY <2>2, <2>5
    <3>. QED  BY <1>1, <2>2, <2>3, <3>1, <3>2 DEF ident
  <2>. QED  BY <2>4, <2>5
<1>4. \/ runs' = runs /\ \E how \in Finished \ {"returned"} : Stop(p, how)
      \/ \E set, fp : \E mode \in Modes, parent \in Parents, attempt \in Attempts :
              /\ ModeAccepted(mode, fp, parent)
              /\ Learn(p, [step |-> "identity file", set |-> set,
                           ident |-> IdentityRecord(fp, parent, attempt)])
              /\ runs' = IF parent.retained # <<>> THEN runs ELSE runs + 1
  <2>1. {"failed", "escaped"} \subseteq Finished \ {"returned"}
    BY DEF Finished
  <2> DEFINE inputs(set) == <<[name |-> "source.snapshot", digest |-> call[p].snap.digest]>>
                            \o set.extra
             fp(set) == SpecificationFingerprint(CanonicalBytes(set.file, set.tokens), inputs(set))
             accepted(f) == {a \in [mode : Modes, parent : Parents, checks : BOOLEAN] :
                                ModeAccepted(a.mode, f, a.parent)}
  <2>2. PICK set :
          \/ Stop(p, "escaped") /\ UNCHANGED runs
          \/ Stop(p, "failed") /\ UNCHANGED runs
          \/ \E x \in UNION {[parent : {a.parent}, attempt : AttemptCandidates(a.checks)] :
                                   a \in accepted(fp(set))} :
                 /\ Learn(p, [step |-> "identity file", set |-> set,
                              ident |-> IdentityRecord(fp(set), x.parent, x.attempt)])
                 /\ runs' = IF x.parent.retained # <<>> THEN runs ELSE runs + 1
    BY Zenon DEF Identify
  <2>3. CASE Stop(p, "escaped") /\ UNCHANGED runs
    BY <2>1, <2>3
  <2>4. CASE Stop(p, "failed") /\ UNCHANGED runs
    BY <2>1, <2>4
  <2>5. ASSUME NEW a \in accepted(fp(set)),
               NEW x \in [parent : {a.parent}, attempt : AttemptCandidates(a.checks)],
               Learn(p, [step |-> "identity file", set |-> set,
                              ident |-> IdentityRecord(fp(set), x.parent, x.attempt)]),
               runs' = IF x.parent.retained # <<>> THEN runs ELSE runs + 1
        PROVE  \E mode \in Modes, parent \in Parents, attempt \in Attempts :
                  /\ ModeAccepted(mode, fp(set), parent)
                  /\ Learn(p, [step |-> "identity file", set |-> set,
                           ident |-> IdentityRecord(fp(set), parent, attempt)])
                  /\ runs' = IF parent.retained # <<>> THEN runs ELSE runs + 1
    <3>1. a.mode \in Modes /\ a.parent \in Parents /\ ModeAccepted(a.mode, fp(set), a.parent)
      OBVIOUS
    <3>2. x.parent = a.parent /\ x.attempt \in Attempts
      BY DEF AttemptCandidates
    <3>. HIDE DEF fp
    <3>. QED  BY <2>5, <3>1, <3>2
  <2>. HIDE DEF fp, accepted
  <2>. QED  BY <2>2, <2>3, <2>4, <2>5
<1>. QED  BY <1>2, <1>3, <1>4

LEMMA IdentifyKeeps ==
    ASSUME PInv, NEW p \in Procs, Identify(p)
    PROVE  PInv'
<1>1. SUFFICES ASSUME NEW set, NEW ident,
                      Learn(p, [step |-> "identity file", set |-> set, ident |-> ident]),
                      ident.torn = FALSE, ident.attempt \in Attempts, files' = files,
                      \/ runs' = runs + 1 /\ ident.run.n = runs + 1
                      \/ runs' = runs /\ \E i \in Known : ident.run = i.run /\ ident.fp = i.fp
               PROVE  PInv'
  BY IdentityIsDrawn, QuietKeeps
<1>2. runs \in Nat /\ Shape /\ call[p].step = "identity"
  BY DEF PInv, Identify
<1>3. /\ DOMAIN call' = Procs
      /\ \A r \in Procs \ {p} : call'[r] = call[r]
      /\ {"step", "ident", "snap"} \subseteq DOMAIN call'[p]
      /\ call'[p].step = "identity file" /\ call'[p].ident = ident
  <2>1. "snap" \in DOMAIN call[p]
    BY <1>2 DEF Shape
  <2> DEFINE more == [step |-> "identity file", set |-> set, ident |-> ident]
  <2>2. /\ {"step", "ident"} \subseteq DOMAIN more /\ "snap" \notin DOMAIN more
        /\ more["step"] = "identity file" /\ more["ident"] = ident
    OBVIOUS
  <2>3. Learn(p, more)
    BY <1>1
  <2>. HIDE DEF more
  <2>4. /\ DOMAIN call' = Procs
        /\ \A q \in Procs \ {p} : call'[q] = call[q]
        /\ DOMAIN call'[p] = DOMAIN more \cup DOMAIN call[p]
        /\ \A f \in DOMAIN more : call'[p][f] = more[f]
        /\ \A f \in DOMAIN call[p] \ DOMAIN more : call'[p][f] = call[p][f]
    BY <1>2, <2>3, Learned
  <2>5. call'[p].step = "identity file" /\ call'[p].ident = ident
    BY <2>2, <2>4
  <2>. QED  BY <2>1, <2>2, <2>4, <2>5
<1>4. /\ "identity file" \in Steps /\ "identity file" \in Identified
      /\ "identity file" \notin HasFile \cup HasIdentity \cup HasRecord \cup HasProvenance
  BY DEF Steps, Identified, HasFile, HasIdentity, HasRecord, HasProvenance
<1>5. runs' = runs \/ runs' = runs + 1
  BY <1>1
<1>6. ident.run.n \in 1..runs'
  <2>1. CASE runs' = runs + 1 /\ ident.run.n = runs + 1
    BY <1>2, <2>1
  <2>2. CASE runs' = runs /\ \E i \in Known : ident.run = i.run
    BY <2>2, IdentsAreDrawn DEF Idents
  <2>. QED  BY <1>1, <2>1, <2>2
<1>7. Shape'
  BY <1>2, <1>3, <1>4 DEF Shape
<1>8. ASSUME NEW q \in DOMAIN files'
      PROVE  FileKept(q)'
  BY <1>1, <1>5, FileStays
<1>9. ASSUME NEW r \in Procs
      PROVE  CallKept(r)'
  <2>1. CASE r = p
    <3>1. Drawn(ident)'
      BY <1>1, <1>6 DEF Drawn
    <3>. QED  BY <1>3, <1>4, <2>1, <3>1 DEF CallKept
  <2>2. CASE r # p
    BY <1>1, <1>3, <1>5, <2>2, OtherKept
  <2>. QED  BY <2>1, <2>2
<1>10. Apart'
  <2>1. ASSUME NEW a \in Procs, NEW b \in Procs, a # b,
               call'[a].step \in HasFile, call'[b].step \in HasFile
        PROVE  Sidecar("identity", call'[a]) # Sidecar("identity", call'[b])
    <3>1. call'[a] = call[a] /\ call'[b] = call[b]
      BY <1>3, <1>4, <2>1
    <3>. QED  BY <2>1, <3>1 DEF PInv, Apart
  <2>. QED  BY <2>1 DEF Apart, Sidecar
<1>11. OneEach'
  <2>1. Known' = Known
    BY <1>1 DEF Known, Whole
  <2>2. Idents' \subseteq Idents \cup {ident}
    BY <1>3, <2>1 DEF Idents
  <2>3. ASSUME NEW i \in Idents, i.run = ident.run
        PROVE  i.fp = ident.fp
    <3>1. CASE runs' = runs + 1 /\ ident.run.n = runs + 1
      <4>1. i.run.n \in 1..runs
        BY IdentsAreDrawn
      <4>. QED  BY <1>2, <2>3, <3>1, <4>1
    <3>2. CASE \E k \in Known : ident.run = k.run /\ ident.fp = k.fp
      BY <2>3, <3>2 DEF PInv, OneEach, Idents
    <3>. QED  BY <1>1, <3>1, <3>2
  <2>. QED  BY <2>2, <2>3 DEF PInv, OneEach
<1>. QED  BY <1>2, <1>5, <1>7, <1>8, <1>9, <1>10, <1>11, Grows DEF PInv

LEMMA ObserveKeeps ==
    ASSUME PInv, NEW p \in Procs, Observe(p)
    PROVE  PInv'
<1>1. files' = files /\ runs' = runs /\ Shape /\ call[p].step = "environment"
  BY DEF Observe, Unwritten, PInv
<1>2. CASE Stop(p, "escaped")
  BY <1>1, <1>2, StopIsQuiet, QuietKeeps DEF Finished
<1>3. ASSUME NEW r, Learn(p, [step |-> "provenance file", prov |-> r]), r.torn = FALSE,
             ProvenanceAccepted(r), r.run = call[p].ident.run,
             r.attempt = call[p].ident.attempt, r.fp = call[p].ident.fp,
             r.sections.source = call[p].snap
      PROVE  PInv'
  <2>1. {"ident", "snap"} \subseteq DOMAIN call[p]
    BY <1>1 DEF Shape, Identified
  <2>2. /\ DOMAIN call' = Procs
        /\ \A q \in Procs \ {p} : call'[q] = call[q]
        /\ {"step", "ident", "snap", "prov"} \subseteq DOMAIN call'[p]
        /\ call'[p].step = "provenance file" /\ call'[p].prov = r
        /\ call'[p].ident = call[p].ident /\ call'[p].snap = call[p].snap
    <3> DEFINE more == [step |-> "provenance file", prov |-> r]
    <3>1. /\ {"step", "prov"} \subseteq DOMAIN more /\ {"ident", "snap"} \cap DOMAIN more = {}
          /\ more["step"] = "provenance file" /\ more["prov"] = r
      OBVIOUS
    <3>2. Learn(p, more)
      BY <1>3
    <3>. HIDE DEF more
    <3>3. /\ DOMAIN call' = Procs
          /\ \A q \in Procs \ {p} : call'[q] = call[q]
          /\ DOMAIN call'[p] = DOMAIN more \cup DOMAIN call[p]
          /\ \A f \in DOMAIN more : call'[p][f] = more[f]
          /\ \A f \in DOMAIN call[p] \ DOMAIN more : call'[p][f] = call[p][f]
      BY <1>1, <3>2, Learned
    <3>5. call'[p].step = "provenance file" /\ call'[p].prov = r
      BY <3>1, <3>3
    <3>6. call'[p].ident = call[p].ident /\ call'[p].snap = call[p].snap
      BY <2>1, <3>1, <3>3
    <3>. QED  BY <1>1, <2>1, <3>1, <3>3, <3>5, <3>6 DEF Shape
  <2>3. /\ "provenance file" \in Steps /\ "provenance file" \in Identified \cap HasFile
        /\ "provenance file" \notin HasProvenance
        /\ "environment" \in Identified \cap HasFile \cap HasIdentity
    BY DEF Steps, Identified, HasFile, HasIdentity, HasRecord, HasProvenance
  <2>4. Shape'
    BY <1>1, <2>2, <2>3 DEF Shape
  <2>5. ASSUME NEW q \in DOMAIN files'
        PROVE  FileKept(q)'
    BY <1>1, FileStays
  <2>6. ASSUME NEW q \in Procs
        PROVE  CallKept(q)'
    <3>1. CASE q = p
      <4>1. Drawn(call[p].ident) /\ Sidecar("identity", call[p]) \in DOMAIN files
            /\ files[Sidecar("identity", call[p])] = call[p].ident
        BY <1>1, <2>3 DEF PInv, CallKept
      <4>2. Recording(call'[p])
        BY <1>3, <2>2 DEF Recording
      <4>3. Sidecar("identity", call'[p]) = Sidecar("identity", call[p])
        BY <2>2 DEF Sidecar
      <4>. QED  BY <1>1, <2>2, <2>3, <3>1, <4>1, <4>2, <4>3
                DEF CallKept, Drawn, Recording, ProvenanceAccepted, DeriveCompleteness
    <3>2. CASE q # p
      BY <1>1, <2>2, <3>2, OtherKept
    <3>. QED  BY <3>1, <3>2
  <2>7. Apart'
    <3>1. ASSUME NEW q \in Procs
          PROVE  /\ call'[q].step \in HasFile => call[q].step \in HasFile
                 /\ call[q].step \in HasFile
                      => Sidecar("identity", call'[q]) = Sidecar("identity", call[q])
      BY <1>1, <2>2, <2>3 DEF Sidecar
    <3>2. \A a, b \in Procs :
             a # b /\ call'[a].step \in HasFile /\ call'[b].step \in HasFile
             => Sidecar("identity", call'[a]) # Sidecar("identity", call'[b])
      BY <3>1 DEF PInv, Apart
    <3>. QED  BY <3>2 DEF Apart, Sidecar
  <2>8. OneEach'
    <3>1. Known' = Known
      BY <1>1 DEF Known, Whole
    <3>2. Idents' \subseteq Idents
      BY <1>1, <2>2, <2>3, <3>1 DEF Idents
    <3>. QED  BY <3>2 DEF PInv, OneEach
  <2>. QED  BY <1>1, <2>4, <2>5, <2>6, <2>7, <2>8 DEF PInv
<1>4. \/ Stop(p, "escaped")
      \/ \E r : /\ Learn(p, [step |-> "provenance file", prov |-> r]) /\ r.torn = FALSE
                /\ ProvenanceAccepted(r) /\ r.run = call[p].ident.run
                /\ r.attempt = call[p].ident.attempt /\ r.fp = call[p].ident.fp
                /\ r.sections.source = call[p].snap
  <2>1. \A software, hardware, topology, warnings :
           LET sections == Sections(call[p].snap, software, hardware, topology, warnings)
               r == FromIdentity(call[p].ident, sections)
           IN  /\ r.torn = FALSE /\ r.run = call[p].ident.run
               /\ r.attempt = call[p].ident.attempt /\ r.fp = call[p].ident.fp
               /\ r.sections.source = call[p].snap
    BY DEF FromIdentity, Sections
  <2>2. PICK software, hardware, topology, warnings :
           LET sections == Sections(call[p].snap, software, hardware, topology, warnings)
               r == FromIdentity(call[p].ident, sections)
           IN  \/ Stop(p, "escaped")
               \/ ProvenanceAccepted(r) /\ Learn(p, [step |-> "provenance file", prov |-> r])
    BY Zenon DEF Observe
  <2>. QED  BY <2>1, <2>2
<1>. QED  BY <1>2, <1>3, <1>4

----------------------------------------------------------------------------
(* Writing the sidecars.                                                    *)

LEMMA PathIsOwn ==
    ASSUME PInv, NEW p \in Procs, NEW r \in Procs \ {p}, NEW kind,
           call[p].step \in HasFile, call[r].step \in HasFile
    PROVE  Sidecar(kind, call[p]) \notin
              {Sidecar("identity", call[r]), Sidecar("provenance", call[r])}
<1>1. Sidecar("identity", call[p]) # Sidecar("identity", call[r])
  BY DEF PInv, Apart
<1>. QED  BY <1>1 DEF Sidecar

LEMMA PathIsKept ==
    ASSUME PInv, NEW p \in Procs, call[p].step \in Identified,
           NEW kind \in {"identity", "provenance"}
    PROVE  LET q == Sidecar(kind, call[p]) IN
           /\ q = <<q[1], q[2], q[3]>> /\ q[1] = kind /\ q[2].n \in 1..runs /\ q[3] \in Attempts
           /\ q[2] = call[p].ident.run /\ q[3] = call[p].ident.attempt
  BY DEF PInv, CallKept, Drawn, Sidecar

LEMMA RemoveKeeps ==
    ASSUME PInv, NEW p \in Procs, NEW kind, call[p].step \in HasFile,
           Remove(Sidecar(kind, call[p])), Stop(p, "failed"), runs' = runs
    PROVE  PInv'
<1> DEFINE path == Sidecar(kind, call[p])
<1>1. /\ DOMAIN files' = DOMAIN files \ {path}
      /\ \A q \in DOMAIN files \ {path} : files'[q] = files[q]
  BY RemoveAt
<1>. HIDE DEF path
<1>2. /\ DOMAIN call' = Procs
      /\ \A r \in Procs \ {p} : call'[r] = call[r]
      /\ call'[p].step = "failed" /\ "step" \in DOMAIN call'[p]
  <2>1. call'[p] = [step |-> "failed"]
    BY Stopped DEF PInv, Shape
  <2>. QED  BY <2>1, Stopped DEF PInv, Shape
<1>3. "failed" \in Steps /\ "failed" \notin Identified \cup HasFile
  BY DEF Steps, Finished, Identified, HasFile
<1>4. Shape'
  BY <1>2, <1>3, Nested DEF PInv, Shape
<1>5. ASSUME NEW q \in DOMAIN files'
      PROVE  FileKept(q)'
  BY <1>1, FileStays
<1>6. ASSUME NEW r \in Procs
      PROVE  CallKept(r)'
  <2>1. CASE r = p
    BY <1>2, <1>3, <2>1, Nested DEF CallKept
  <2>2. CASE r # p
    BY <1>1, <1>2, <2>2, PathIsOwn, OtherKept DEF path
  <2>. QED  BY <2>1, <2>2
<1>7. Apart'
  <2>1. ASSUME NEW a \in Procs, NEW b \in Procs, a # b,
               call'[a].step \in HasFile, call'[b].step \in HasFile
        PROVE  Sidecar("identity", call'[a]) # Sidecar("identity", call'[b])
    <3>1. call'[a] = call[a] /\ call'[b] = call[b]
      BY <1>2, <1>3, <2>1
    <3>. QED  BY <2>1, <3>1 DEF PInv, Apart
  <2>. QED  BY <2>1 DEF Apart, Sidecar
<1>8. OneEach'
  <2>1. Known' \subseteq Known
    BY <1>1 DEF Known, Whole
  <2>2. Idents' \subseteq Idents
    BY <1>2, <1>3, <2>1 DEF Idents
  <2>. QED  BY <2>2 DEF PInv, OneEach
<1>. QED  BY <1>4, <1>5, <1>6, <1>7, <1>8 DEF PInv

(* A call writes a sidecar of its own and moves on.                         *)
LEMMA PutKeeps ==
    ASSUME PInv, NEW p \in Procs, NEW kind \in {"identity", "provenance"}, NEW next, NEW contents,
           Put(Sidecar(kind, call[p]), contents), Goto(p, next), runs' = runs,
           call[p].step \in Identified, next \in HasFile,
           next \in HasRecord => call[p].step \in HasRecord,
           call[p].step \in HasFile \/ Sidecar("identity", call[p]) \notin DOMAIN files,
           call[p].step \in HasFile \/ kind = "identity",
           \/ contents = Torn
           \/ /\ contents.torn = FALSE /\ contents.run = call[p].ident.run
              /\ contents.attempt = call[p].ident.attempt
              /\ kind = "identity" => contents = call[p].ident,
           CallKept(p)'
    PROVE  PInv'
<1> DEFINE path == Sidecar(kind, call[p])
<1>1. /\ DOMAIN files' = DOMAIN files \cup {path}
      /\ files'[path] = contents
      /\ \A q \in DOMAIN files \ {path} : files'[q] = files[q]
  BY PutAt
<1>2. /\ path = <<path[1], path[2], path[3]>> /\ path[1] = kind
      /\ path[2].n \in 1..runs /\ path[3] \in Attempts
      /\ path[2] = call[p].ident.run /\ path[3] = call[p].ident.attempt
  BY PathIsKept
<1>3. Shape
  BY DEF PInv
<1>4. /\ DOMAIN call' = Procs
      /\ \A r \in Procs \ {p} : call'[r] = call[r]
      /\ DOMAIN call'[p] = DOMAIN call[p] /\ call'[p].step = next
      /\ call'[p].ident = call[p].ident
  <2>1. "ident" \in DOMAIN call[p] \ {"step"}
    BY <1>3 DEF Shape
  <2>. QED  BY <1>3, <2>1, Gone
<1>5. next \in Steps /\ next \in Identified /\ next # "identity"
  BY Nested DEF Steps, Identified
<1>. HIDE DEF path
<1>6. Shape'
  BY <1>3, <1>4, <1>5 DEF Shape
<1>7. ASSUME NEW q \in DOMAIN files'
      PROVE  FileKept(q)'
  <2>1. CASE q = path
    BY <1>1, <1>2, <2>1 DEF FileKept
  <2>2. CASE q # path
    BY <1>1, <2>2, FileStays
  <2>. QED  BY <2>1, <2>2
<1>8. ASSUME NEW r \in Procs
      PROVE  CallKept(r)'
  <2>1. CASE r # p
    <3>1. ASSUME call[r].step \in HasFile, NEW q \in DOMAIN files,
                 q \in {Sidecar("identity", call[r]), Sidecar("provenance", call[r])}
          PROVE  q # path
      <4>1. CASE call[p].step \in HasFile
        BY <2>1, <3>1, <4>1, PathIsOwn DEF path
      <4>2. CASE call[p].step \notin HasFile
        BY <3>1, <4>2 DEF path
      <4>. QED  BY <4>1, <4>2
    <3>. QED  BY <1>1, <1>4, <2>1, <3>1, OtherKept
  <2>. QED  BY <2>1
<1>9. Apart'
  <2>1. ASSUME NEW r \in Procs \ {p}, call[r].step \in HasFile
        PROVE  Sidecar("identity", call[p]) # Sidecar("identity", call[r])
    <3>1. Sidecar("identity", call[r]) \in DOMAIN files
      BY <2>1 DEF PInv, CallKept
    <3>. QED  BY <2>1, <3>1 DEF PInv, Apart
  <2>2. \A r \in Procs : Sidecar("identity", call'[r]) = Sidecar("identity", call[r])
    BY <1>4 DEF Sidecar
  <2>3. \A a, b \in Procs :
           a # b /\ call'[a].step \in HasFile /\ call'[b].step \in HasFile
           => Sidecar("identity", call[a]) # Sidecar("identity", call[b])
    BY <1>4, <2>1 DEF PInv, Apart
  <2>4. \A a, b \in Procs :
           a # b /\ call'[a].step \in HasFile /\ call'[b].step \in HasFile
           => Sidecar("identity", call'[a]) # Sidecar("identity", call'[b])
    BY <2>2, <2>3
  <2>. QED  BY <2>4 DEF Apart, Sidecar
<1>10. OneEach'
  <2>1. Known' \subseteq Known \cup {call[p].ident}
    BY <1>1, <1>2 DEF Known, Whole, Torn
  <2>2. Idents' \subseteq Idents
    BY <1>4, <2>1 DEF Idents
  <2>. QED  BY <2>2 DEF PInv, OneEach
<1>. QED  BY <1>6, <1>7, <1>8, <1>9, <1>10 DEF PInv

(* A call that moves on keeps what it has learned.                          *)
LEMMA Moved ==
    ASSUME PInv, NEW p \in Procs, NEW next, Goto(p, next), call[p].step \in Identified
    PROVE  /\ call'[p].step = next /\ call'[p].ident = call[p].ident
           /\ \A kind : Sidecar(kind, call'[p]) = Sidecar(kind, call[p])
           /\ call[p].step \in HasRecord => call'[p].prov = call[p].prov /\ Recording(call'[p])
<1>1. Shape /\ CallKept(p)
  BY DEF PInv
<1>2. {"ident", "snap"} \subseteq DOMAIN call[p] \ {"step"}
  BY <1>1 DEF Shape
<1>3. /\ call'[p].step = next
      /\ \A f \in DOMAIN call[p] \ {"step"} : call'[p][f] = call[p][f]
  BY <1>1, Gone
<1>4. call'[p].ident = call[p].ident /\ call'[p].snap = call[p].snap
  BY <1>2, <1>3
<1>5. ASSUME call[p].step \in HasRecord
      PROVE  call'[p].prov = call[p].prov /\ Recording(call'[p])
  <2>1. call'[p].prov = call[p].prov
    BY <1>1, <1>3, <1>5 DEF Shape
  <2>. QED  BY <1>1, <1>4, <1>5, <2>1 DEF CallKept, Recording
<1>. QED  BY <1>3, <1>4, <1>5 DEF Sidecar

LEMMA CreateIdentityKeeps ==
    ASSUME PInv, NEW p \in Procs, CreateIdentity(p)
    PROVE  PInv'
<1>1. call[p].step = "identity file" /\ runs' = runs
  BY DEF CreateIdentity
<1>2. CASE Stop(p, "failed") /\ UNCHANGED files
  BY <1>1, <1>2, StopIsQuiet, QuietKeeps DEF PInv, Finished
<1>3. CASE /\ Sidecar("identity", call[p]) \notin DOMAIN files
           /\ Put(Sidecar("identity", call[p]), Torn) /\ Goto(p, "identity bytes")
  <2>1. /\ "identity file" \in Identified /\ "identity bytes" \in HasFile
        /\ "identity bytes" \notin HasIdentity
    BY DEF Identified, HasFile, HasIdentity
  <2>2. Drawn(call[p].ident)
    BY <1>1, <2>1 DEF PInv, CallKept
  <2>3. Sidecar("identity", call[p]) \in DOMAIN files'
    BY <1>3, PutAt
  <2>4. /\ call'[p].step = "identity bytes" /\ call'[p].ident = call[p].ident
        /\ Sidecar("identity", call'[p]) = Sidecar("identity", call[p])
    BY <1>1, <1>3, <2>1, Moved
  <2>5. CallKept(p)'
    BY <1>1, <2>1, <2>2, <2>3, <2>4, Nested DEF CallKept, Drawn, Sidecar
  <2>. QED  BY <1>1, <1>3, <2>1, <2>5, PutKeeps, Nested
<1>. QED  BY <1>2, <1>3 DEF CreateIdentity, CreateExclusive

LEMMA WriteIdentityKeeps ==
    ASSUME PInv, NEW p \in Procs, WriteIdentity(p)
    PROVE  PInv'
<1>1. call[p].step = "identity bytes" /\ runs' = runs
  BY DEF WriteIdentity
<1>2. "identity bytes" \in Identified \cap HasFile
  BY DEF Identified, HasFile
<1>3. CASE Remove(Sidecar("identity", call[p])) /\ Stop(p, "failed")
  BY <1>1, <1>2, <1>3, RemoveKeeps
<1>4. CASE Put(Sidecar("identity", call[p]), call[p].ident) /\ Goto(p, "environment")
  <2>1. /\ "environment" \in HasIdentity /\ "environment" \in HasFile
        /\ "environment" \notin HasRecord
    BY DEF Identified, HasFile, HasIdentity, HasRecord
  <2>2. Drawn(call[p].ident)
    BY <1>1, <1>2 DEF PInv, CallKept
  <2>3. /\ Sidecar("identity", call[p]) \in DOMAIN files'
        /\ files'[Sidecar("identity", call[p])] = call[p].ident
    BY <1>4, PutAt
  <2>4. /\ call'[p].step = "environment" /\ call'[p].ident = call[p].ident
        /\ Sidecar("identity", call'[p]) = Sidecar("identity", call[p])
    BY <1>1, <1>2, <1>4, Moved
  <2>5. CallKept(p)'
    BY <1>1, <2>1, <2>2, <2>3, <2>4, Nested DEF CallKept, Drawn, Sidecar
  <2>. QED  BY <1>1, <1>2, <1>4, <2>1, <2>2, <2>5, PutKeeps DEF Drawn
<1>. QED  BY <1>3, <1>4 DEF WriteIdentity, WriteAll

LEMMA CreateProvenanceKeeps ==
    ASSUME PInv, NEW p \in Procs, CreateProvenance(p)
    PROVE  PInv'
<1>1. call[p].step = "provenance file" /\ runs' = runs
  BY DEF CreateProvenance
<1>2. CASE Stop(p, "failed") /\ UNCHANGED files
  BY <1>1, <1>2, StopIsQuiet, QuietKeeps DEF PInv, Finished
<1>3. CASE /\ Put(Sidecar("provenance", call[p]), Torn) /\ Goto(p, "provenance bytes")
  <2>1. /\ "provenance file" \in HasRecord /\ "provenance bytes" \in HasProvenance
        /\ "provenance bytes" # "returned"
    BY DEF Identified, HasFile, HasIdentity, HasRecord, HasProvenance
  <2>2. /\ Drawn(call[p].ident) /\ Sidecar("identity", call[p]) \in DOMAIN files
        /\ files[Sidecar("identity", call[p])] = call[p].ident
    BY <1>1, <2>1, Nested DEF PInv, CallKept
  <2>3. Sidecar("identity", call[p]) # Sidecar("provenance", call[p])
    BY DEF Sidecar
  <2>4. /\ {Sidecar("identity", call[p]), Sidecar("provenance", call[p])} \subseteq DOMAIN files'
        /\ files'[Sidecar("identity", call[p])] = call[p].ident
    BY <1>3, <2>2, <2>3, PutAt
  <2>5. /\ call'[p].step = "provenance bytes" /\ call'[p].ident = call[p].ident
        /\ Sidecar("identity", call'[p]) = Sidecar("identity", call[p])
        /\ Sidecar("provenance", call'[p]) = Sidecar("provenance", call[p])
        /\ Recording(call'[p])
    BY <1>1, <1>3, <2>1, Moved, Nested
  <2>6. Drawn(call[p].ident)' /\ Recording(call[p])'
    BY <1>1, <2>2, <2>5
       DEF Drawn, Recording, ProvenanceAccepted, DeriveCompleteness
  <2>7. CallKept(p)'
    BY <1>1, <2>1, <2>4, <2>5, <2>6 DEF CallKept, Sidecar
  <2>. QED  BY <1>1, <1>3, <2>1, <2>7, PutKeeps, Nested
<1>. QED  BY <1>2, <1>3 DEF CreateProvenance, CreateExclusive

LEMMA WriteProvenanceKeeps ==
    ASSUME PInv, NEW p \in Procs, WriteProvenance(p)
    PROVE  PInv'
<1>1. call[p].step = "provenance bytes" /\ runs' = runs
  BY DEF WriteProvenance
<1>2. "provenance bytes" \in HasProvenance
  BY DEF Identified, HasFile, HasIdentity, HasRecord, HasProvenance
<1>3. CASE Remove(Sidecar("provenance", call[p])) /\ Stop(p, "failed")
  BY <1>1, <1>2, <1>3, RemoveKeeps, Nested
<1>4. CASE Put(Sidecar("provenance", call[p]), call[p].prov) /\ Goto(p, "returned")
  <2>1. /\ Drawn(call[p].ident) /\ Sidecar("identity", call[p]) \in DOMAIN files
        /\ files[Sidecar("identity", call[p])] = call[p].ident /\ Recording(call[p])
    BY <1>1, <1>2, Nested DEF PInv, CallKept
  <2>2. Sidecar("identity", call[p]) # Sidecar("provenance", call[p])
    BY DEF Sidecar
  <2>3. /\ {Sidecar("identity", call[p]), Sidecar("provenance", call[p])} \subseteq DOMAIN files'
        /\ files'[Sidecar("identity", call[p])] = call[p].ident
        /\ files'[Sidecar("provenance", call[p])] = call[p].prov
    <3>1. /\ DOMAIN files' = DOMAIN files \cup {Sidecar("provenance", call[p])}
          /\ files'[Sidecar("provenance", call[p])] = call[p].prov
          /\ \A q \in DOMAIN files \ {Sidecar("provenance", call[p])} : files'[q] = files[q]
      BY <1>4, PutAt
    <3>. QED  BY <2>1, <2>2, <3>1
  <2>4. /\ call'[p].step = "returned" /\ call'[p].ident = call[p].ident
        /\ Sidecar("identity", call'[p]) = Sidecar("identity", call[p])
        /\ Sidecar("provenance", call'[p]) = Sidecar("provenance", call[p])
        /\ call'[p].prov = call[p].prov /\ Recording(call'[p])
    BY <1>1, <1>2, <1>4, Moved, Nested
  <2>5. Drawn(call[p].ident)' /\ Recording(call[p])'
    BY <1>1, <2>1, <2>4
       DEF Drawn, Recording, ProvenanceAccepted, DeriveCompleteness
  <2>6. CallKept(p)'
    BY <1>1, <2>3, <2>4, <2>5 DEF CallKept, Sidecar
  <2>7. /\ call[p].prov.torn = FALSE /\ call[p].prov.run = call[p].ident.run
        /\ call[p].prov.attempt = call[p].ident.attempt
    BY <2>1 DEF Recording
  <2>. QED  BY <1>1, <1>2, <1>4, <2>6, <2>7, PutKeeps, Nested
<1>. QED  BY <1>3, <1>4 DEF WriteProvenance, WriteAll

----------------------------------------------------------------------------
LEMMA PInvInit == Init => PInv
<1> SUFFICES ASSUME Init PROVE PInv
  OBVIOUS
<1>1. /\ DOMAIN files = {} /\ DOMAIN call = Procs /\ runs = 0
      /\ \A p \in Procs : call[p] = Fresh
  BY DEF Init
<1>2. \A p \in Procs : call[p].step = "idle" /\ "step" \in DOMAIN call[p]
  BY <1>1 DEF Fresh
<1>3. "idle" \in Steps \ Identified /\ "idle" # "identity"
  BY DEF Steps, Early, Identified
<1>4. Shape
  BY <1>1, <1>2, <1>3, Nested DEF Shape
<1>5. \A p \in Procs : CallKept(p)
  BY <1>2, <1>3, Nested DEF CallKept
<1>6. Apart
  BY <1>2, <1>3, Nested DEF Apart
<1>7. Idents = {}
  BY <1>1, <1>2, <1>3 DEF Idents, Known
<1>. QED  BY <1>1, <1>4, <1>5, <1>6, <1>7 DEF PInv, OneEach

LEMMA PInvStep == PInv /\ [Next]_vars => PInv'
<1> SUFFICES ASSUME PInv, [Next]_vars PROVE PInv'
  OBVIOUS
<1>1. CASE UNCHANGED vars
  <2>1. /\ tree' = tree /\ files' = files /\ call' = call /\ runs' = runs
    BY <1>1 DEF vars
  <2>. QED  BY <2>1, QuietKeeps DEF Quiet, PInv, Shape
<1>2. CASE Edit
  <2>1. CASE Procs = {}
    <3>1. DOMAIN call' = {} /\ files' = files /\ runs' = runs
      BY <1>2, <2>1 DEF Edit
    <3>. QED  BY <2>1, <3>1, QuietKeeps DEF Quiet, Shape
  <2>2. ASSUME NEW p \in Procs
        PROVE  PInv'
    BY <1>2, QuietSteps, QuietKeeps DEF PInv
  <2>. QED  BY <2>1, <2>2
<1>3. ASSUME NEW p \in Procs,
             \/ Die(p) \/ Again(p) \/ GitFails(p) \/ CheckDirty(p) \/ ReadCommitted(p)
             \/ List(p) \/ ReadEvidence(p) \/ MakeDirectoryFails(p)
      PROVE  PInv'
  BY <1>3, QuietSteps, QuietKeeps DEF PInv
<1>4. ASSUME NEW p \in Procs,
             \/ Identify(p) \/ CreateIdentity(p) \/ WriteIdentity(p)
             \/ Observe(p) \/ CreateProvenance(p) \/ WriteProvenance(p)
      PROVE  PInv'
  BY <1>4, IdentifyKeeps, CreateIdentityKeeps, WriteIdentityKeeps, ObserveKeeps,
     CreateProvenanceKeeps, WriteProvenanceKeeps
<1>. QED  BY <1>1, <1>2, <1>3, <1>4 DEF Next

LEMMA PInvHolds == Spec => []PInv
  BY PInvInit, PInvStep, PTL DEF Spec

(* All attempts of a run have one specification: emit.py retains a run id   *)
(* only for the fingerprint the run was started with.                       *)
THEOREM OneSpecification == Spec => []RunHasOneSpecification
<1>1. PInv => RunHasOneSpecification
  BY DEF PInv, OneEach, Idents, RunHasOneSpecification
<1>. QED  BY <1>1, PInvHolds, PTL

(* A call that has returned has its attempt to itself, its identity and its *)
(* provenance are on disk as it returned them, and no other provenance      *)
(* loads with its identity: what prepare_run promises before training.      *)
THEOREM Recorded == Spec => []PreparedIsRecorded
<1>1. ASSUME PInv, NEW p \in Procs, call[p].step = "returned"
      PROVE  LET c == call[p] IN
        /\ Whole(Sidecar("identity", c)) /\ files[Sidecar("identity", c)] = c.ident
        /\ \A q \in {q \in DOMAIN files : q[1] = "provenance" /\ Whole(q)} :
              Loads(files[q], c.ident, c.snap) <=> q = Sidecar("provenance", c)
        /\ Whole(Sidecar("provenance", c))
        /\ \A r \in Procs \ {p} :
              call[r].step \in {"environment", "provenance file", "provenance bytes", "returned"}
              => Sidecar("identity", call[r]) # Sidecar("identity", c)
  <2>1. /\ Drawn(call[p].ident) /\ Recording(call[p])
        /\ {Sidecar("identity", call[p]), Sidecar("provenance", call[p])} \subseteq DOMAIN files
        /\ files[Sidecar("identity", call[p])] = call[p].ident
        /\ files[Sidecar("provenance", call[p])] = call[p].prov
    BY <1>1, Nested DEF PInv, CallKept
  <2>2. Whole(Sidecar("identity", call[p])) /\ Whole(Sidecar("provenance", call[p]))
    BY <2>1 DEF Whole, Drawn, Recording
  <2>3. ASSUME NEW q \in DOMAIN files, q[1] = "provenance", Whole(q)
        PROVE  Loads(files[q], call[p].ident, call[p].snap) <=> q = Sidecar("provenance", call[p])
    <3>1. /\ q = <<q[1], q[2], q[3]>> /\ files[q].run = q[2] /\ files[q].attempt = q[3]
      BY <1>1, <2>3 DEF PInv, FileKept, Whole, Torn
    <3>2. ASSUME Loads(files[q], call[p].ident, call[p].snap)
          PROVE  q = Sidecar("provenance", call[p])
      BY <2>3, <3>1, <3>2 DEF Loads, Sidecar
    <3>3. Loads(call[p].prov, call[p].ident, call[p].snap)
      BY <2>1 DEF Loads, Recording
    <3>. QED  BY <2>1, <3>2, <3>3
  <2>4. ASSUME NEW r \in Procs \ {p},
               call[r].step \in {"environment", "provenance file", "provenance bytes", "returned"}
        PROVE  Sidecar("identity", call[r]) # Sidecar("identity", call[p])
    <3>1. call[r].step \in HasFile /\ call[p].step \in HasFile
      BY <1>1, <2>4 DEF HasFile, Identified
    <3>. QED  BY <1>1, <3>1 DEF PInv, Apart
  <2>. QED  BY <2>1, <2>2, <2>3, <2>4
<1>2. PInv => PreparedIsRecorded
  BY <1>1 DEF PreparedIsRecorded
<1>. QED  BY <1>2, PInvHolds, PTL

----------------------------------------------------------------------------
(* The tree a repository holds, and the counters that bound the runs.       *)
Counters ==
    /\ tree \in Trees
    /\ edits \in 0..MaxEdits /\ calls \in 0..MaxCalls /\ faults \in 0..MaxFaults

LEMMA Counting ==
    ASSUME NEW m \in Nat, NEW n \in 0..m
    PROVE  0 \in 0..m /\ (n < m => n + 1 \in 0..m)
  OBVIOUS

LEMMA CountersStep == Counters /\ [Next]_vars => Counters'
<1> SUFFICES ASSUME Counters, [Next]_vars PROVE Counters'
  OBVIOUS
<1>. USE PreparationBounds DEF Counters
<1>1. faults' = faults \/ Fault => faults' \in 0..MaxFaults
  BY Counting DEF Fault
<1>2. CASE UNCHANGED vars
  BY <1>2 DEF vars
<1>3. CASE Edit
  <2>1. edits' \in 0..MaxEdits
    BY <1>3, Counting DEF Edit
  <2>. QED  BY <1>3, <2>1 DEF Edit
<1>4. ASSUME NEW p \in Procs, CheckDirty(p)
      PROVE  Counters'
  <2>1. calls' \in 0..MaxCalls
    BY <1>4, Counting DEF CheckDirty
  <2>. QED  BY <1>4, <2>1 DEF CheckDirty
<1>5. ASSUME NEW p \in Procs,
             \/ Die(p) \/ Again(p) \/ GitFails(p) \/ ReadCommitted(p) \/ List(p)
             \/ ReadEvidence(p) \/ Identify(p) \/ MakeDirectoryFails(p) \/ Observe(p)
      PROVE  Counters'
  <2>1. /\ tree' = tree /\ edits' = edits /\ calls' = calls
        /\ faults' = faults \/ Fault
    BY <1>5 DEF Die, Again, GitFails, ReadCommitted, List, ReadEvidence, Identify,
                MakeDirectoryFails, Observe, Unwritten, NoFault
  <2>. QED  BY <1>1, <2>1
<1>6. ASSUME NEW p \in Procs,
             \/ CreateIdentity(p) \/ WriteIdentity(p) \/ CreateProvenance(p) \/ WriteProvenance(p)
      PROVE  Counters'
  <2>1. /\ tree' = tree /\ edits' = edits /\ calls' = calls
        /\ faults' = faults \/ Fault
    BY <1>6 DEF CreateIdentity, WriteIdentity, CreateProvenance, WriteProvenance,
                CreateExclusive, WriteAll, NoFault
  <2>. QED  BY <1>1, <2>1
<1>. QED  BY <1>2, <1>3, <1>4, <1>5, <1>6 DEF Next

(* Every sidecar on disk is torn or a record of the run and the attempt in  *)
(* its path.                                                                *)
THEOREM Typing == Spec => []TypeOK
<1>1. Init => Counters
  BY PreparationBounds, Counting DEF Init, Counters
<1>2. Spec => []Counters
  BY <1>1, CountersStep, PTL DEF Spec
<1>3. PInv /\ Counters => TypeOK
  <2> SUFFICES ASSUME PInv, Counters PROVE TypeOK
    OBVIOUS
  <2>1. ASSUME NEW q \in DOMAIN files
        PROVE  /\ q[1] \in {"identity", "provenance"}
               /\ q[2].n \in 1..runs /\ q[3] \in Attempts
               /\ files[q] = Torn \/ <<files[q].run, files[q].attempt>> = <<q[2], q[3]>>
    BY DEF PInv, FileKept
  <2>2. \A p \in Procs : call[p].step \in Finished \cup
          {"idle", "committed", "listing", "evidence", "identity", "identity file",
           "identity bytes", "environment", "provenance file", "provenance bytes"}
    BY DEF PInv, Shape, Steps, Finished, Early, Identified
  <2>. QED  BY <2>1, <2>2 DEF TypeOK, Counters, PInv
<1>. QED  BY <1>2, <1>3, PInvHolds, PTL

----------------------------------------------------------------------------
(* What a call knows of the tree it was started from and of its machine.    *)
Captured == Identified \cup {"identity"}
Probed(s, set) ==
    /\ set.own.software = <<>> => s.software = Software(set.machine)
    /\ set.own.hardware = <<>> => s.hardware = Accelerator(set.machine)
    /\ set.own.topology = <<>> => s.topology = TopologyOf(set.machine.env)
    /\ TopologyWarnings(set.machine) \subseteq s.warnings
Truthful(c) ==
    /\ c.step = "committed" => {"dirty", "seen"} \subseteq DOMAIN c /\ (c.dirty <=> IsDirty(c.seen))
    /\ c.step \in {"listing", "evidence"} => "seen" \in DOMAIN c /\ IsDirty(c.seen)
    /\ c.step \in Captured => {"snap", "seen"} \subseteq DOMAIN c
                              /\ (c.snap.clean => ~IsDirty(c.seen))
    /\ c.step \in Identified => "set" \in DOMAIN c
    /\ c.step \in HasRecord =>
          /\ c.prov.sections.source = c.snap
          /\ Probed(c.prov.sections, c.set)
          /\ c.prov.completeness = DeriveCompleteness(c.prov.sections)
    /\ "prov" \in DOMAIN c => c.step \in HasRecord

LEMMA EndedIsTruthful ==
    ASSUME NEW how \in (Finished \ {"returned"}) \cup {"idle"}
    PROVE  Truthful([step |-> how])
<1>1. /\ how \notin Captured \cup Identified \cup HasRecord
      /\ how \notin {"committed", "listing", "evidence"}
  BY Nested DEF Finished, Identified, Captured
<1>. QED  BY <1>1 DEF Truthful

(* A call that only changes its step, or what nothing is said of.           *)
LEMMA StaysTruthful ==
    ASSUME NEW c, NEW d, Truthful(c), DOMAIN d = DOMAIN c,
           \A f \in DOMAIN c \ {"step", "still"} : d[f] = c[f],
           \/ c.step \in Identified /\ d.step \in Identified
           \/ d.step = c.step /\ c.step \in {"committed", "listing", "evidence"},
           d.step \in HasRecord <=> c.step \in HasRecord,
           c.step \in HasRecord => "prov" \in DOMAIN c
    PROVE  Truthful(d)
<1>1. CASE c.step \in Identified /\ d.step \in Identified
  <2>1. d.step \notin {"committed", "listing", "evidence"}
        /\ c.step \in Captured /\ d.step \in Captured
    BY <1>1 DEF Identified, Captured
  <2>2. d.snap = c.snap /\ d.seen = c.seen /\ d.set = c.set
        /\ {"snap", "seen", "set"} \subseteq DOMAIN c
    BY <1>1, <2>1 DEF Truthful
  <2>3. c.step \in HasRecord => d.prov = c.prov
    OBVIOUS
  <2>. QED  BY <1>1, <2>1, <2>2, <2>3 DEF Truthful
<1>2. CASE d.step = c.step /\ c.step \in {"committed", "listing", "evidence"}
  <2>1. c.step \notin Captured \cup Identified \cup HasRecord
    BY <1>2, Nested DEF Identified, Captured
  <2>2. "seen" \in DOMAIN c /\ d.seen = c.seen
    BY <1>2 DEF Truthful
  <2>3. c.step = "committed" => "dirty" \in DOMAIN c /\ d.dirty = c.dirty
    BY DEF Truthful
  <2>. QED  BY <1>2, <2>1, <2>2, <2>3 DEF Truthful
<1>. QED  BY <1>1, <1>2

LEMMA CaptureIsTruthful ==
    ASSUME Shape, NEW p \in Procs, NEW committed, NEW evidence, Capture(p, committed, evidence),
           Truthful(call[p]), evidence = <<>> => ~IsDirty(call[p].seen)
    PROVE  Truthful(call'[p])
<1>1. CASE SnapshotAccepted(Snapshot(committed, evidence))
  <2> DEFINE c == [step |-> "identity", snap |-> Snapshot(committed, evidence),
                   seen |-> call[p].seen, still |-> call[p].still]
  <2>1. call'[p] = c
    BY <1>1 DEF Capture, Shape
  <2>2. "identity" \notin Identified \cup HasRecord
    BY Nested DEF Identified
  <2>3. c.snap.clean => ~IsDirty(c.seen)
    BY DEF Snapshot
  <2>4. Truthful(c)
    BY <2>2, <2>3 DEF Truthful, Captured
  <2>. QED  BY <2>1, <2>4
<1>2. CASE ~SnapshotAccepted(Snapshot(committed, evidence))
  <2>1. call'[p] = [step |-> "escaped"]
    BY <1>2 DEF Capture, Stop, Shape
  <2>2. "escaped" \in (Finished \ {"returned"}) \cup {"idle"}
    BY DEF Finished
  <2>. QED  BY <2>1, <2>2, EndedIsTruthful
<1>. QED  BY <1>1, <1>2

(* A capture under way that learns more.                                    *)
LEMMA LearnsTruthfully ==
    ASSUME Shape, NEW p \in Procs, NEW more, Learn(p, more), Truthful(call[p]),
           call[p].step \in Early, "step" \in DOMAIN more, "prov" \notin DOMAIN more,
           \/ /\ more["step"] = "committed" /\ {"dirty", "seen"} \subseteq DOMAIN more
              /\ more["dirty"] <=> IsDirty(more["seen"])
           \/ /\ more["step"] \in {"listing", "evidence"} /\ "seen" \notin DOMAIN more
              /\ "seen" \in DOMAIN call[p] /\ IsDirty(call[p].seen)
           \/ more["step"] = "escaped"
           \/ /\ more["step"] = "identity file" /\ "set" \in DOMAIN more
              /\ {"snap", "seen"} \cap DOMAIN more = {} /\ call[p].step = "identity"
    PROVE  Truthful(call'[p])
<1>1. /\ DOMAIN call'[p] = DOMAIN more \cup DOMAIN call[p]
      /\ \A f \in DOMAIN more : call'[p][f] = more[f]
      /\ \A f \in DOMAIN call[p] \ DOMAIN more : call'[p][f] = call[p][f]
  BY Learned
<1>2. call[p].step \notin HasRecord
  BY Nested DEF Early, Identified
<1>3. "prov" \notin DOMAIN call'[p]
  BY <1>1, <1>2 DEF Truthful
<1>4. call'[p].step = more["step"]
  BY <1>1
<1>5. /\ {"committed", "listing", "evidence", "escaped"} \cap Captured = {}
      /\ {"committed", "listing", "evidence", "escaped", "identity file"} \cap HasRecord = {}
      /\ "identity file" \in Identified /\ "identity" \in Captured /\ Identified \subseteq Captured
  BY DEF HasRecord, HasIdentity, HasFile, Identified, Captured
<1>6. CASE /\ more["step"] = "committed" /\ {"dirty", "seen"} \subseteq DOMAIN more
           /\ more["dirty"] <=> IsDirty(more["seen"])
  <2>1. call'[p].dirty = more["dirty"] /\ call'[p].seen = more["seen"]
        /\ {"dirty", "seen"} \subseteq DOMAIN call'[p]
    BY <1>1, <1>6
  <2>. QED  BY <1>3, <1>4, <1>5, <1>6, <2>1 DEF Truthful
<1>7. CASE /\ more["step"] \in {"listing", "evidence"} /\ "seen" \notin DOMAIN more
           /\ "seen" \in DOMAIN call[p] /\ IsDirty(call[p].seen)
  <2>1. call'[p].seen = call[p].seen /\ "seen" \in DOMAIN call'[p]
    BY <1>1, <1>7
  <2>. QED  BY <1>3, <1>4, <1>5, <1>7, <2>1 DEF Truthful
<1>8. CASE more["step"] = "escaped"
  BY <1>3, <1>4, <1>5, <1>8 DEF Truthful
<1>9. CASE /\ more["step"] = "identity file" /\ "set" \in DOMAIN more
           /\ {"snap", "seen"} \cap DOMAIN more = {} /\ call[p].step = "identity"
  <2>1. {"snap", "seen"} \subseteq DOMAIN call[p] /\ (call[p].snap.clean => ~IsDirty(call[p].seen))
    BY <1>5, <1>9 DEF Truthful
  <2>2. call'[p].snap = call[p].snap /\ call'[p].seen = call[p].seen
        /\ {"snap", "seen", "set"} \subseteq DOMAIN call'[p]
    BY <1>1, <1>9, <2>1
  <2>. QED  BY <1>3, <1>4, <1>5, <1>9, <2>1, <2>2 DEF Truthful
<1>. QED  BY <1>6, <1>7, <1>8, <1>9

LEMMA ObserveIsTruthful ==
    ASSUME Shape, NEW p \in Procs, Observe(p), Truthful(call[p])
    PROVE  Truthful(call'[p])
<1>1. call[p].step = "environment" /\ "environment" \in Identified
  BY DEF Observe, Identified
<1>2. CASE Stop(p, "escaped")
  <2>1. call'[p] = [step |-> "escaped"]
    BY <1>2 DEF Stop, Shape
  <2>2. "escaped" \in (Finished \ {"returned"}) \cup {"idle"}
    BY DEF Finished
  <2>. QED  BY <2>1, <2>2, EndedIsTruthful
<1>3. ASSUME NEW r, Learn(p, [step |-> "provenance file", prov |-> r]),
             r.sections.source = call[p].snap,
             Probed(r.sections, call[p].set),
             r.completeness = DeriveCompleteness(r.sections)
      PROVE  Truthful(call'[p])
  <2> DEFINE more == [step |-> "provenance file", prov |-> r]
  <2>1. /\ {"step", "prov"} \subseteq DOMAIN more /\ {"snap", "seen", "set"} \cap DOMAIN more = {}
        /\ more["step"] = "provenance file" /\ more["prov"] = r
    OBVIOUS
  <2>2. Learn(p, more)
    BY <1>3
  <2>. HIDE DEF more
  <2>3. /\ DOMAIN call'[p] = DOMAIN more \cup DOMAIN call[p]
        /\ \A f \in DOMAIN more : call'[p][f] = more[f]
        /\ \A f \in DOMAIN call[p] \ DOMAIN more : call'[p][f] = call[p][f]
    BY <2>2, Learned
  <2>4. {"snap", "seen", "set"} \subseteq DOMAIN call[p]
        /\ (call[p].snap.clean => ~IsDirty(call[p].seen))
    BY <1>1 DEF Truthful, Captured
  <2>5. /\ call'[p].step = "provenance file" /\ call'[p].prov = r
        /\ {"snap", "seen", "set"} \subseteq DOMAIN call'[p]
    BY <2>1, <2>3, <2>4
  <2>6. /\ call'[p].snap = call[p].snap /\ call'[p].seen = call[p].seen
        /\ call'[p].set = call[p].set
    BY <2>1, <2>3, <2>4
  <2>7. "provenance file" \in HasRecord
    BY DEF HasRecord, HasIdentity, HasFile, Identified
  <2>. QED  BY <1>3, <2>4, <2>5, <2>6, <2>7 DEF Truthful
<1>4. \/ Stop(p, "escaped")
      \/ \E r : /\ Learn(p, [step |-> "provenance file", prov |-> r])
                /\ r.sections.source = call[p].snap
                /\ Probed(r.sections, call[p].set)
                /\ r.completeness = DeriveCompleteness(r.sections)
  <2> DEFINE m == call[p].set.machine
             own == call[p].set.own
             Or(given, probed) == IF given = <<>> THEN probed ELSE given[1]
             s == Sections(call[p].snap, Or(own.software, Software(m)),
                           Or(own.hardware, Accelerator(m)), Or(own.topology, TopologyOf(m.env)),
                           IF own.topology = <<>> THEN TopologyWarnings(m)
                           ELSE Merged(own.warnings, TopologyWarnings(m)))
             r == FromIdentity(call[p].ident, s)
  <2>1. Stop(p, "escaped") \/ Learn(p, [step |-> "provenance file", prov |-> r])
    BY Zenon DEF Observe
  <2>2. r.sections = s /\ r.completeness = DeriveCompleteness(s)
    <3>. HIDE DEF s
    <3>. QED  BY DEF FromIdentity
  <2>3. s.source = call[p].snap
    BY DEF Sections
  <2>4. Probed(s, call[p].set)
    <3>1. TopologyWarnings(m) \subseteq Merged(own.warnings, TopologyWarnings(m))
      BY DEF Merged
    <3>2. TopologyWarnings(m) \subseteq s.warnings
      BY <3>1 DEF Sections
    <3>3. /\ own.software = <<>> => s.software = Software(m)
          /\ own.hardware = <<>> => s.hardware = Accelerator(m)
          /\ own.topology = <<>> => s.topology = TopologyOf(m.env)
      BY DEF Sections
    <3>. HIDE DEF s
    <3>. QED  BY <3>2, <3>3 DEF Probed
  <2>. HIDE DEF s, r
  <2>. QED  BY <2>1, <2>2, <2>3, <2>4
<1>. QED  BY <1>2, <1>3, <1>4

(* A step of one call leaves the others as they were.                       *)
LEMMA OthersStay ==
    ASSUME Shape, NEW p \in Procs, NEW r \in Procs \ {p},
           \/ Die(p) \/ Again(p) \/ GitFails(p) \/ CheckDirty(p) \/ ReadCommitted(p)
           \/ List(p) \/ ReadEvidence(p) \/ MakeDirectoryFails(p)
           \/ Identify(p) \/ CreateIdentity(p) \/ WriteIdentity(p)
           \/ Observe(p) \/ CreateProvenance(p) \/ WriteProvenance(p)
    PROVE  call'[r] = call[r]
<1>1. (\E how : Stop(p, how)) \/ (\E step : Goto(p, step)) \/ (\E more : Learn(p, more))
      \/ (\E committed, evidence : Capture(p, committed, evidence)) \/ Again(p)
  <2>1. CASE \/ Die(p) \/ GitFails(p) \/ CheckDirty(p) \/ ReadCommitted(p)
             \/ List(p) \/ ReadEvidence(p) \/ MakeDirectoryFails(p)
    BY <2>1, Zenon DEF Die, GitFails, CheckDirty, ReadCommitted, List, ReadEvidence,
                       MakeDirectoryFails
  <2>2. CASE Identify(p)
    BY <2>2, Zenon DEF Identify
  <2>3. CASE \/ CreateIdentity(p) \/ WriteIdentity(p)
             \/ CreateProvenance(p) \/ WriteProvenance(p)
    BY <2>3, Zenon DEF CreateIdentity, WriteIdentity, CreateProvenance, WriteProvenance,
                       CreateExclusive, WriteAll
  <2>4. CASE Observe(p)
    BY <2>4, Zenon DEF Observe
  <2>. QED  BY <2>1, <2>2, <2>3, <2>4
<1>2. CASE Again(p)
  BY <1>2 DEF Again, Shape
<1>3. ASSUME NEW how, Stop(p, how)
      PROVE  call'[r] = call[r]
  BY <1>3 DEF Stop, Shape
<1>4. ASSUME NEW step, Goto(p, step)
      PROVE  call'[r] = call[r]
  BY <1>4 DEF Goto, Shape
<1>5. ASSUME NEW more, Learn(p, more)
      PROVE  call'[r] = call[r]
  BY <1>5, Learned
<1>6. ASSUME NEW committed, NEW evidence, Capture(p, committed, evidence)
      PROVE  call'[r] = call[r]
  BY <1>3, <1>6 DEF Capture, Shape
<1>. QED  BY <1>1, <1>2, <1>3, <1>4, <1>5, <1>6

LEMMA TruthfulStep ==
    ASSUME PInv, \A r \in Procs : Truthful(call[r]), [Next]_vars
    PROVE  \A r \in Procs : Truthful(call[r])'
<1>. Shape
  BY DEF PInv
<1>1. CASE UNCHANGED vars
  BY <1>1 DEF vars, Truthful
<1>2. ASSUME Edit, NEW r \in Procs
      PROVE  Truthful(call'[r])
  <2>1. CASE Capturing(r)
    <3>1. call'[r] = [call[r] EXCEPT !.still = FALSE] /\ "step" \in DOMAIN call[r]
      BY <1>2, <2>1 DEF Edit, Shape
    <3>2. /\ DOMAIN call'[r] = DOMAIN call[r]
          /\ \A f \in DOMAIN call[r] \ {"still"} : call'[r][f] = call[r][f]
      BY <3>1
    <3>3. call'[r].step = call[r].step
      BY <3>1
    <3>4. call[r].step \in {"committed", "listing", "evidence"} /\ call[r].step \notin HasRecord
      BY <2>1, Nested DEF Capturing, Identified
    <3>. QED  BY <3>2, <3>3, <3>4, StaysTruthful
  <2>2. CASE ~Capturing(r)
    BY <1>2, <2>2 DEF Edit
  <2>. QED  BY <2>1, <2>2
<1>3. ASSUME NEW p \in Procs, NEW how \in Finished \ {"returned"}, Stop(p, how)
      PROVE  Truthful(call'[p])
  <2>1. call'[p] = [step |-> how]
    BY <1>3, Stopped DEF Shape
  <2>. QED  BY <2>1, EndedIsTruthful
<1>4. {"dead", "failed", "escaped"} \subseteq Finished \ {"returned"}
  BY DEF Finished
<1>5. ASSUME NEW p \in Procs,
             \/ Die(p) \/ Again(p) \/ GitFails(p) \/ CheckDirty(p) \/ ReadCommitted(p)
             \/ List(p) \/ ReadEvidence(p) \/ MakeDirectoryFails(p)
      PROVE  Truthful(call'[p])
  <2>1. CASE Die(p) \/ GitFails(p) \/ MakeDirectoryFails(p)
    BY <1>3, <1>4, <2>1 DEF Die, GitFails, MakeDirectoryFails
  <2>2. CASE Again(p)
    <3>1. call'[p] = [step |-> "idle"]
      BY <2>2 DEF Again, Fresh, Shape
    <3>. QED  BY <3>1, EndedIsTruthful
  <2>3. CASE CheckDirty(p)
    <3> DEFINE more == [step |-> "committed", dirty |-> IsDirty(tree), seen |-> tree, still |-> TRUE]
    <3>1. Stop(p, "failed") \/ Learn(p, more)
      BY <2>3 DEF CheckDirty
    <3>2. /\ {"step", "dirty", "seen"} \subseteq DOMAIN more /\ "prov" \notin DOMAIN more
          /\ more["step"] = "committed" /\ (more["dirty"] <=> IsDirty(more["seen"]))
      OBVIOUS
    <3>3. call[p].step \in Early
      BY <2>3 DEF CheckDirty, Early
    <3>. HIDE DEF more
    <3>. QED  BY <1>3, <1>4, <3>1, <3>2, <3>3, LearnsTruthfully
  <2>4. CASE ReadCommitted(p)
    <3>1. call[p].step = "committed" /\ "committed" \in Early
      BY <2>4 DEF ReadCommitted, Early
    <3>2. "seen" \in DOMAIN call[p] /\ (call[p].dirty <=> IsDirty(call[p].seen))
      BY <3>1 DEF Truthful
    <3>3. PICK committed :
             \/ /\ call[p].dirty
                /\ Learn(p, [step |-> "listing", committed |-> committed])
             \/ ~call[p].dirty /\ Capture(p, committed, <<>>)
      BY <2>4 DEF ReadCommitted
    <3> DEFINE more == [step |-> "listing", committed |-> committed]
    <3>4. /\ "step" \in DOMAIN more /\ {"prov", "seen"} \cap DOMAIN more = {}
          /\ more["step"] = "listing"
      OBVIOUS
    <3>. HIDE DEF more
    <3>5. CASE call[p].dirty /\ Learn(p, more)
      BY <3>1, <3>2, <3>4, <3>5, LearnsTruthfully
    <3>6. CASE ~call[p].dirty /\ Capture(p, committed, <<>>)
      BY <3>2, <3>6, CaptureIsTruthful
    <3>. QED  BY <3>3, <3>5, <3>6 DEF more
  <2>5. CASE List(p)
    <3>1. PICK listing, blind, known :
           Learn(p, [step |-> "evidence", listing |-> listing, blind |-> blind, known |-> known])
      BY <2>5 DEF List
    <3> DEFINE more == [step |-> "evidence", listing |-> listing, blind |-> blind, known |-> known]
    <3>2. /\ "step" \in DOMAIN more /\ {"prov", "seen"} \cap DOMAIN more = {}
          /\ more["step"] = "evidence"
      OBVIOUS
    <3>3. Learn(p, more)
      BY <3>1
    <3>4. /\ call[p].step \in Early
          /\ "seen" \in DOMAIN call[p] /\ IsDirty(call[p].seen)
      BY <2>5 DEF List, Early, Truthful
    <3>. HIDE DEF more
    <3>. QED  BY <3>2, <3>3, <3>4, LearnsTruthfully
  <2>6. CASE ReadEvidence(p)
    <3>1. PICK e : \/ Capture(p, call[p].committed, <<e>>)
                   \/ Learn(p, [step |-> "escaped", refused |-> e])
      BY <2>6 DEF ReadEvidence
    <3>2. CASE Capture(p, call[p].committed, <<e>>)
      <4>1. <<e>> # <<>>
        OBVIOUS
      <4>. QED  BY <3>2, <4>1, CaptureIsTruthful
    <3>3. CASE Learn(p, [step |-> "escaped", refused |-> e])
      <4> DEFINE more == [step |-> "escaped", refused |-> e]
      <4>1. "step" \in DOMAIN more /\ "prov" \notin DOMAIN more /\ more["step"] = "escaped"
        OBVIOUS
      <4>2. call[p].step \in Early
        BY <2>6 DEF ReadEvidence, Early
      <4>3. Learn(p, more)
        BY <3>3
      <4>. HIDE DEF more
      <4>. QED  BY <4>1, <4>2, <4>3, LearnsTruthfully
    <3>. QED  BY <3>1, <3>2, <3>3
  <2>. QED  BY <1>5, <2>1, <2>2, <2>3, <2>4, <2>5, <2>6
<1>6. ASSUME NEW p \in Procs, Identify(p)
      PROVE  Truthful(call'[p])
  <2>1. call[p].step = "identity" /\ "identity" \in Early
    BY <1>6 DEF Identify, Early
  <2>2. \/ \E how \in Finished \ {"returned"} : Stop(p, how)
        \/ \E set, ident : Learn(p, [step |-> "identity file", set |-> set, ident |-> ident])
    BY <1>4, <1>6, Zenon DEF Identify
  <2>3. ASSUME NEW set, NEW ident,
               Learn(p, [step |-> "identity file", set |-> set, ident |-> ident])
        PROVE  Truthful(call'[p])
    <3> DEFINE more == [step |-> "identity file", set |-> set, ident |-> ident]
    <3>1. /\ {"step", "set"} \subseteq DOMAIN more /\ {"prov", "snap", "seen"} \cap DOMAIN more = {}
          /\ more["step"] = "identity file"
      OBVIOUS
    <3>2. Learn(p, more)
      BY <2>3
    <3>. HIDE DEF more
    <3>. QED  BY <2>1, <3>1, <3>2, LearnsTruthfully
  <2>. QED  BY <1>3, <2>2, <2>3
<1>7. ASSUME NEW p \in Procs,
             \/ CreateIdentity(p) \/ WriteIdentity(p)
             \/ CreateProvenance(p) \/ WriteProvenance(p)
      PROVE  Truthful(call'[p])
  <2>1. \/ Stop(p, "failed")
        \/ call[p].step = "identity file" /\ Goto(p, "identity bytes")
        \/ call[p].step = "identity bytes" /\ Goto(p, "environment")
        \/ call[p].step = "provenance file" /\ Goto(p, "provenance bytes")
        \/ call[p].step = "provenance bytes" /\ Goto(p, "returned")
    BY <1>7 DEF CreateIdentity, WriteIdentity, CreateProvenance, WriteProvenance,
                CreateExclusive, WriteAll
  <2>2. ASSUME NEW next \in Identified, Goto(p, next), call[p].step \in Identified,
               next \in HasRecord <=> call[p].step \in HasRecord
        PROVE  Truthful(call'[p])
    <3>1. /\ DOMAIN call'[p] = DOMAIN call[p] /\ call'[p].step = next
          /\ \A f \in DOMAIN call[p] \ {"step"} : call'[p][f] = call[p][f]
      BY <2>2, Gone
    <3>2. call[p].step \in HasRecord => "prov" \in DOMAIN call[p]
      BY DEF Shape
    <3>. QED  BY <2>2, <3>1, <3>2, StaysTruthful
  <2>3. /\ Identified = {"identity file", "identity bytes", "environment", "provenance file",
                         "provenance bytes", "returned"}
        /\ HasRecord = {"provenance file", "provenance bytes", "returned"}
    BY DEF Identified, HasFile, HasIdentity, HasRecord
  <2>. QED  BY <1>3, <1>4, <2>1, <2>2, <2>3
<1>8. ASSUME NEW p \in Procs, NEW r \in Procs,
             \/ Die(p) \/ Again(p) \/ GitFails(p) \/ CheckDirty(p) \/ ReadCommitted(p)
             \/ List(p) \/ ReadEvidence(p) \/ MakeDirectoryFails(p)
             \/ Identify(p) \/ CreateIdentity(p) \/ WriteIdentity(p)
             \/ Observe(p) \/ CreateProvenance(p) \/ WriteProvenance(p)
      PROVE  Truthful(call'[r])
  <2>1. CASE r = p
    BY <1>5, <1>6, <1>7, <1>8, <2>1, ObserveIsTruthful
  <2>2. CASE r # p
    BY <1>8, <2>2, OthersStay
  <2>. QED  BY <2>1, <2>2
<1>9. \A r \in Procs : Truthful(call'[r])
  BY <1>1, <1>2, <1>8 DEF Next, vars
<1>. QED  BY <1>9 DEF Truthful

(* A record that calls itself complete is of a tree that was clean when it  *)
(* was looked at and of a launcher whose every variable parsed, also when   *)
(* the caller passes a topology; where the caller passes no section of its  *)
(* own, it is of one version of each distribution, of a readable lock file, *)
(* and of an accelerator and a topology without error: _derive_completeness *)
(* forgets no section.                                                      *)
THEOREM HonestCompleteness == Spec => []CompleteIsHonest
<1> DEFINE TInv == \A r \in Procs : Truthful(call[r])
<1>1. Init => TInv
  BY EndedIsTruthful DEF Init, Fresh
<1>2. PInv /\ TInv /\ [Next]_vars => TInv'
  BY TruthfulStep
<1>3. ASSUME PInv, TInv, NEW p \in Procs, "prov" \in DOMAIN call[p],
             call[p].prov.completeness.status = "complete"
      PROVE  LET m == call[p].set.machine
                 own == call[p].set.own
             IN  /\ ~IsDirty(call[p].seen) /\ m.bad = {}
                 /\ own.software = <<>> => m.lockfile # "error" /\ Conflicts(m.deps) = {}
                 /\ own.hardware = <<>> => Accelerator(m).status # "error"
                 /\ own.topology = <<>> => TopologyOf(m.env).status # "error"
  <2> DEFINE s == call[p].prov.sections
             m == call[p].set.machine
             own == call[p].set.own
  <2>1. /\ s.source = call[p].snap /\ Probed(s, call[p].set)
        /\ call[p].prov.completeness = DeriveCompleteness(s)
        /\ (call[p].snap.clean => ~IsDirty(call[p].seen))
    BY <1>3, Nested DEF Truthful, Captured
  <2>2. /\ own.software = <<>> => s.software = Software(m)
        /\ own.hardware = <<>> => s.hardware = Accelerator(m)
        /\ own.topology = <<>> => s.topology = TopologyOf(m.env)
        /\ TopologyWarnings(m) \subseteq s.warnings
    BY <2>1 DEF Probed
  <2>. HIDE DEF s, m, own
  <2>3. Stated(s) \cap Failed = {} /\ Warnings(s) = {}
    BY <1>3, <2>1 DEF DeriveCompleteness
  <2>4. Observed(s) = {}
    BY <2>3 DEF Warnings
  <2>5. s.source.clean /\ s.software.conflicts = {} /\ s.warnings = {}
    BY <2>4 DEF Observed
  <2>6. /\ s.software.lockfile # "error" /\ s.hardware.status # "error"
        /\ s.topology.status # "error"
    <3>1. /\ <<"lockfile", s.software.lockfile>> \in Stated(s)
          /\ <<"accelerator", s.hardware.status>> \in Stated(s)
          /\ <<"topology", s.topology.status>> \in Stated(s)
      <4>1. /\ {"lockfile", "accelerator", "topology"} \subseteq DOMAIN Statuses(s)
            /\ Statuses(s)["lockfile"] = s.software.lockfile
            /\ Statuses(s)["accelerator"] = s.hardware.status
            /\ Statuses(s)["topology"] = s.topology.status
        BY DEF Statuses
      <4>. QED  BY <4>1 DEF Stated
    <3>2. {<<"lockfile", "error">>, <<"accelerator", "error">>, <<"topology", "error">>}
          \subseteq Failed
      BY DEF Failed
    <3>. QED  BY <2>3, <3>1, <3>2
  <2>7. m.bad = {}
    BY <2>2, <2>5 DEF TopologyWarnings
  <2>8. own.software = <<>> => m.lockfile # "error" /\ Conflicts(m.deps) = {}
    BY <2>2, <2>5, <2>6 DEF Software
  <2>9. /\ own.hardware = <<>> => Accelerator(m).status # "error"
        /\ own.topology = <<>> => TopologyOf(m.env).status # "error"
    BY <2>2, <2>6
  <2>. QED  BY <2>1, <2>5, <2>7, <2>8, <2>9 DEF m, own
<1>4. PInv /\ TInv => CompleteIsHonest
  BY <1>3 DEF CompleteIsHonest
<1>. QED  BY <1>1, <1>2, <1>4, PInvHolds, PTL DEF Spec

----------------------------------------------------------------------------
(* What the evidence of a dirty tree is made of.                            *)

(* git status marks only an untracked path with a question mark.            *)
LEMMA ChangeIsNotUntracked ==
    ASSUME NEW a, NEW b
    PROVE  Change(a, b) # "?"
BY DEF Change

(* The untracked entries of a listing: a file the index has dropped, a      *)
(* submodule the index has dropped, or a path that is never tracked.        *)
Untrackable(t, e) ==
    \/ e.path \in Files /\ ~e.slash /\ t.index[e.path] = 0 /\ t.work[e.path] # 0
    \/ e.path \in Links /\ e.slash /\ t.link[e.path].index = 0 /\ t.link[e.path].checked # 0
    \/ /\ e.path \in Others /\ t.other[e.path].kind # "absent"
       /\ e.slash = (t.other[e.path].kind = "nested")

(* An untracked entry names one of the three.                               *)
LEMMA UntrackedEntries ==
    ASSUME NEW t, NEW e \in Porcelain(t), e.x = "?"
    PROVE  e = Entry(e.path, "?", "?", e.slash) /\ Untrackable(t, e)
<1>1. CASE \E f \in Files : e \in FileEntries(t, f)
  <2>1. PICK f \in Files : e \in FileEntries(t, f)
    BY <1>1
  <2> DEFINE y == IF t.index[f] = 0 THEN " " ELSE Change(t.index[f], t.work[f])
             x == Change(t.head[f], t.index[f])
  <2>2. e # Entry(f, x, y, FALSE)
    <3>1. x # "?"
      BY ChangeIsNotUntracked
    <3>. HIDE DEF x, y
    <3>. QED  BY <3>1 DEF Entry
  <2>3. e = Entry(f, "?", "?", FALSE) /\ t.index[f] = 0 /\ t.work[f] # 0
    BY <2>1, <2>2 DEF FileEntries
  <2>. QED  BY <2>3 DEF Untrackable, Entry
<1>2. CASE \E m \in Links : e \in LinkEntries(t, m)
  <2>1. PICK m \in Links : e \in LinkEntries(t, m)
    BY <1>2
  <2> DEFINE l == t.link[m]
             x == Change(l.head, l.index)
             y == IF l.index # 0 /\ l.checked # 0 /\ (l.checked # l.index \/ l.local # 0)
                  THEN "M" ELSE " "
  <2>2. e # Entry(m, x, y, FALSE)
    <3>1. x # "?"
      BY ChangeIsNotUntracked
    <3>. HIDE DEF x, y
    <3>. QED  BY <3>1 DEF Entry
  <2>3. e # Entry(m, "U", "U", FALSE)
    BY DEF Entry
  <2>4. e = Entry(m, "?", "?", TRUE) /\ l.index = 0 /\ l.checked # 0
    BY <2>1, <2>2, <2>3 DEF LinkEntries
  <2>. QED  BY <2>4 DEF Untrackable, Entry
<1>3. CASE e \in {Entry(o, "?", "?", t.other[o].kind = "nested") :
                     o \in {o \in Others : t.other[o].kind # "absent"}}
  BY <1>3 DEF Untrackable, Entry
<1>4. \/ e \in UNION {FileEntries(t, f) : f \in Files}
      \/ e \in UNION {LinkEntries(t, m) : m \in Links}
      \/ e \in {Entry(o, "?", "?", t.other[o].kind = "nested") :
                   o \in {o \in Others : t.other[o].kind # "absent"}}
  <2> DEFINE A == UNION {FileEntries(t, f) : f \in Files}
             B == UNION {LinkEntries(t, m) : m \in Links}
             C == {Entry(o, "?", "?", t.other[o].kind = "nested") :
                      o \in {o \in Others : t.other[o].kind # "absent"}}
  <2>1. Porcelain(t) = {r \in A \cup B \cup C : <<r.x, r.y>> # <<" ", " ">>}
    BY DEF Porcelain
  <2>. HIDE DEF A, B, C
  <2>2. e \in A \/ e \in B \/ e \in C
    BY <2>1, Zenon
  <2>. QED  BY <2>2 DEF A, B, C
<1>. QED  BY <1>1, <1>2, <1>3, <1>4

(* Each path is listed as untracked once.                                   *)
LEMMA UntrackedOnce ==
    ASSUME NEW t, NEW e \in Porcelain(t), NEW d \in Porcelain(t), e.x = "?", d.x = "?",
           e.path = d.path
    PROVE  e = d
<1>1. /\ e = Entry(e.path, "?", "?", e.slash) /\ Untrackable(t, e)
      /\ d = Entry(d.path, "?", "?", d.slash) /\ Untrackable(t, d)
  BY UntrackedEntries
<1>2. e.slash = d.slash
  <2>1. CASE e.path \in Files
    <3>1. e.path \notin Links /\ e.path \notin Others
      BY <2>1, PathsAreDistinct
    <3>2. e.slash = FALSE /\ d.slash = FALSE
      BY <1>1, <3>1, UntrackedEntries DEF Untrackable
    <3>. QED  BY <3>2
  <2>2. CASE e.path \in Links
    BY <1>1, <2>2, PathsAreDistinct DEF Untrackable
  <2>3. CASE e.path \in Others
    BY <1>1, <2>3, PathsAreDistinct DEF Untrackable
  <2>. QED  BY <1>1, <2>1, <2>2, <2>3 DEF Untrackable
<1>. QED  BY <1>1, <1>2

----------------------------------------------------------------------------
(* Finitely many things told apart by a label of theirs.                    *)
LEMMA Labelled ==
    ASSUME NEW S, NEW f, DOMAIN f = S, NEW T, IsFiniteSet(T),
           \A x \in S : f[x] \in T,
           \A x, y \in S : f[x] = f[y] => x = y
    PROVE  IsFiniteSet(S) /\ Cardinality({f[x] : x \in S}) = Cardinality(S)
<1>. DEFINE g == [x \in S |-> f[x]]
            V == {f[x] : x \in S}
<1>1. V \subseteq T
  OBVIOUS
<1>2. IsFiniteSet(V)
  BY <1>1, FS_Subset
<1>3. g \in Bijection(S, V)
  <2>1. g \in [S -> V] /\ \A a, b \in S : g[a] = g[b] => a = b
    OBVIOUS
  <2>2. \A v \in V : \E x \in S : g[x] = v
    OBVIOUS
  <2>. HIDE DEF g, V
  <2>3. g \in Injection(S, V)
    BY <2>1 DEF Injection, IsInjective
  <2>4. g \in Surjection(S, V)
    BY <2>1, <2>2 DEF Surjection
  <2>. QED  BY <2>3, <2>4 DEF Bijection
<1>4. g \in Injection(S, V) /\ g \in Surjection(S, V)
  BY <1>3 DEF Bijection
<1>. HIDE DEF g, V
<1>5. IsFiniteSet(S) /\ (Cardinality(S) = Cardinality(V) <=> g \in Surjection(S, V))
  BY <1>2, <1>4, FS_Injection
<1>. QED  BY <1>4, <1>5 DEF V

(* Where no two elements share a path, there are as many paths as elements. *)
LEMMA DistinctPaths ==
    ASSUME NEW S, NEW T, IsFiniteSet(T), \A x \in S : x.path \in T,
           \A x, y \in S : x.path = y.path => x = y
    PROVE  IsFiniteSet(S) /\ Cardinality({x.path : x \in S}) = Cardinality(S)
<1>. DEFINE f == [x \in S |-> x.path]
<1>1. /\ DOMAIN f = S
      /\ \A x \in S : f[x] = x.path
      /\ {f[x] : x \in S} = {x.path : x \in S}
  OBVIOUS
<1>2. \A x, y \in S : f[x] = f[y] => x = y
  BY <1>1
<1>. HIDE DEF f
<1>. QED  BY <1>1, <1>2, Labelled

(* The same for names.                                                      *)
LEMMA DistinctNames ==
    ASSUME NEW S, NEW T, IsFiniteSet(T), \A x \in S : x.name \in T,
           \A x, y \in S : x.name = y.name => x = y
    PROVE  IsFiniteSet(S) /\ Cardinality({x.name : x \in S}) = Cardinality(S)
<1>. DEFINE f == [x \in S |-> x.name]
<1>1. /\ DOMAIN f = S
      /\ \A x \in S : f[x] = x.name
      /\ {f[x] : x \in S} = {x.name : x \in S}
  OBVIOUS
<1>2. \A x, y \in S : f[x] = f[y] => x = y
  BY <1>1
<1>. HIDE DEF f
<1>. QED  BY <1>1, <1>2, Labelled

----------------------------------------------------------------------------
(* The untracked files of the evidence.                                     *)
UntrackedOf(listing, t) == {FileKindAndDigest(t, e) : e \in {e \in listing : e.x = "?"}}

(* What is found at an entry keeps its path, and has content only if it is  *)
(* a file or a link.                                                        *)
LEMMA FoundIsAccepted ==
    ASSUME NEW t, NEW e
    PROVE  LET u == FileKindAndDigest(t, e) IN
           /\ u.path = e.path /\ u.slash = e.slash
           /\ u.kind \in {"unknown", "other"} => u.digest = 0
<1>1. CASE e.path \in Files
  BY <1>1 DEF FileKindAndDigest
<1>2. CASE e.path \in Links /\ e.path \notin Files
  BY <1>2 DEF FileKindAndDigest
<1>3. CASE e.path \notin Files /\ e.path \notin Links
  BY <1>3 DEF FileKindAndDigest
<1>. QED  BY <1>1, <1>2, <1>3

(* The untracked entries of a tree pass the validator of UntrackedEntry     *)
(* unless one has a slash, and are as many as their paths.                  *)
LEMMA UntrackedIsAccepted ==
    ASSUME NEW t, NEW u, NEW U, U = UntrackedOf(Porcelain(t), u)
    PROVE  /\ IsFiniteSet(U)
           /\ Cardinality({x.path : x \in U}) = Cardinality(U)
           /\ \A x \in U : UntrackedAccepted(x) \/ x.slash
<1>1. \A x \in U : \E e \in Porcelain(t) : e.x = "?" /\ x = FileKindAndDigest(u, e)
  BY DEF UntrackedOf
<1>2. \A x \in U : x.path \in Paths
  <2>1. ASSUME NEW e \in Porcelain(t), e.x = "?"
        PROVE  e.path \in Paths
    <3>1. Untrackable(t, e)
      BY <2>1, UntrackedEntries
    <3>. QED  BY <3>1 DEF Untrackable, Paths
  <2>. QED  BY <1>1, <2>1, FoundIsAccepted
<1>3. ASSUME NEW x \in U, NEW y \in U, x.path = y.path
      PROVE  x = y
  <2>1. PICK e \in Porcelain(t) : e.x = "?" /\ x = FileKindAndDigest(u, e)
    BY <1>1
  <2>2. PICK d \in Porcelain(t) : d.x = "?" /\ y = FileKindAndDigest(u, d)
    BY <1>1
  <2>3. e.path = d.path
    BY <1>3, <2>1, <2>2, FoundIsAccepted
  <2>. QED  BY <2>1, <2>2, <2>3, UntrackedOnce
<1>4. \A x \in U : UntrackedAccepted(x) \/ x.slash
  BY <1>1, FoundIsAccepted DEF UntrackedAccepted
<1>5. IsFiniteSet(U) /\ Cardinality({x.path : x \in U}) = Cardinality(U)
  BY <1>2, <1>3, PathsAreFinite, DistinctPaths
<1>. QED  BY <1>4, <1>5

----------------------------------------------------------------------------
(* The submodules of the evidence.                                          *)

Line(t, m) ==
    [name |-> m, commit |-> IF t.link[m].checked = 0 THEN t.link[m].index ELSE t.link[m].checked,
     prefix |-> IF t.link[m].conflict THEN "U"
                ELSE CASE t.link[m].checked = 0 -> "-"
                       [] t.link[m].checked = t.link[m].index -> " "
                       [] OTHER -> "+"]

(* git submodule status has one line for each gitlink.                      *)
LEMMA LinesOfGitlinks ==
    ASSUME NEW t
    PROVE  /\ SubmoduleLines(t) = {Line(t, m) : m \in Gitlinks(t)}
           /\ \A l \in SubmoduleLines(t) : l.name \in Links /\ l.commit # 0
           /\ \A l, k \in SubmoduleLines(t) : l.name = k.name => l = k
<1>1. SubmoduleLines(t) = {Line(t, m) : m \in Gitlinks(t)}
  BY DEF SubmoduleLines, Line
<1>2. \A m \in Gitlinks(t) : m \in Links /\ Line(t, m).name = m /\ Line(t, m).commit # 0
  BY DEF Gitlinks, Line
<1>. QED  BY <1>1, <1>2

(* The submodules of a listing pass the validator of SubmoduleEntry, and    *)
(* are as many as their names.                                              *)
LEMMA SubmodulesAreAccepted ==
    ASSUME NEW lines, NEW dirty, NEW known, NEW S, S = Submodules(lines, dirty, known),
           \A l \in lines : l.name \in Links /\ l.commit # 0,
           \A l, k \in lines : l.name = k.name => l = k,
           dirty \subseteq Links
    PROVE  /\ IsFiniteSet(S)
           /\ Cardinality({x.name : x \in S}) = Cardinality(S)
           /\ \A s \in S : s.name \in Links /\ s.commit # 0
<1>. DEFINE parsed == {[name |-> l.name, commit |-> l.commit, state |-> States[l.prefix]] :
                          l \in {l \in lines : l.prefix \in DOMAIN States}}
            Upgraded(s) == IF s.name \in dirty /\ s.state \notin DirtyStates
                           THEN [s EXCEPT !.state = "changed"] ELSE s
            filled == {[name |-> m, commit |-> known[m], state |-> "changed"] :
                          m \in {m \in dirty : known[m] # 0 /\ m \notin {s.name : s \in parsed}}}
<1>1. S = {Upgraded(s) : s \in parsed} \cup filled
  BY DEF Submodules
<1>2. ASSUME NEW s \in parsed
      PROVE  s.name \in Links /\ s.commit # 0
  OBVIOUS
<1>3. ASSUME NEW s \in parsed, NEW r \in parsed, s.name = r.name
      PROVE  s = r
  BY <1>3
<1>4. ASSUME NEW s \in parsed
      PROVE  Upgraded(s).name = s.name /\ Upgraded(s).commit = s.commit
  <2>1. PICK l \in lines : s = [name |-> l.name, commit |-> l.commit, state |-> States[l.prefix]]
    BY <1>4
  <2>. QED  BY <2>1
<1>5. ASSUME NEW s \in filled
      PROVE  s.name \in Links /\ s.commit # 0 /\ s.name \notin {r.name : r \in parsed}
  OBVIOUS
<1>6. ASSUME NEW s \in filled, NEW r \in filled, s.name = r.name
      PROVE  s = r
  BY <1>6
<1>. HIDE DEF parsed, filled
<1>7. \A x \in S : \/ x \in filled
                   \/ \E s \in parsed : x = Upgraded(s)
  BY <1>1
<1>. HIDE DEF Upgraded
<1>8. \A x \in S : x.name \in Links /\ x.commit # 0
  BY <1>2, <1>4, <1>5, <1>7
<1>9. ASSUME NEW x \in S, NEW y \in S, x.name = y.name
      PROVE  x = y
  <2>1. CASE x \in filled /\ y \in filled
    BY <1>6, <1>9, <2>1
  <2>2. ASSUME NEW s \in parsed, x = Upgraded(s)
        PROVE  x = y
    <3>1. x.name \in {r.name : r \in parsed}
      BY <1>4, <2>2
    <3>2. y \notin filled
      BY <1>5, <1>9, <3>1
    <3>3. PICK r \in parsed : y = Upgraded(r)
      BY <1>7, <3>2
    <3>. QED  BY <1>3, <1>4, <1>9, <2>2, <3>3
  <2>3. ASSUME NEW s \in parsed, y = Upgraded(s)
        PROVE  x = y
    <3>1. y.name \in {r.name : r \in parsed}
      BY <1>4, <2>3
    <3>2. x \notin filled
      BY <1>5, <1>9, <3>1
    <3>3. PICK r \in parsed : x = Upgraded(r)
      BY <1>7, <3>2
    <3>. QED  BY <1>3, <1>4, <1>9, <2>3, <3>3
  <2>. QED  BY <1>7, <2>1, <2>2, <2>3
<1>10. IsFiniteSet(Links)
  <2>1. Links \in SUBSET Paths
    BY DEF Paths
  <2>. QED  BY <2>1, PathsAreFinite, FS_Subset
<1>11. IsFiniteSet(S) /\ Cardinality({x.name : x \in S}) = Cardinality(S)
  BY <1>8, <1>9, <1>10, DistinctNames
<1>. QED  BY <1>8, <1>11

----------------------------------------------------------------------------
(* Each shortcoming with its warning and its limitation.                    *)
Short(warning, limit, n) ==
    [warning |-> warning, limit |-> <<limit, n>>, holds |-> TRUE]

(* The four shortcomings, one by one.                                       *)
LEMMA ShortcomingsAre ==
    ASSUME NEW U, NEW S, NEW f \in BOOLEAN, NEW g \in BOOLEAN, NEW s
    PROVE  s \in Shortcomings(U, S, f, g) <=>
              \/ /\ Unreadable(U) > 0
                 /\ s = Short("unreadable_untracked_content", "unreadable_untracked_files",
                              Unreadable(U))
              \/ f /\ s = Short("submodule_inspection_failed", "submodule_inspection_failed", 0)
              \/ g /\ s = Short("gitlink_discovery_failed", "gitlink_discovery_failed", 0)
              \/ /\ DirtySubmodules(S) > 0
                 /\ s = Short("dirty_submodule_content_not_captured",
                              "dirty_submodules_not_snapshotted", DirtySubmodules(S))
<1>. DEFINE a == [warning |-> "unreadable_untracked_content",
                  limit |-> <<"unreadable_untracked_files", Unreadable(U)>>,
                  holds |-> Unreadable(U) > 0]
            b == [warning |-> "submodule_inspection_failed",
                  limit |-> <<"submodule_inspection_failed", 0>>, holds |-> f]
            c == [warning |-> "gitlink_discovery_failed",
                  limit |-> <<"gitlink_discovery_failed", 0>>, holds |-> g]
            d == [warning |-> "dirty_submodule_content_not_captured",
                  limit |-> <<"dirty_submodules_not_snapshotted", DirtySubmodules(S)>>,
                  holds |-> DirtySubmodules(S) > 0]
<1>1. Shortcomings(U, S, f, g) = {r \in {a, b, c, d} : r.holds}
  BY DEF Shortcomings
<1>2. /\ a.holds <=> Unreadable(U) > 0
      /\ b.holds <=> f
      /\ c.holds <=> g
      /\ d.holds <=> DirtySubmodules(S) > 0
  OBVIOUS
<1>3. a.holds => a = Short("unreadable_untracked_content", "unreadable_untracked_files",
                           Unreadable(U))
  <2>1. (Unreadable(U) > 0) \in BOOLEAN
    OBVIOUS
  <2>. QED  BY <2>1, <1>2 DEF Short
<1>4. b.holds => b = Short("submodule_inspection_failed", "submodule_inspection_failed", 0)
  BY DEF Short
<1>5. c.holds => c = Short("gitlink_discovery_failed", "gitlink_discovery_failed", 0)
  BY DEF Short
<1>6. d.holds => d = Short("dirty_submodule_content_not_captured",
                           "dirty_submodules_not_snapshotted", DirtySubmodules(S))
  <2>1. (DirtySubmodules(S) > 0) \in BOOLEAN
    OBVIOUS
  <2>. QED  BY <2>1, <1>2 DEF Short
<1>. HIDE DEF a, b, c, d
<1>7. s \in Shortcomings(U, S, f, g) <=> \/ s = a /\ a.holds
                                         \/ s = b /\ b.holds
                                         \/ s = c /\ c.holds
                                         \/ s = d /\ d.holds
  <2>1. s \in Shortcomings(U, S, f, g) <=> s \in {a, b, c, d} /\ s.holds
    BY <1>1
  <2>2. s \in {a, b, c, d} <=> s = a \/ s = b \/ s = c \/ s = d
    OBVIOUS
  <2>3. CASE s = a
    BY <2>1, <2>2, <2>3
  <2>4. CASE s = b
    BY <2>1, <2>2, <2>4
  <2>5. CASE s = c
    BY <2>1, <2>2, <2>5
  <2>6. CASE s = d
    BY <2>1, <2>2, <2>6
  <2>. QED  BY <2>1, <2>2, <2>3, <2>4, <2>5, <2>6
<1>. QED  BY <1>2, <1>3, <1>4, <1>5, <1>6, <1>7

(* The warnings and limitations of evidence, from what it is short of.      *)
Explained(e, U, S, f, g) ==
    LET short == Shortcomings(U, S, f, g) IN
    /\ e.untracked = U /\ e.subs = S
    /\ e.completeness = (IF short = {} THEN "complete" ELSE "partial")
    /\ e.limits = Standard \cup {s.limit : s \in short}
    /\ e.warnings = {s.warning : s \in short}

(* Warnings and limitations made of shortcomings explain the completeness,  *)
(* name each other and state the numbers.                                   *)
LEMMA ExplanationIsAccepted ==
    ASSUME NEW e, NEW U, NEW S, NEW f \in BOOLEAN, NEW g \in BOOLEAN, Explained(e, U, S, f, g),
           Unreadable(U) \in Nat, DirtySubmodules(S) \in Nat
    PROVE  /\ CompletenessIsExplained(e) /\ WarningsAreLimitations(e)
           /\ LimitationsAreFacts(e)
<1>. DEFINE n == Unreadable(U)
            d == DirtySubmodules(S)
            short == Shortcomings(U, S, f, g)
            A == Short("unreadable_untracked_content", "unreadable_untracked_files", n)
            B == Short("submodule_inspection_failed", "submodule_inspection_failed", 0)
            C == Short("gitlink_discovery_failed", "gitlink_discovery_failed", 0)
            D == Short("dirty_submodule_content_not_captured",
                       "dirty_submodules_not_snapshotted", d)
<1>1. \A s : s \in short <=> \/ n > 0 /\ s = A
                             \/ f /\ s = B
                             \/ g /\ s = C
                             \/ d > 0 /\ s = D
  BY ShortcomingsAre
<1>2. /\ e.untracked = U /\ e.subs = S
      /\ e.completeness = (IF short = {} THEN "complete" ELSE "partial")
      /\ e.limits = Standard \cup {s.limit : s \in short}
      /\ e.warnings = {s.warning : s \in short}
  BY DEF Explained
<1>3. /\ A.warning = "unreadable_untracked_content"
      /\ A.limit = <<"unreadable_untracked_files", n>>
      /\ B.warning = "submodule_inspection_failed"
      /\ B.limit = <<"submodule_inspection_failed", 0>>
      /\ C.warning = "gitlink_discovery_failed"
      /\ C.limit = <<"gitlink_discovery_failed", 0>>
      /\ D.warning = "dirty_submodule_content_not_captured"
      /\ D.limit = <<"dirty_submodules_not_snapshotted", d>>
  BY DEF Short
<1>. HIDE DEF A, B, C, D, short
<1>4. \A w : w \in e.warnings <=> \/ n > 0 /\ w = "unreadable_untracked_content"
                                  \/ f /\ w = "submodule_inspection_failed"
                                  \/ g /\ w = "gitlink_discovery_failed"
                                  \/ d > 0 /\ w = "dirty_submodule_content_not_captured"
  BY <1>1, <1>2, <1>3
<1>5. \A l : l \in e.limits <=> \/ l = <<"ignored_files_not_included", 0>>
                                \/ l = <<"external_symlink_targets_not_followed", 0>>
                                \/ n > 0 /\ l = <<"unreadable_untracked_files", n>>
                                \/ f /\ l = <<"submodule_inspection_failed", 0>>
                                \/ g /\ l = <<"gitlink_discovery_failed", 0>>
                                \/ d > 0 /\ l = <<"dirty_submodules_not_snapshotted", d>>
  <2>1. Standard = {<<"ignored_files_not_included", 0>>,
                    <<"external_symlink_targets_not_followed", 0>>}
    BY DEF Standard
  <2>2. \A l : l \in {s.limit : s \in short} <=> \/ n > 0 /\ l = A.limit
                                                 \/ f /\ l = B.limit
                                                 \/ g /\ l = C.limit
                                                 \/ d > 0 /\ l = D.limit
    <3>1. \A l : l \in {s.limit : s \in short} <=> \E s \in short : l = s.limit
      OBVIOUS
    <3>2. \A l : (\E s \in short : l = s.limit) <=> \/ n > 0 /\ l = A.limit
                                                    \/ f /\ l = B.limit
                                                    \/ g /\ l = C.limit
                                                    \/ d > 0 /\ l = D.limit
      <4>. HIDE DEF n, d
      <4>. QED  BY <1>1
    <3>. QED  BY <3>1, <3>2
  <2>3. \A l : l \in e.limits <=> l \in Standard \/ l \in {s.limit : s \in short}
    BY <1>2, Zenon
  <2>. HIDE DEF n, d
  <2>4. \A l : l \in Standard <=> \/ l = <<"ignored_files_not_included", 0>>
                                  \/ l = <<"external_symlink_targets_not_followed", 0>>
    BY <2>1
  <2>. QED  BY <1>3, <2>2, <2>3, <2>4
<1>6. short = {} <=> n = 0 /\ ~f /\ ~g /\ d = 0
  BY <1>1
<1>. HIDE DEF n, d
<1>7. n \in Nat /\ d \in Nat /\ Unreadable(e.untracked) = n /\ DirtySubmodules(e.subs) = d
  BY <1>2 DEF n, d
<1>8. CompletenessIsExplained(e)
  <2>1. CASE short = {}
    <3>1. e.completeness = "complete" /\ n = 0 /\ e.warnings = {} /\ e.limits = Standard
      BY <1>2, <1>6, <2>1
    <3>. QED  BY <1>7, <3>1 DEF CompletenessIsExplained
  <2>2. CASE short # {}
    <3>1. e.completeness = "partial" /\ e.warnings # {}
      BY <1>2, <2>2
    <3>. QED  BY <3>1 DEF CompletenessIsExplained
  <2>. QED  BY <2>1, <2>2
<1>9. WarningsAreLimitations(e)
  <2>1. \A code : code \in {l[1] : l \in e.limits}
                  <=> \/ code \in {"ignored_files_not_included",
                                   "external_symlink_targets_not_followed"}
                      \/ n > 0 /\ code = "unreadable_untracked_files"
                      \/ f /\ code = "submodule_inspection_failed"
                      \/ g /\ code = "gitlink_discovery_failed"
                      \/ d > 0 /\ code = "dirty_submodules_not_snapshotted"
    <3>1. ASSUME NEW l \in e.limits
          PROVE  \/ l[1] \in {"ignored_files_not_included",
                              "external_symlink_targets_not_followed"}
                 \/ n > 0 /\ l[1] = "unreadable_untracked_files"
                 \/ f /\ l[1] = "submodule_inspection_failed"
                 \/ g /\ l[1] = "gitlink_discovery_failed"
                 \/ d > 0 /\ l[1] = "dirty_submodules_not_snapshotted"
      BY <1>5
    <3>2. /\ <<"ignored_files_not_included", 0>> \in e.limits
          /\ <<"external_symlink_targets_not_followed", 0>> \in e.limits
          /\ n > 0 => <<"unreadable_untracked_files", n>> \in e.limits
          /\ f => <<"submodule_inspection_failed", 0>> \in e.limits
          /\ g => <<"gitlink_discovery_failed", 0>> \in e.limits
          /\ d > 0 => <<"dirty_submodules_not_snapshotted", d>> \in e.limits
      BY <1>5
    <3>3. \A a, b : <<a, b>> \in e.limits => a \in {l[1] : l \in e.limits}
      OBVIOUS
    <3>. QED  BY <3>1, <3>2, <3>3
  <2>. QED  BY <1>4, <2>1 DEF WarningsAreLimitations
<1>10. LimitationsAreFacts(e)
  <2>1. {l[2] : l \in {l \in e.limits : l[1] = "unreadable_untracked_files"}}
        = IF n = 0 THEN {} ELSE {n}
    <3>1. \A l \in e.limits : l[1] = "unreadable_untracked_files" => n > 0 /\ l[2] = n
      BY <1>5
    <3>2. n > 0 => \E l \in e.limits : l[1] = "unreadable_untracked_files" /\ l[2] = n
      <4>1. ASSUME n > 0
            PROVE  <<"unreadable_untracked_files", n>> \in e.limits
        BY <1>5, <4>1
      <4>. QED  BY <4>1
    <3>. QED  BY <1>7, <3>1, <3>2
  <2>2. {l[2] : l \in {l \in e.limits : l[1] = "dirty_submodules_not_snapshotted"}}
        = IF d = 0 THEN {} ELSE {d}
    <3>1. \A l \in e.limits : l[1] = "dirty_submodules_not_snapshotted" => d > 0 /\ l[2] = d
      BY <1>5
    <3>2. d > 0 => \E l \in e.limits : l[1] = "dirty_submodules_not_snapshotted" /\ l[2] = d
      <4>1. ASSUME d > 0
            PROVE  <<"dirty_submodules_not_snapshotted", d>> \in e.limits
        BY <1>5, <4>1
      <4>. QED  BY <4>1
    <3>. QED  BY <1>7, <3>1, <3>2
  <2>. QED  BY <1>7, <2>1, <2>2 DEF LimitationsAreFacts
<1>. QED  BY <1>8, <1>9, <1>10

----------------------------------------------------------------------------
(* What was listed, and what of the index was known, from one tree.         *)
KnownGitlinks(t, blind) == IF blind THEN <<>> ELSE [m \in Gitlinks(t) |-> t.link[m].index]
Evidence(t, blind, u, failed) ==
    BuildDirtyEvidence(Porcelain(t), KnownGitlinks(t, blind), blind, u, failed)
SubmodulesOf(t, blind, u, failed) ==
    Submodules(IF failed THEN {} ELSE SubmoduleLines(u),
               DirtyGitlinks(Porcelain(t), DOMAIN KnownGitlinks(t, blind)),
               KnownGitlinks(t, blind))

(* The parts of the evidence.                                               *)
LEMMA EvidenceFields ==
    ASSUME NEW t, NEW blind \in BOOLEAN, NEW u, NEW failed \in BOOLEAN,
           NEW e, e = Evidence(t, blind, u, failed)
    PROVE  /\ Explained(e, UntrackedOf(Porcelain(t), u), SubmodulesOf(t, blind, u, failed),
                        failed, blind)
           /\ e.staged = StagedDiff(u) /\ e.unstaged = UnstagedDiff(u)
           /\ e.counts = Counts(Porcelain(t), e.untracked, e.subs)
<1>. DEFINE U == UntrackedOf(Porcelain(t), u)
            S == SubmodulesOf(t, blind, u, failed)
            short == Shortcomings(U, S, failed, blind)
<1>1. e = [staged |-> StagedDiff(u), unstaged |-> UnstagedDiff(u),
           untracked |-> U, subs |-> S,
           counts |-> Counts(Porcelain(t), U, S),
           completeness |-> IF short = {} THEN "complete" ELSE "partial",
           limits |-> Standard \cup {s.limit : s \in short},
           warnings |-> {s.warning : s \in short}]
  BY DEF Evidence, BuildDirtyEvidence, UntrackedOf, SubmodulesOf
<1>. HIDE DEF U, S, short
<1>2. /\ e.untracked = U /\ e.subs = S
      /\ e.completeness = (IF short = {} THEN "complete" ELSE "partial")
      /\ e.limits = Standard \cup {s.limit : s \in short}
      /\ e.warnings = {s.warning : s \in short}
      /\ e.staged = StagedDiff(u) /\ e.unstaged = UnstagedDiff(u)
      /\ e.counts = Counts(Porcelain(t), U, S)
  BY <1>1
<1>3. Explained(e, U, S, failed, blind)
  BY <1>2 DEF Explained, short
<1>. QED  BY <1>2, <1>3 DEF U, S

(* The gitlinks of a listing are submodules recorded with a commit.         *)
LEMMA KnownAreLinks ==
    ASSUME NEW t, NEW blind \in BOOLEAN
    PROVE  /\ DOMAIN KnownGitlinks(t, blind) \subseteq Links
           /\ DirtyGitlinks(Porcelain(t), DOMAIN KnownGitlinks(t, blind)) \subseteq Links
<1>1. DOMAIN KnownGitlinks(t, blind) \subseteq Links
  BY DEF KnownGitlinks, Gitlinks
<1>2. \A S : DirtyGitlinks(Porcelain(t), S) \subseteq S
  BY DEF DirtyGitlinks
<1>. QED  BY <1>1, <1>2

(* The entries and the submodules of the evidence are finitely many.        *)
LEMMA EvidenceIsFinite ==
    ASSUME NEW t, NEW blind \in BOOLEAN, NEW u, NEW failed \in BOOLEAN,
           NEW S, S = SubmodulesOf(t, blind, u, failed),
           NEW U, U = UntrackedOf(Porcelain(t), u)
    PROVE  /\ Cardinality({x.name : x \in S}) = Cardinality(S)
           /\ \A s \in S : s.name \in Links /\ s.commit # 0
           /\ Unreadable(U) \in Nat /\ (Unreadable(U) = 0 => \A x \in U : x.digest # 0)
           /\ DirtySubmodules(S) \in Nat
           /\ DirtySubmodules(S) = 0 => \A s \in S : s.state \notin DirtyStates
<1>1. /\ Cardinality({x.name : x \in S}) = Cardinality(S)
      /\ \A s \in S : s.name \in Links /\ s.commit # 0
  <2> DEFINE lines == IF failed THEN {} ELSE SubmoduleLines(u)
             dirty == DirtyGitlinks(Porcelain(t), DOMAIN KnownGitlinks(t, blind))
             known == KnownGitlinks(t, blind)
  <2>1. /\ \A l \in lines : l.name \in Links /\ l.commit # 0
        /\ \A l, k \in lines : l.name = k.name => l = k
    BY LinesOfGitlinks
  <2>2. dirty \subseteq Links
    BY KnownAreLinks
  <2>3. S = Submodules(lines, dirty, known)
    BY DEF SubmodulesOf
  <2>. HIDE DEF lines, dirty, known
  <2>. QED  BY <2>1, <2>2, <2>3, SubmodulesAreAccepted
<1>2. Unreadable(U) \in Nat /\ (Unreadable(U) = 0 => \A x \in U : x.digest # 0)
  <2> DEFINE V == {x \in U : x.digest = 0}
  <2>1. V \in SUBSET U /\ IsFiniteSet(U)
    BY UntrackedIsAccepted
  <2>2. IsFiniteSet(V)
    BY <2>1, FS_Subset
  <2>. HIDE DEF V
  <2>3. Cardinality(V) \in Nat /\ (Cardinality(V) = 0 => V = {})
    BY <2>2, FS_CardinalityType, FS_EmptySet
  <2>. QED  BY <2>3 DEF Unreadable, V
<1>3. /\ DirtySubmodules(S) \in Nat
      /\ DirtySubmodules(S) = 0 => \A s \in S : s.state \notin DirtyStates
  <2> DEFINE V == {s.name : s \in {s \in S : s.state \in DirtyStates}}
  <2>1. V \in SUBSET Paths
    BY <1>1 DEF Paths
  <2>2. IsFiniteSet(V)
    BY PathsAreFinite, <2>1, FS_Subset
  <2>. HIDE DEF V
  <2>3. Cardinality(V) \in Nat /\ (Cardinality(V) = 0 => V = {})
    BY <2>2, FS_CardinalityType, FS_EmptySet
  <2>. QED  BY <2>3 DEF DirtySubmodules, V
<1>. QED  BY <1>1, <1>2, <1>3

(* _build_dirty_evidence passes SourceEvidence, but for an untracked path   *)
(* with a trailing slash.                                                   *)
LEMMA EvidenceIsSound ==
    ASSUME NEW t, NEW blind \in BOOLEAN, NEW u, NEW failed \in BOOLEAN,
           NEW e, e = Evidence(t, blind, u, failed)
    PROVE  EvidenceAccepted(e) \/ \E x \in e.untracked : x.slash
<1>. DEFINE U == UntrackedOf(Porcelain(t), u)
            S == SubmodulesOf(t, blind, u, failed)
<1>1. /\ Explained(e, U, S, failed, blind) /\ e.untracked = U /\ e.subs = S
      /\ e.counts = Counts(Porcelain(t), U, S)
  BY EvidenceFields DEF Explained
<1>2. /\ IsFiniteSet(U)
      /\ Cardinality({x.path : x \in U}) = Cardinality(U)
      /\ \A x \in U : UntrackedAccepted(x) \/ x.slash
  BY UntrackedIsAccepted
<1>3. /\ Cardinality({x.name : x \in S}) = Cardinality(S)
      /\ \A s \in S : s.name \in Links /\ s.commit # 0
      /\ Unreadable(U) \in Nat /\ DirtySubmodules(S) \in Nat
  BY EvidenceIsFinite
<1>. HIDE DEF U, S
<1>4. CompletenessIsExplained(e) /\ WarningsAreLimitations(e) /\ LimitationsAreFacts(e)
  BY <1>1, <1>3, ExplanationIsAccepted
<1>5. CountsAgree(e)
  <2>1. e.counts.untracked = Cardinality(U) /\ e.counts.submodules = Cardinality(S)
    <3>1. \E a, b, c : Counts(Porcelain(t), U, S)
                     = [staged |-> a, unstaged |-> b, deleted |-> c,
                        untracked |-> Cardinality(U), submodules |-> Cardinality(S)]
      BY Zenon DEF Counts
    <3>. QED  BY <1>1, <3>1
  <2>. QED  BY <1>1, <1>2, <1>3, <2>1 DEF CountsAgree
<1>6. \A s \in e.subs : SubmoduleAccepted(s)
  BY <1>1, <1>3 DEF SubmoduleAccepted
<1>. QED  BY <1>1, <1>2, <1>4, <1>5, <1>6 DEF EvidenceAccepted

----------------------------------------------------------------------------
(* What a call has read, against the tree it was started from and the one   *)
(* the repository holds. While no edit has disturbed the capture the two    *)
(* are the same, and what was read is of that tree.                         *)
Reading == {"committed", "listing", "evidence"}

IsListingOf(c, t) == c.listing = Porcelain(t) /\ c.known = KnownGitlinks(t, c.blind)

IsSnapshotOf(s, t) ==
    /\ s.digest = EnvelopeDigest(CleanTreeDigest(t), s.evidence)
    /\ ~IsDirty(t) => s.evidence = <<>>
    /\ IsDirty(t) => \E blind \in BOOLEAN : \E failed \in BOOLEAN :
                        /\ s.evidence = <<Evidence(t, blind, t, failed)>>
                        /\ EvidenceAccepted(Evidence(t, blind, t, failed))

InputsOf(c) == <<[name |-> "source.snapshot", digest |-> c.snap.digest]>> \o c.set.extra
IsIdentityOf(c) ==
    /\ c.set \in Settings(c.seen) /\ Resolves(c.set.file, c.set.tokens)
    /\ InputsAccepted(InputsOf(c))
    /\ c.ident.fp = SpecificationFingerprint(CanonicalBytes(c.set.file, c.set.tokens), InputsOf(c))

ReadSoFar(c, t) ==
    /\ {"seen", "still"} \subseteq DOMAIN c /\ c.seen \in Trees
    /\ c.still => t = c.seen
    /\ c.step = "committed" => "dirty" \in DOMAIN c /\ (c.dirty <=> IsDirty(c.seen))
    /\ c.step \in {"listing", "evidence"} =>
          /\ "committed" \in DOMAIN c /\ IsDirty(c.seen)
          /\ c.still => c.committed.tree = CleanTreeDigest(c.seen)
    /\ c.step = "evidence" =>
          /\ {"listing", "known", "blind"} \subseteq DOMAIN c /\ c.blind \in BOOLEAN
          /\ \E u \in Trees : IsListingOf(c, u)
          /\ c.still => IsListingOf(c, c.seen)

Witnessed(c, t) ==
    /\ c.step \in Reading => ReadSoFar(c, t)
    /\ c.step \in Captured => /\ {"snap", "seen", "still"} \subseteq DOMAIN c /\ c.seen \in Trees
                              /\ c.still => IsSnapshotOf(c.snap, c.seen)
    /\ c.step \in Identified => {"set", "ident"} \subseteq DOMAIN c /\ IsIdentityOf(c)
    /\ "ident" \in DOMAIN c => c.step \in Identified
    /\ "refused" \in DOMAIN c => /\ c.step = "escaped"
                                 /\ \E x \in c.refused.untracked : x.slash

(* The steps of reading, of what is captured and of what is identified.     *)
LEMMA StepsDiffer ==
    /\ \A s \in Reading : s \notin Captured /\ s \notin Identified /\ s # "escaped"
    /\ "identity" \in Captured /\ "identity" \notin Identified /\ "identity" \notin Reading
    /\ Identified \subseteq Captured
    /\ "escaped" \notin Captured /\ "escaped" \notin Reading /\ "escaped" \notin Identified
    /\ Reading = {"committed", "listing", "evidence"}
    /\ HasRecord \subseteq Identified
  BY Nested DEF Reading, Captured, Identified

(* A call that ended, or has not begun, has nothing to witness.             *)
LEMMA EndedIsWitnessed ==
    ASSUME NEW how \in (Finished \ {"returned"}) \cup {"idle"}, NEW t
    PROVE  Witnessed([step |-> how], t)
<1>1. how \notin Reading \cup Captured \cup Identified
  BY DEF Finished, Reading, Captured, Identified
<1>. QED  BY <1>1 DEF Witnessed

(* A call that has its identity only moves on, or learns its provenance.    *)
LEMMA StaysWitnessed ==
    ASSUME NEW c, NEW d, NEW t, NEW u, Witnessed(c, t), c.step \in Identified, d.step \in Identified,
           {"snap", "seen", "still", "set", "ident"} \subseteq DOMAIN d,
           d.snap = c.snap, d.seen = c.seen, d.still = c.still, d.set = c.set, d.ident = c.ident,
           "refused" \in DOMAIN d => "refused" \in DOMAIN c
    PROVE  Witnessed(d, u)
<1>1. d.step \notin Reading /\ d.step \in Captured /\ c.step # "escaped" /\ c.step \in Captured
  BY StepsDiffer
<1>2. /\ c.seen \in Trees /\ (c.still => IsSnapshotOf(c.snap, c.seen))
      /\ IsIdentityOf(c) /\ "refused" \notin DOMAIN c
  BY <1>1 DEF Witnessed
<1>3. IsIdentityOf(d)
  <2>1. InputsOf(d) = InputsOf(c)
    BY DEF InputsOf
  <2>. QED  BY <1>2, <2>1 DEF IsIdentityOf
<1>. QED  BY <1>1, <1>2, <1>3 DEF Witnessed

(* The snapshot a capture builds.                                           *)
LEMMA CaptureIsWitnessed ==
    ASSUME Shape, NEW p \in Procs, NEW committed, NEW evidence, Capture(p, committed, evidence),
           NEW t, call[p].step \in Reading, ReadSoFar(call[p], tree),
           call[p].still =>
              IsSnapshotOf([digest |-> EnvelopeDigest(committed.tree, evidence),
                            evidence |-> evidence], call[p].seen)
    PROVE  Witnessed(call'[p], t)
<1>1. CASE SnapshotAccepted(Snapshot(committed, evidence))
  <2> DEFINE snap == Snapshot(committed, evidence)
             c == [step |-> "identity", snap |-> snap,
                   seen |-> call[p].seen, still |-> call[p].still]
  <2>1. call'[p] = c
    BY <1>1 DEF Capture, Shape
  <2>2. snap.digest = EnvelopeDigest(committed.tree, evidence) /\ snap.evidence = evidence
    BY DEF Snapshot
  <2>3. call[p].still => IsSnapshotOf(snap, call[p].seen)
    BY <2>2 DEF IsSnapshotOf
  <2>4. call[p].seen \in Trees
    BY DEF ReadSoFar
  <2>. HIDE DEF snap
  <2>5. Witnessed(c, t)
    BY <2>3, <2>4, StepsDiffer DEF Witnessed
  <2>. QED  BY <2>1, <2>5
<1>2. CASE ~SnapshotAccepted(Snapshot(committed, evidence))
  <2>1. Stop(p, "escaped")
    BY <1>2 DEF Capture
  <2>2. call'[p] = [step |-> "escaped"] /\ "escaped" \in Finished \ {"returned"}
    BY <2>1, Stopped DEF Shape, Finished
  <2>. QED  BY <2>2, EndedIsWitnessed
<1>. QED  BY <1>1, <1>2

(* A reading call that learns more of the tree.                             *)
LEMMA LearnsWitnessed ==
    ASSUME Shape, NEW p \in Procs, NEW more, Learn(p, more), NEW t,
           call[p].step \in Reading \cup {"idle"}, Witnessed(call[p], tree),
           "step" \in DOMAIN more, more["step"] \in Reading,
           {"ident", "refused"} \cap DOMAIN more = {},
           ReadSoFar(call'[p], t)
    PROVE  Witnessed(call'[p], t)
<1>1. DOMAIN call'[p] = DOMAIN more \cup DOMAIN call[p] /\ call'[p].step = more["step"]
  BY Learned
<1>2. call[p].step \notin Identified /\ call[p].step # "escaped"
  BY DEF Reading, Identified
<1>3. "ident" \notin DOMAIN call[p] /\ "refused" \notin DOMAIN call[p]
  BY <1>2 DEF Witnessed
<1>. QED  BY <1>1, <1>3, StepsDiffer DEF Witnessed

WInv == tree \in Trees /\ \A p \in Procs : Witnessed(call[p], tree)

(* The first look at the tree.                                              *)
LEMMA CheckDirtyIsWitnessed ==
    ASSUME Shape, WInv, NEW p \in Procs, CheckDirty(p)
    PROVE  Witnessed(call'[p], tree)
<1>. DEFINE more == [step |-> "committed", dirty |-> IsDirty(tree), seen |-> tree, still |-> TRUE]
<1>1. Stop(p, "failed") \/ Learn(p, more)
  BY DEF CheckDirty
<1>2. CASE Stop(p, "failed")
  <2>1. call'[p] = [step |-> "failed"] /\ "failed" \in Finished \ {"returned"}
    BY <1>2, Stopped DEF Shape, Finished
  <2>. QED  BY <2>1, EndedIsWitnessed
<1>3. CASE Learn(p, more)
  <2>1. /\ DOMAIN more = {"step", "dirty", "seen", "still"}
        /\ more["step"] = "committed" /\ (more["dirty"] <=> IsDirty(tree))
        /\ more["seen"] = tree /\ more["still"]
    OBVIOUS
  <2>. HIDE DEF more
  <2>2. /\ DOMAIN call'[p] = DOMAIN more \cup DOMAIN call[p]
        /\ \A f \in DOMAIN more : call'[p][f] = more[f]
    BY <1>3, Learned
  <2>3. ReadSoFar(call'[p], tree)
    BY <2>1, <2>2 DEF ReadSoFar, WInv
  <2>4. call[p].step = "idle" /\ Witnessed(call[p], tree)
    BY DEF CheckDirty, WInv
  <2>. QED  BY <1>3, <2>1, <2>3, <2>4, LearnsWitnessed DEF Reading
<1>. QED  BY <1>1, <1>2, <1>3

(* What is committed; a clean tree has its snapshot with that.              *)
LEMMA ReadCommittedIsWitnessed ==
    ASSUME Shape, WInv, NEW p \in Procs, ReadCommitted(p)
    PROVE  Witnessed(call'[p], tree)
<1>0. PICK remote :
        LET committed == [commit |-> tree.commit, tree |-> CleanTreeDigest(tree),
                          remote |-> remote]
        IN  \/ call[p].dirty /\ Learn(p, [step |-> "listing", committed |-> committed])
            \/ ~call[p].dirty /\ Capture(p, committed, <<>>)
  BY DEF ReadCommitted
<1>. DEFINE committed == [commit |-> tree.commit, tree |-> CleanTreeDigest(tree),
                          remote |-> remote]
            more == [step |-> "listing", committed |-> committed]
<1>1. /\ call[p].step = "committed" /\ Witnessed(call[p], tree)
      /\ \/ call[p].dirty /\ Learn(p, more)
         \/ ~call[p].dirty /\ Capture(p, committed, <<>>)
  BY <1>0 DEF ReadCommitted, WInv
<1>2. ReadSoFar(call[p], tree) /\ call[p].step \in Reading
  BY <1>1 DEF Witnessed, Reading
<1>3. call[p].dirty <=> IsDirty(call[p].seen)
  BY <1>1, <1>2 DEF ReadSoFar
<1>4. committed.tree = CleanTreeDigest(tree)
  OBVIOUS
<1>5. CASE call[p].dirty /\ Learn(p, more)
  <2>1. /\ DOMAIN more = {"step", "committed"}
        /\ more["step"] = "listing" /\ more["committed"] = committed
    OBVIOUS
  <2>. HIDE DEF more
  <2>2. /\ DOMAIN call'[p] = DOMAIN more \cup DOMAIN call[p]
        /\ \A f \in DOMAIN more : call'[p][f] = more[f]
        /\ \A f \in DOMAIN call[p] \ DOMAIN more : call'[p][f] = call[p][f]
    BY <1>5, Learned
  <2>. HIDE DEF committed
  <2>3. /\ {"seen", "still", "committed"} \subseteq DOMAIN call'[p]
        /\ call'[p].seen = call[p].seen /\ call'[p].still = call[p].still
        /\ call'[p].committed = committed /\ call'[p].step = "listing"
    BY <1>2, <2>1, <2>2 DEF ReadSoFar
  <2>4. ReadSoFar(call'[p], tree)
    BY <1>2, <1>3, <1>4, <1>5, <2>3 DEF ReadSoFar
  <2>. QED  BY <1>1, <1>2, <1>5, <2>1, <2>4, LearnsWitnessed DEF Reading
<1>6. CASE ~call[p].dirty /\ Capture(p, committed, <<>>)
  <2> DEFINE s == [digest |-> EnvelopeDigest(committed.tree, <<>>), evidence |-> <<>>]
  <2>1. call[p].still => IsSnapshotOf(s, call[p].seen)
    BY <1>2, <1>3, <1>4, <1>6 DEF IsSnapshotOf, ReadSoFar
  <2>. QED  BY <1>2, <1>6, <2>1, CaptureIsWitnessed
<1>. QED  BY <1>1, <1>5, <1>6

(* The listing and the gitlinks are of one tree.                            *)
LEMMA ListIsWitnessed ==
    ASSUME Shape, WInv, NEW p \in Procs, List(p)
    PROVE  Witnessed(call'[p], tree)
<1>1. PICK blind \in BOOLEAN :
        Learn(p, [step |-> "evidence", listing |-> Porcelain(tree), blind |-> blind,
                  known |-> KnownGitlinks(tree, blind)])
  <2>1. KnownGitlinks(tree, TRUE) = <<>>
        /\ KnownGitlinks(tree, FALSE) = [m \in Gitlinks(tree) |-> tree.link[m].index]
    BY DEF KnownGitlinks
  <2>. QED  BY <2>1 DEF List
<1>. DEFINE more == [step |-> "evidence", listing |-> Porcelain(tree), blind |-> blind,
                     known |-> KnownGitlinks(tree, blind)]
<1>2. /\ DOMAIN more = {"step", "listing", "blind", "known"}
      /\ more["step"] = "evidence" /\ more["listing"] = Porcelain(tree)
      /\ more["blind"] = blind /\ more["known"] = KnownGitlinks(tree, blind)
  OBVIOUS
<1>3. Learn(p, more)
  BY <1>1
<1>. HIDE DEF more
<1>4. call[p].step = "listing" /\ Witnessed(call[p], tree) /\ tree \in Trees
  BY DEF List, WInv
<1>5. ReadSoFar(call[p], tree) /\ call[p].step \in Reading
  BY <1>4 DEF Witnessed, Reading
<1>6. /\ DOMAIN call'[p] = DOMAIN more \cup DOMAIN call[p]
      /\ \A f \in DOMAIN more : call'[p][f] = more[f]
      /\ \A f \in DOMAIN call[p] \ DOMAIN more : call'[p][f] = call[p][f]
  BY <1>3, Learned
<1>7. /\ {"seen", "still", "committed", "listing", "known", "blind"} \subseteq DOMAIN call'[p]
      /\ call'[p].seen = call[p].seen /\ call'[p].still = call[p].still
      /\ call'[p].committed = call[p].committed /\ call'[p].step = "evidence"
      /\ call'[p].listing = Porcelain(tree) /\ call'[p].blind = blind
      /\ call'[p].known = KnownGitlinks(tree, blind)
  BY <1>2, <1>4, <1>5, <1>6 DEF ReadSoFar
<1>8. IsListingOf(call'[p], tree)
  BY <1>7 DEF IsListingOf
<1>9. ReadSoFar(call'[p], tree)
  BY <1>4, <1>5, <1>7, <1>8 DEF ReadSoFar
<1>. QED  BY <1>2, <1>3, <1>4, <1>5, <1>9, LearnsWitnessed DEF Reading

(* The evidence is taken of the tree as it is now, and refused only for a   *)
(* slash.                                                                   *)
LEMMA ReadEvidenceIsWitnessed ==
    ASSUME Shape, WInv, NEW p \in Procs, ReadEvidence(p)
    PROVE  Witnessed(call'[p], tree)
<1>1. call[p].step = "evidence" /\ Witnessed(call[p], tree) /\ tree \in Trees
  BY DEF ReadEvidence, WInv
<1>2. ReadSoFar(call[p], tree) /\ call[p].step \in Reading
  BY <1>1 DEF Witnessed, Reading
<1>3. PICK failed \in BOOLEAN :
        LET e == BuildDirtyEvidence(call[p].listing, call[p].known, call[p].blind, tree, failed) IN
        IF EvidenceAccepted(e) THEN Capture(p, call[p].committed, <<e>>)
        ELSE Learn(p, [step |-> "escaped", refused |-> e])
  BY DEF ReadEvidence
<1>. DEFINE e == BuildDirtyEvidence(call[p].listing, call[p].known, call[p].blind, tree, failed)
<1>4. CASE EvidenceAccepted(e)
  <2> DEFINE s == [digest |-> EnvelopeDigest(call[p].committed.tree, <<e>>), evidence |-> <<e>>]
  <2>1. ASSUME call[p].still
        PROVE  IsSnapshotOf(s, call[p].seen)
    <3>1. /\ call[p].seen = tree /\ call[p].blind \in BOOLEAN /\ IsDirty(tree)
          /\ IsListingOf(call[p], tree)
          /\ call[p].committed.tree = CleanTreeDigest(tree)
      BY <1>1, <1>2, <2>1 DEF ReadSoFar
    <3>2. e = Evidence(tree, call[p].blind, tree, failed)
      BY <3>1 DEF IsListingOf, Evidence
    <3>. HIDE DEF e
    <3>. QED  BY <1>4, <3>1, <3>2 DEF IsSnapshotOf
  <2>2. Capture(p, call[p].committed, <<e>>)
    BY <1>3, <1>4
  <2>. HIDE DEF e
  <2>. QED  BY <1>2, <2>1, <2>2, CaptureIsWitnessed
<1>5. CASE ~EvidenceAccepted(e)
  <2> DEFINE more == [step |-> "escaped", refused |-> e]
  <2>1. Learn(p, more)
    BY <1>3, <1>5
  <2>2. PICK u \in Trees : IsListingOf(call[p], u)
    BY <1>1, <1>2 DEF ReadSoFar
  <2>3. e = Evidence(u, call[p].blind, tree, failed) /\ call[p].blind \in BOOLEAN
    BY <1>1, <1>2, <2>2 DEF IsListingOf, Evidence, ReadSoFar
  <2>. HIDE DEF e
  <2>4. \E x \in e.untracked : x.slash
    BY <1>5, <2>3, EvidenceIsSound
  <2>5. /\ DOMAIN more = {"step", "refused"}
        /\ more["step"] = "escaped" /\ more["refused"] = e
    OBVIOUS
  <2>. HIDE DEF more
  <2>6. /\ DOMAIN call'[p] = DOMAIN more \cup DOMAIN call[p]
        /\ \A f \in DOMAIN more : call'[p][f] = more[f]
    BY <2>1, Learned
  <2>7. /\ call'[p].step = "escaped" /\ call'[p].refused = e
        /\ ("ident" \in DOMAIN call'[p] => "ident" \in DOMAIN call[p])
    BY <2>5, <2>6
  <2>8. "ident" \notin DOMAIN call[p]
    BY <1>1, <1>2, StepsDiffer DEF Witnessed
  <2>. QED  BY <2>4, <2>7, <2>8, StepsDiffer DEF Witnessed
<1>. QED  BY <1>4, <1>5

(* The fingerprint is of the configuration, the snapshot and the inputs.    *)
LEMMA IdentifyIsWitnessed ==
    ASSUME Shape, WInv, NEW p \in Procs, Identify(p)
    PROVE  Witnessed(call'[p], tree)
<1>1. call[p].step = "identity" /\ Witnessed(call[p], tree)
  BY DEF Identify, WInv
<1>2. PICK set \in {x \in Settings(call[p].seen) : Resolves(x.file, x.tokens)} :
        LET inputs == <<[name |-> "source.snapshot", digest |-> call[p].snap.digest]>> \o set.extra
            fp == SpecificationFingerprint(CanonicalBytes(set.file, set.tokens), inputs)
        IN  \/ Stop(p, "escaped") \/ Stop(p, "failed")
            \/ /\ InputsAccepted(inputs)
               /\ \E parent, attempt :
                     Learn(p, [step |-> "identity file", set |-> set,
                               ident |-> IdentityRecord(fp, parent, attempt)])
  BY Zenon DEF Identify
<1>. DEFINE inputs == <<[name |-> "source.snapshot", digest |-> call[p].snap.digest]>> \o set.extra
            fp == SpecificationFingerprint(CanonicalBytes(set.file, set.tokens), inputs)
<1>3. ASSUME NEW how \in {"escaped", "failed"}, Stop(p, how)
      PROVE  Witnessed(call'[p], tree)
  <2>1. call'[p] = [step |-> how] /\ how \in Finished \ {"returned"}
    BY <1>3, Stopped DEF Shape, Finished
  <2>. QED  BY <2>1, EndedIsWitnessed
<1>4. ASSUME InputsAccepted(inputs), NEW parent, NEW attempt,
             Learn(p, [step |-> "identity file", set |-> set,
                       ident |-> IdentityRecord(fp, parent, attempt)])
      PROVE  Witnessed(call'[p], tree)
  <2> DEFINE ident == IdentityRecord(fp, parent, attempt)
             more == [step |-> "identity file", set |-> set, ident |-> ident]
             c == call'[p]
  <2>1. ident.fp = fp
    BY DEF IdentityRecord
  <2>2. /\ DOMAIN more = {"step", "set", "ident"}
        /\ more["step"] = "identity file" /\ more["set"] = set /\ more["ident"] = ident
    OBVIOUS
  <2>3. Learn(p, more)
    BY <1>4
  <2>. HIDE DEF more, ident, fp, inputs
  <2>4. /\ DOMAIN call'[p] = DOMAIN more \cup DOMAIN call[p]
        /\ \A f \in DOMAIN more : call'[p][f] = more[f]
        /\ \A f \in DOMAIN call[p] \ DOMAIN more : call'[p][f] = call[p][f]
    BY <2>3, Learned
  <2>5. /\ {"snap", "seen", "still"} \subseteq DOMAIN call[p] /\ call[p].seen \in Trees
        /\ call[p].still => IsSnapshotOf(call[p].snap, call[p].seen)
        /\ "refused" \notin DOMAIN call[p]
    BY <1>1, StepsDiffer DEF Witnessed
  <2>6. /\ {"snap", "seen", "still", "set", "ident"} \subseteq DOMAIN c
        /\ c.snap = call[p].snap /\ c.seen = call[p].seen /\ c.still = call[p].still
        /\ c.set = set /\ c.ident = ident /\ c.step = "identity file"
        /\ "refused" \notin DOMAIN c
    BY <2>2, <2>4, <2>5
  <2>. HIDE DEF c
  <2>7. InputsOf(c) = inputs
    BY <2>6 DEF InputsOf, inputs
  <2>8. IsIdentityOf(c)
    BY <1>2, <1>4, <2>1, <2>6, <2>7 DEF IsIdentityOf, fp
  <2>9. "identity file" \in Identified
    BY DEF Identified
  <2>10. Witnessed(c, tree)
    BY <2>5, <2>6, <2>8, <2>9, StepsDiffer DEF Witnessed
  <2>. QED  BY <2>10 DEF c
<1>. QED  BY <1>2, <1>3, <1>4

(* Every step keeps what the calls have read; an edit ends the stillness of *)
(* those that are reading.                                                  *)
LEMMA WitnessedStep ==
    ASSUME Shape, WInv, [Next]_vars
    PROVE  WInv'
<1>1. CASE UNCHANGED vars
  BY <1>1 DEF WInv, vars
<1>2. CASE Edit
  <2>1. tree' \in Trees
    BY <1>2, PreparationBounds DEF Edit, WInv
  <2>2. ASSUME NEW r \in Procs
        PROVE  Witnessed(call'[r], tree')
    <3>1. CASE Capturing(r)
      <4>1. call'[r] = [call[r] EXCEPT !.still = FALSE] /\ call[r].step \in Reading
        BY <1>2, <3>1 DEF Edit, Capturing, Reading
      <4>2. Witnessed(call[r], tree) /\ ReadSoFar(call[r], tree)
        BY <4>1 DEF WInv, Witnessed
      <4>3. /\ DOMAIN call'[r] = DOMAIN call[r] /\ ~call'[r].still
            /\ \A f \in DOMAIN call[r] \ {"still"} : call'[r][f] = call[r][f]
        BY <4>1, <4>2 DEF ReadSoFar
      <4>4. call'[r].step = call[r].step
        BY <4>3 DEF Shape
      <4>5. ReadSoFar(call'[r], tree')
        <5>1. /\ {"seen", "still"} \subseteq DOMAIN call'[r]
              /\ call'[r].seen = call[r].seen /\ call[r].seen \in Trees
          BY <4>2, <4>3 DEF ReadSoFar
        <5>2. call'[r].step = "committed" => "dirty" \in DOMAIN call'[r]
                                             /\ (call'[r].dirty <=> IsDirty(call[r].seen))
          BY <4>2, <4>3, <4>4 DEF ReadSoFar
        <5>3. call'[r].step \in {"listing", "evidence"} =>
                 "committed" \in DOMAIN call'[r] /\ IsDirty(call[r].seen)
          BY <4>2, <4>3, <4>4 DEF ReadSoFar
        <5>4. ASSUME call'[r].step = "evidence"
              PROVE  /\ {"listing", "known", "blind"} \subseteq DOMAIN call'[r]
                     /\ call'[r].blind \in BOOLEAN
                     /\ \E u \in Trees : IsListingOf(call'[r], u)
          <6>1. /\ {"listing", "known", "blind"} \subseteq DOMAIN call[r]
                /\ call[r].blind \in BOOLEAN
                /\ \E u \in Trees : IsListingOf(call[r], u)
            BY <4>2, <4>4, <5>4 DEF ReadSoFar
          <6>2. /\ call'[r].listing = call[r].listing /\ call'[r].known = call[r].known
                /\ call'[r].blind = call[r].blind
            BY <4>3, <6>1
          <6>. QED  BY <4>3, <6>1, <6>2 DEF IsListingOf
        <5>. QED  BY <4>3, <5>1, <5>2, <5>3, <5>4 DEF ReadSoFar
      <4>. QED  BY <4>1, <4>2, <4>3, <4>4, <4>5, StepsDiffer DEF Witnessed
    <3>2. CASE ~Capturing(r)
      <4>1. call'[r] = call[r] /\ Witnessed(call[r], tree)
        BY <1>2, <3>2 DEF Edit, WInv
      <4>2. call[r].step \notin Reading
        BY <3>2 DEF Capturing, Reading
      <4>. QED  BY <4>1, <4>2 DEF Witnessed
    <3>. QED  BY <3>1, <3>2
  <2>. QED  BY <2>1, <2>2 DEF WInv
<1>3. ASSUME NEW p \in Procs, NEW how \in Finished \ {"returned"}, Stop(p, how)
      PROVE  Witnessed(call'[p], tree)
  <2>1. call'[p] = [step |-> how]
    BY <1>3, Stopped DEF Shape
  <2>. QED  BY <2>1, EndedIsWitnessed
<1>4. {"dead", "failed", "escaped"} \subseteq Finished \ {"returned"}
  BY DEF Finished
<1>5. ASSUME NEW p \in Procs, Die(p) \/ Again(p) \/ GitFails(p) \/ MakeDirectoryFails(p)
      PROVE  Witnessed(call'[p], tree)
  <2>1. CASE Die(p) \/ GitFails(p) \/ MakeDirectoryFails(p)
    BY <1>3, <1>4, <2>1 DEF Die, GitFails, MakeDirectoryFails
  <2>2. CASE Again(p)
    <3>1. call'[p] = [step |-> "idle"]
      BY <2>2 DEF Again, Fresh, Shape
    <3>. QED  BY <3>1, EndedIsWitnessed
  <2>. QED  BY <1>5, <2>1, <2>2
<1>6. ASSUME NEW p \in Procs,
             \/ CreateIdentity(p) \/ WriteIdentity(p)
             \/ CreateProvenance(p) \/ WriteProvenance(p)
      PROVE  Witnessed(call'[p], tree)
  <2>1. \/ Stop(p, "failed")
        \/ call[p].step = "identity file" /\ Goto(p, "identity bytes")
        \/ call[p].step = "identity bytes" /\ Goto(p, "environment")
        \/ call[p].step = "provenance file" /\ Goto(p, "provenance bytes")
        \/ call[p].step = "provenance bytes" /\ Goto(p, "returned")
    BY <1>6 DEF CreateIdentity, WriteIdentity, CreateProvenance, WriteProvenance,
                CreateExclusive, WriteAll
  <2>2. ASSUME NEW next \in Identified, Goto(p, next), call[p].step \in Identified
        PROVE  Witnessed(call'[p], tree)
    <3>1. /\ DOMAIN call'[p] = DOMAIN call[p] /\ call'[p].step = next
          /\ \A f \in DOMAIN call[p] \ {"step"} : call'[p][f] = call[p][f]
      BY <2>2, Gone
    <3>2. Witnessed(call[p], tree) /\ {"snap", "seen", "still", "set", "ident"} \subseteq DOMAIN call[p]
      BY <2>2, StepsDiffer DEF WInv, Witnessed
    <3>. QED  BY <2>2, <3>1, <3>2, StaysWitnessed
  <2>3. {"identity file", "identity bytes", "environment", "provenance file",
         "provenance bytes", "returned"} \subseteq Identified
    BY DEF Identified
  <2>. QED  BY <1>3, <1>4, <2>1, <2>2, <2>3
<1>7. ASSUME NEW p \in Procs, Observe(p)
      PROVE  Witnessed(call'[p], tree)
  <2>1. call[p].step = "environment"
        /\ (Stop(p, "escaped") \/ \E r : Learn(p, [step |-> "provenance file", prov |-> r]))
    BY <1>7, Zenon DEF Observe
  <2>2. ASSUME NEW r, Learn(p, [step |-> "provenance file", prov |-> r])
        PROVE  Witnessed(call'[p], tree)
    <3> DEFINE more == [step |-> "provenance file", prov |-> r]
    <3>1. /\ DOMAIN more = {"step", "prov"} /\ more["step"] = "provenance file"
          /\ Learn(p, more)
      BY <2>2
    <3>. HIDE DEF more
    <3>2. /\ DOMAIN call'[p] = DOMAIN more \cup DOMAIN call[p]
          /\ \A f \in DOMAIN more : call'[p][f] = more[f]
          /\ \A f \in DOMAIN call[p] \ DOMAIN more : call'[p][f] = call[p][f]
      BY <3>1, Learned
    <3>3. {"environment", "provenance file"} \subseteq Identified
      BY DEF Identified
    <3>4. Witnessed(call[p], tree) /\ {"snap", "seen", "still", "set", "ident"} \subseteq DOMAIN call[p]
      BY <2>1, <3>3, StepsDiffer DEF WInv, Witnessed
    <3>5. /\ {"snap", "seen", "still", "set", "ident"} \subseteq DOMAIN call'[p]
          /\ call'[p].snap = call[p].snap /\ call'[p].seen = call[p].seen
          /\ call'[p].still = call[p].still /\ call'[p].set = call[p].set
          /\ call'[p].ident = call[p].ident
          /\ call'[p].step = "provenance file"
          /\ "refused" \in DOMAIN call'[p] => "refused" \in DOMAIN call[p]
      BY <3>1, <3>2, <3>4
    <3>. QED  BY <2>1, <3>2, <3>3, <3>4, <3>5, StaysWitnessed
  <2>. QED  BY <1>3, <1>4, <2>1, <2>2
<1>8. ASSUME NEW p \in Procs,
             \/ Die(p) \/ Again(p) \/ GitFails(p) \/ CheckDirty(p) \/ ReadCommitted(p)
             \/ List(p) \/ ReadEvidence(p) \/ MakeDirectoryFails(p)
             \/ Identify(p) \/ CreateIdentity(p) \/ WriteIdentity(p)
             \/ Observe(p) \/ CreateProvenance(p) \/ WriteProvenance(p)
      PROVE  WInv'
  <2>1. tree' = tree
    BY <1>8, Zenon DEF Die, Again, GitFails, CheckDirty, ReadCommitted, List, ReadEvidence,
       MakeDirectoryFails, Identify, CreateIdentity, WriteIdentity, Observe, CreateProvenance,
       WriteProvenance, Unwritten
  <2>2. Witnessed(call'[p], tree)
    BY <1>5, <1>6, <1>7, <1>8, CheckDirtyIsWitnessed, ReadCommittedIsWitnessed, ListIsWitnessed,
       ReadEvidenceIsWitnessed, IdentifyIsWitnessed
  <2>3. ASSUME NEW r \in Procs
        PROVE  Witnessed(call'[r], tree)
    <3>1. CASE r = p
      BY <2>2, <3>1
    <3>2. CASE r # p
      <4>1. call'[r] = call[r]
        BY <1>8, <3>2, OthersStay
      <4>. QED  BY <4>1 DEF WInv
    <3>. QED  BY <3>1, <3>2
  <2>. QED  BY <2>1, <2>3 DEF WInv
<1>. QED  BY <1>1, <1>2, <1>8, Zenon DEF Next

(* The invariant holds.                                                     *)
LEMMA WInvHolds == Spec => []WInv
<1>1. Init => WInv
  <2>1. ASSUME Init, NEW p \in Procs
        PROVE  Witnessed(call[p], tree)
    <3>1. call[p] = [step |-> "idle"]
      BY <2>1 DEF Init, Fresh
    <3>. QED  BY <3>1, EndedIsWitnessed
  <2>. QED  BY <2>1 DEF Init, WInv
<1>2. PInv /\ WInv /\ [Next]_vars => WInv'
  BY WitnessedStep DEF PInv
<1>. QED  BY <1>1, <1>2, PInvHolds, PTL DEF Spec

(* The evidence of a dirty tree passes the validators of its record however *)
(* edits fall between listing the tree and reading it: if it is refused, a  *)
(* path with a trailing slash was listed as untracked.                      *)
THEOREM AcceptedEvidence == Spec => []EvidenceIsAccepted
<1>1. WInv => EvidenceIsAccepted
  BY DEF WInv, Witnessed, EvidenceIsAccepted
<1>. QED  BY <1>1, WInvHolds, PTL

----------------------------------------------------------------------------
(* The configuration and the inputs of a fingerprint.                       *)

(* Accepted tokens name each path once, so their order does not matter.     *)
LEMMA SameTokens ==
    ASSUME NEW file, NEW a, NEW b, a \in Seq(ElementsOf(a)), b \in Seq(ElementsOf(b)),
           OverridesAccepted(a), OverridesAccepted(b), ElementsOf(a) = ElementsOf(b)
    PROVE  CanonicalBytes(file, a) = CanonicalBytes(file, b)
<1>. DEFINE LastOf(s, path) == CHOOSE i \in DOMAIN s :
                                  /\ s[i].path = path
                                  /\ \A j \in DOMAIN s : s[j].path = path => j <= i
            Named(s) == {s[i].path : i \in DOMAIN s}
<1>1. ASSUME NEW s, s \in Seq(ElementsOf(s)), OverridesAccepted(s), NEW k \in DOMAIN s
      PROVE  LastOf(s, s[k].path) = k
  <2>1. DOMAIN s = 1..Len(s)
    BY <1>1
  <2>2. \A j \in DOMAIN s : s[j].path = s[k].path => j = k
    BY <1>1 DEF OverridesAccepted
  <2>3. k \in DOMAIN s /\ s[k].path = s[k].path
        /\ \A j \in DOMAIN s : s[j].path = s[k].path => j <= k
    BY <1>1, <2>1, <2>2
  <2>. QED  BY <2>2, <2>3
<1>2. Named(a) = {x.path : x \in ElementsOf(a)} /\ Named(b) = {x.path : x \in ElementsOf(b)}
  BY DEF ElementsOf
<1>3. Named(a) = Named(b)
  BY <1>2
<1>4. ASSUME NEW path \in Named(a)
      PROVE  a[LastOf(a, path)] = b[LastOf(b, path)]
  <2>1. PICK i \in DOMAIN a : path = a[i].path
    BY <1>4
  <2>2. PICK k \in DOMAIN b : b[k] = a[i]
    BY DEF ElementsOf
  <2>3. LastOf(a, path) = i /\ LastOf(b, path) = k
    BY <1>1, <2>1, <2>2
  <2>. QED  BY <2>2, <2>3
<1>5. \A s : Overridden(file.content, s) =
               [path \in DOMAIN file.content \cup Named(s) |->
                  IF path \in Named(s) THEN s[LastOf(s, path)].value ELSE file.content[path]]
  BY Zenon DEF Overridden
<1>. HIDE DEF LastOf, Named
<1>6. Overridden(file.content, a) = Overridden(file.content, b)
  BY <1>3, <1>4, <1>5
<1>. QED  BY <1>6 DEF CanonicalBytes

SourceInput(digest) == [name |-> "source.snapshot", digest |-> digest]

(* Accepted inputs are the snapshot and the extra inputs, none of which has *)
(* its name.                                                                *)
LEMMA InputsWith ==
    ASSUME NEW d, NEW s, s \in Seq(ElementsOf(s)),
           NEW inputs, inputs = <<SourceInput(d)>> \o s, InputsAccepted(inputs)
    PROVE  /\ {inputs[i] : i \in DOMAIN inputs} = {SourceInput(d)} \cup ElementsOf(s)
           /\ \A x \in ElementsOf(s) : x.name # "source.snapshot"
<1>1. /\ DOMAIN s = 1..Len(s) /\ Len(s) \in Nat
      /\ DOMAIN inputs = 1..(Len(s) + 1)
      /\ inputs[1] = SourceInput(d)
      /\ \A i \in 1..Len(s) : inputs[i + 1] = s[i]
  <2> DEFINE T == ElementsOf(s) \cup {SourceInput(d)}
  <2>1. s \in Seq(T) /\ <<SourceInput(d)>> \in Seq(T) /\ Len(<<SourceInput(d)>>) = 1
    BY SeqDef
  <2>. HIDE DEF T
  <2>. QED  BY <2>1, ConcatProperties
<1>2. \A i \in DOMAIN inputs : i = 1 \/ (i - 1 \in 1..Len(s) /\ inputs[i] = s[i - 1])
  <2>1. ASSUME NEW i \in DOMAIN inputs, i # 1
        PROVE  i - 1 \in 1..Len(s) /\ inputs[i] = s[i - 1]
    <3>1. i - 1 \in 1..Len(s) /\ (i - 1) + 1 = i
      BY <1>1, <2>1
    <3>. QED  BY <1>1, <3>1
  <2>. QED  BY <2>1
<1>3. {inputs[i] : i \in DOMAIN inputs} \subseteq {SourceInput(d)} \cup ElementsOf(s)
  BY <1>1, <1>2 DEF ElementsOf
<1>4. {SourceInput(d)} \cup ElementsOf(s) \subseteq {inputs[i] : i \in DOMAIN inputs}
  <2>1. 1 \in DOMAIN inputs /\ \A i \in 1..Len(s) : i + 1 \in DOMAIN inputs
    BY <1>1
  <2>. QED  BY <1>1, <2>1 DEF ElementsOf
<1>5. ASSUME NEW x \in ElementsOf(s), x.name = "source.snapshot"
      PROVE  FALSE
  <2>1. PICK i \in 1..Len(s) : x = s[i]
    BY <1>1 DEF ElementsOf
  <2>2. inputs[i + 1].name = inputs[1].name /\ i + 1 \in DOMAIN inputs /\ 1 \in DOMAIN inputs
    BY <1>1, <1>5, <2>1 DEF SourceInput
  <2>3. i + 1 = 1
    BY <2>2 DEF InputsAccepted
  <2>. QED  BY <2>3
<1>. QED  BY <1>3, <1>4, <1>5

(* Two sets of such inputs are one exactly if digest and extra inputs are.  *)
LEMMA SameInputs ==
    ASSUME NEW d, NEW e, NEW X, NEW Y,
           \A x \in X : x.name # "source.snapshot", \A y \in Y : y.name # "source.snapshot"
    PROVE  {SourceInput(d)} \cup X = {SourceInput(e)} \cup Y <=> d = e /\ X = Y
<1>1. ASSUME {SourceInput(d)} \cup X = {SourceInput(e)} \cup Y
      PROVE  d = e /\ X = Y
  <2>1. /\ SourceInput(d).name = "source.snapshot" /\ SourceInput(e).name = "source.snapshot"
        /\ SourceInput(d).digest = d /\ SourceInput(e).digest = e
    BY DEF SourceInput
  <2>2. SourceInput(d) \notin Y /\ SourceInput(e) \notin X
    BY <2>1
  <2>3. SourceInput(d) = SourceInput(e)
    BY <1>1, <2>2
  <2>4. SourceInput(d) \notin X
    BY <2>2, <2>3
  <2>. QED  BY <1>1, <2>1, <2>2, <2>3, <2>4
<1>. QED  BY <1>1

(* Two identified calls have one fingerprint exactly if their effective     *)
(* configurations, the digests of their snapshots and their inputs agree.   *)
LEMMA SameFingerprint ==
    ASSUME NEW c, NEW d, IsIdentityOf(c), IsIdentityOf(d),
           c.set.extra \in Seq(ElementsOf(c.set.extra)), d.set.extra \in Seq(ElementsOf(d.set.extra))
    PROVE  c.ident.fp = d.ident.fp <=>
              /\ CanonicalBytes(c.set.file, c.set.tokens) = CanonicalBytes(d.set.file, d.set.tokens)
              /\ c.snap.digest = d.snap.digest
              /\ ElementsOf(c.set.extra) = ElementsOf(d.set.extra)
<1>1. ASSUME NEW r, IsIdentityOf(r), r.set.extra \in Seq(ElementsOf(r.set.extra))
      PROVE  /\ r.ident.fp = [config |-> CanonicalBytes(r.set.file, r.set.tokens),
                              inputs |-> {SourceInput(r.snap.digest)} \cup ElementsOf(r.set.extra)]
             /\ \A x \in ElementsOf(r.set.extra) : x.name # "source.snapshot"
  <2>1. InputsOf(r) = <<SourceInput(r.snap.digest)>> \o r.set.extra
    BY DEF InputsOf, SourceInput
  <2>2. /\ {InputsOf(r)[i] : i \in DOMAIN InputsOf(r)}
              = {SourceInput(r.snap.digest)} \cup ElementsOf(r.set.extra)
        /\ \A x \in ElementsOf(r.set.extra) : x.name # "source.snapshot"
    BY <1>1, <2>1, InputsWith DEF IsIdentityOf
  <2>. QED  BY <1>1, <2>2 DEF IsIdentityOf, SpecificationFingerprint
<1>. DEFINE C == CanonicalBytes(c.set.file, c.set.tokens)
            D == CanonicalBytes(d.set.file, d.set.tokens)
            X == ElementsOf(c.set.extra)
            Y == ElementsOf(d.set.extra)
<1>2. /\ c.ident.fp = [config |-> C, inputs |-> {SourceInput(c.snap.digest)} \cup X]
      /\ d.ident.fp = [config |-> D, inputs |-> {SourceInput(d.snap.digest)} \cup Y]
      /\ \A x \in X : x.name # "source.snapshot"
      /\ \A y \in Y : y.name # "source.snapshot"
  BY <1>1
<1>. HIDE DEF C, D, X, Y
<1>3. {SourceInput(c.snap.digest)} \cup X = {SourceInput(d.snap.digest)} \cup Y
      <=> c.snap.digest = d.snap.digest /\ X = Y
  BY <1>2, SameInputs
<1>4. c.ident.fp = d.ident.fp <=>
         C = D /\ {SourceInput(c.snap.digest)} \cup X = {SourceInput(d.snap.digest)} \cup Y
  <2> DEFINE P == {SourceInput(c.snap.digest)} \cup X
             Q == {SourceInput(d.snap.digest)} \cup Y
  <2>1. c.ident.fp = [config |-> C, inputs |-> P] /\ d.ident.fp = [config |-> D, inputs |-> Q]
    BY <1>2
  <2>. HIDE DEF P, Q
  <2>2. c.ident.fp = d.ident.fp <=> C = D /\ P = Q
    BY <2>1
  <2>. QED  BY <2>2 DEF P, Q
<1>. QED  BY <1>3, <1>4 DEF C, D, X, Y

----------------------------------------------------------------------------
(* What is listed, and what a tree is that lists nothing.                   *)

(* A status column is blank exactly if nothing changed.                     *)
LEMMA NoChange ==
    ASSUME NEW a, NEW b
    PROVE  (Change(a, b) = " ") <=> (a = b)
<1>1. CASE a = b
  BY <1>1 DEF Change
<1>2. CASE a # b
  <2>1. Change(a, b) # " "
    BY <1>2 DEF Change
  <2>. QED  BY <1>2, <2>1
<1>. QED  BY <1>1, <1>2

Blank == <<" ", " ">>

(* The entries of a file or submodule that are not blank are listed, and    *)
(* every untracked path.                                                    *)
LEMMA IsListed ==
    ASSUME NEW t
    PROVE  /\ \A f \in Files : \A e \in FileEntries(t, f) :
                 <<e.x, e.y>> # Blank => e \in Porcelain(t)
           /\ \A m \in Links : \A e \in LinkEntries(t, m) :
                 <<e.x, e.y>> # Blank => e \in Porcelain(t)
           /\ \A o \in Others : t.other[o].kind # "absent" =>
                 Entry(o, "?", "?", t.other[o].kind = "nested") \in Porcelain(t)
<1>. DEFINE A == UNION {FileEntries(t, f) : f \in Files}
            B == UNION {LinkEntries(t, m) : m \in Links}
            C == {Entry(o, "?", "?", t.other[o].kind = "nested") :
                     o \in {o \in Others : t.other[o].kind # "absent"}}
<1>1. Porcelain(t) = {r \in A \cup B \cup C : <<r.x, r.y>> # Blank}
  BY DEF Porcelain, Blank
<1>2. /\ \A f \in Files : \A e \in FileEntries(t, f) : e \in A
      /\ \A m \in Links : \A e \in LinkEntries(t, m) : e \in B
      /\ \A o \in Others : t.other[o].kind # "absent" =>
            Entry(o, "?", "?", t.other[o].kind = "nested") \in C
  OBVIOUS
<1>3. \A o : <<Entry(o, "?", "?", t.other[o].kind = "nested").x,
               Entry(o, "?", "?", t.other[o].kind = "nested").y>> # Blank
  <2>1. \A o, s : Entry(o, "?", "?", s).x = "?" /\ Entry(o, "?", "?", s).y = "?"
    BY DEF Entry
  <2>. QED  BY <2>1 DEF Blank
<1>. HIDE DEF A, B, C
<1>. QED  BY <1>1, <1>2, <1>3

(* Nothing else is listed.                                                  *)
LEMMA WhatIsListed ==
    ASSUME NEW t, NEW e \in Porcelain(t)
    PROVE  /\ <<e.x, e.y>> # Blank
           /\ \/ \E f \in Files : e \in FileEntries(t, f)
              \/ \E m \in Links : e \in LinkEntries(t, m)
              \/ \E o \in Others : t.other[o].kind # "absent"
                                   /\ e = Entry(o, "?", "?", t.other[o].kind = "nested")
<1>. DEFINE A == UNION {FileEntries(t, f) : f \in Files}
            B == UNION {LinkEntries(t, m) : m \in Links}
            C == {Entry(o, "?", "?", t.other[o].kind = "nested") :
                     o \in {o \in Others : t.other[o].kind # "absent"}}
<1>1. Porcelain(t) = {r \in A \cup B \cup C : <<r.x, r.y>> # Blank}
  BY DEF Porcelain, Blank
<1>2. /\ \A r \in A : \E f \in Files : r \in FileEntries(t, f)
      /\ \A r \in B : \E m \in Links : r \in LinkEntries(t, m)
      /\ \A r \in C : \E o \in Others : t.other[o].kind # "absent"
                                        /\ r = Entry(o, "?", "?", t.other[o].kind = "nested")
  OBVIOUS
<1>. HIDE DEF A, B, C
<1>. QED  BY <1>1, <1>2

(* A submodule whose commits agree and that nothing was done to.            *)
Undisturbed(l) ==
    /\ ~l.conflict /\ l.local = 0 /\ l.checked \in {0, l.index}

CleanTree(t) ==
    /\ \A f \in Files : t.head[f] = t.index[f] /\ t.work[f] = t.index[f]
    /\ \A o \in Others : t.other[o].kind = "absent"
    /\ \A m \in Links : t.link[m].head = t.link[m].index /\ Undisturbed(t.link[m])

LinkChange(l) ==
    IF l.index # 0 /\ l.checked # 0 /\ (l.checked # l.index \/ l.local # 0) THEN "M" ELSE " "

(* The entries of a submodule.                                              *)
LEMMA LinkEntriesAre ==
    ASSUME NEW t, NEW m
    PROVE  LET l == t.link[m] IN
           /\ l.conflict => LinkEntries(t, m) = {Entry(m, "U", "U", FALSE)}
           /\ ~l.conflict => \A e : e \in LinkEntries(t, m) <=>
                 \/ e = Entry(m, Change(l.head, l.index), LinkChange(l), FALSE)
                 \/ l.index = 0 /\ l.checked # 0 /\ e = Entry(m, "?", "?", TRUE)
<1>. DEFINE l == t.link[m]
            E == Entry(m, Change(l.head, l.index), LinkChange(l), FALSE)
            Q == Entry(m, "?", "?", TRUE)
<1>1. LinkEntries(t, m) = IF l.conflict THEN {Entry(m, "U", "U", FALSE)}
                          ELSE {E} \cup {Q : c \in IF l.index = 0 THEN {l.checked} \ {0} ELSE {}}
  BY DEF LinkEntries, LinkChange
<1>. HIDE DEF E, Q
<1>2. \A e : e \in {E} \cup {Q : c \in IF l.index = 0 THEN {l.checked} \ {0} ELSE {}}
              <=> e = E \/ (l.index = 0 /\ l.checked # 0 /\ e = Q)
  OBVIOUS
<1>. QED  BY <1>1, <1>2 DEF E, Q

FileChange(t, f) == IF t.index[f] = 0 THEN " " ELSE Change(t.index[f], t.work[f])

(* The entries of a file.                                                   *)
LEMMA FileEntriesAre ==
    ASSUME NEW t, NEW f
    PROVE  \A e : e \in FileEntries(t, f) <=>
                 \/ e = Entry(f, Change(t.head[f], t.index[f]), FileChange(t, f), FALSE)
                 \/ t.index[f] = 0 /\ t.work[f] # 0 /\ e = Entry(f, "?", "?", FALSE)
<1>. DEFINE E == Entry(f, Change(t.head[f], t.index[f]), FileChange(t, f), FALSE)
            Q == Entry(f, "?", "?", FALSE)
<1>1. FileEntries(t, f)
        = {E} \cup {Q : w \in IF t.index[f] = 0 THEN {t.work[f]} \ {0} ELSE {}}
  BY DEF FileEntries, FileChange
<1>. HIDE DEF E, Q
<1>2. \A e : e \in {E} \cup {Q : w \in IF t.index[f] = 0 THEN {t.work[f]} \ {0} ELSE {}}
              <=> e = E \/ (t.index[f] = 0 /\ t.work[f] # 0 /\ e = Q)
  OBVIOUS
<1>. QED  BY <1>1, <1>2 DEF E, Q

(* The fields of an entry.                                                  *)
LEMMA EntryFields ==
    ASSUME NEW path, NEW x, NEW y, NEW slash
    PROVE  /\ Entry(path, x, y, slash).path = path /\ Entry(path, x, y, slash).x = x
           /\ Entry(path, x, y, slash).y = y /\ Entry(path, x, y, slash).slash = slash
BY DEF Entry

(* A submodule leaves no entry exactly if it is committed and undisturbed.  *)
LEMMA QuietLink ==
    ASSUME NEW t, IsTree(t), NEW m \in Links
    PROVE  LET l == t.link[m] IN
           (l.head = l.index /\ Undisturbed(l))
             <=> \A e \in LinkEntries(t, m) : <<e.x, e.y>> = Blank
<1>. DEFINE l == t.link[m]
            E == Entry(m, Change(l.head, l.index), LinkChange(l), FALSE)
            Q == Entry(m, "?", "?", TRUE)
            R == Entry(m, "U", "U", FALSE)
<1>1. /\ l.checked = 0 => l.local = 0
      /\ l.conflict \in BOOLEAN
  BY DEF IsTree
<1>2. /\ E.x = Change(l.head, l.index) /\ E.y = LinkChange(l)
      /\ Q.x = "?" /\ Q.y = "?" /\ R.x = "U"
  BY DEF Entry
<1>3. /\ l.conflict => LinkEntries(t, m) = {R}
      /\ ~l.conflict => \A e : e \in LinkEntries(t, m) <=>
                                  \/ e = E
                                  \/ l.index = 0 /\ l.checked # 0 /\ e = Q
  BY LinkEntriesAre
<1>4. (LinkChange(l) = " ") <=> (l.index = 0 \/ l.checked = 0 \/ (l.checked = l.index /\ l.local = 0))
  BY DEF LinkChange
<1>5. (Change(l.head, l.index) = " ") <=> (l.head = l.index)
  BY NoChange
<1>. HIDE DEF l, E, Q, R
<1>6. CASE l.conflict
  <2>1. ~Undisturbed(l)
    BY <1>6 DEF Undisturbed
  <2>2. R \in LinkEntries(t, m) /\ <<R.x, R.y>> # Blank
    BY <1>2, <1>3, <1>6 DEF Blank
  <2>. QED  BY <2>1, <2>2 DEF l
<1>7. CASE ~l.conflict
  <2>1. (\A e \in LinkEntries(t, m) : <<e.x, e.y>> = Blank)
          <=> <<E.x, E.y>> = Blank /\ ((l.index = 0 /\ l.checked # 0) => <<Q.x, Q.y>> = Blank)
    BY <1>3, <1>7
  <2>2. <<E.x, E.y>> = Blank <=> (l.head = l.index /\ LinkChange(l) = " ")
    BY <1>2, <1>5 DEF Blank
  <2>3. <<Q.x, Q.y>> # Blank
    BY <1>2 DEF Blank
  <2>4. (\A e \in LinkEntries(t, m) : <<e.x, e.y>> = Blank)
          <=> (l.head = l.index /\ LinkChange(l) = " " /\ ~(l.index = 0 /\ l.checked # 0))
    BY <2>1, <2>2, <2>3
  <2>5. (l.head = l.index /\ LinkChange(l) = " " /\ ~(l.index = 0 /\ l.checked # 0))
          <=> (l.head = l.index /\ Undisturbed(l))
    BY <1>1, <1>4, <1>7 DEF Undisturbed
  <2>. QED  BY <2>4, <2>5 DEF l
<1>. QED  BY <1>1, <1>6, <1>7

(* A file leaves no entry exactly if head, index and disk agree.            *)
LEMMA QuietFile ==
    ASSUME NEW t, NEW f \in Files
    PROVE  (t.head[f] = t.index[f] /\ t.work[f] = t.index[f])
             <=> \A e \in FileEntries(t, f) : <<e.x, e.y>> = Blank
<1>. DEFINE E == Entry(f, Change(t.head[f], t.index[f]), FileChange(t, f), FALSE)
            Q == Entry(f, "?", "?", FALSE)
<1>1. /\ E.x = Change(t.head[f], t.index[f]) /\ E.y = FileChange(t, f)
      /\ Q.x = "?" /\ Q.y = "?"
  BY DEF Entry
<1>2. \A e : e \in FileEntries(t, f) <=>
               \/ e = E
               \/ t.index[f] = 0 /\ t.work[f] # 0 /\ e = Q
  BY FileEntriesAre
<1>3. (FileChange(t, f) = " ") <=> (t.index[f] = 0 \/ t.index[f] = t.work[f])
  BY NoChange DEF FileChange
<1>4. (Change(t.head[f], t.index[f]) = " ") <=> (t.head[f] = t.index[f])
  BY NoChange
<1>. HIDE DEF E, Q
<1>5. (\A e \in FileEntries(t, f) : <<e.x, e.y>> = Blank)
        <=> <<E.x, E.y>> = Blank /\ ((t.index[f] = 0 /\ t.work[f] # 0) => <<Q.x, Q.y>> = Blank)
  BY <1>2
<1>6. <<E.x, E.y>> = Blank <=> (t.head[f] = t.index[f] /\ FileChange(t, f) = " ")
  BY <1>1, <1>4 DEF Blank
<1>7. <<Q.x, Q.y>> # Blank
  BY <1>1 DEF Blank
<1>. QED  BY <1>3, <1>5, <1>6, <1>7

(* git status is silent exactly about a clean tree.                         *)
LEMMA CleanMeans ==
    ASSUME NEW t, IsTree(t)
    PROVE  ~IsDirty(t) <=> CleanTree(t)
<1>1. ASSUME ~IsDirty(t)
      PROVE  CleanTree(t)
  <2>1. Porcelain(t) = {}
    BY <1>1 DEF IsDirty
  <2>2. /\ \A f \in Files : \A e \in FileEntries(t, f) : <<e.x, e.y>> = Blank
        /\ \A m \in Links : \A e \in LinkEntries(t, m) : <<e.x, e.y>> = Blank
        /\ \A o \in Others : t.other[o].kind = "absent"
    BY <2>1, IsListed
  <2>. QED  BY <2>2, QuietFile, QuietLink DEF CleanTree
<1>2. ASSUME CleanTree(t), NEW e \in Porcelain(t)
      PROVE  FALSE
  <2>1. /\ \A f \in Files : \A r \in FileEntries(t, f) : <<r.x, r.y>> = Blank
        /\ \A m \in Links : \A r \in LinkEntries(t, m) : <<r.x, r.y>> = Blank
        /\ \A o \in Others : t.other[o].kind = "absent"
    BY <1>2, QuietFile, QuietLink DEF CleanTree
  <2>. QED  BY <2>1, WhatIsListed
<1>. QED  BY <1>1, <1>2 DEF IsDirty

----------------------------------------------------------------------------
(* What complete evidence says of the tree it was taken from.               *)

(* A dirty gitlink with a recorded commit is reported changed or            *)
(* conflicted.                                                              *)
LEMMA DirtyIsReported ==
    ASSUME NEW lines, NEW dirty, NEW known, NEW m \in dirty, known[m] # 0
    PROVE  \E s \in Submodules(lines, dirty, known) : s.name = m /\ s.state \in DirtyStates
<1>. DEFINE parsed == {[name |-> l.name, commit |-> l.commit, state |-> States[l.prefix]] :
                          l \in {l \in lines : l.prefix \in DOMAIN States}}
            Upgraded(s) == IF s.name \in dirty /\ s.state \notin DirtyStates
                           THEN [s EXCEPT !.state = "changed"] ELSE s
            filled == {[name |-> n, commit |-> known[n], state |-> "changed"] :
                          n \in {n \in dirty : known[n] # 0 /\ n \notin {s.name : s \in parsed}}}
<1>1. Submodules(lines, dirty, known) = {Upgraded(s) : s \in parsed} \cup filled
  BY DEF Submodules
<1>2. "changed" \in DirtyStates
  BY DEF DirtyStates
<1>3. CASE m \in {s.name : s \in parsed}
  <2>1. PICK s \in parsed : s.name = m
    BY <1>3
  <2>2. Upgraded(s).name = m
    <3>1. PICK l \in lines : s = [name |-> l.name, commit |-> l.commit, state |-> States[l.prefix]]
      BY <2>1
    <3>. QED  BY <2>1, <3>1
  <2>3. Upgraded(s).state \in DirtyStates
    <3>1. PICK l \in lines : s = [name |-> l.name, commit |-> l.commit, state |-> States[l.prefix]]
      BY <2>1
    <3>. QED  BY <1>2, <2>1, <3>1
  <2>4. Upgraded(s) \in {Upgraded(r) : r \in parsed}
    BY <2>1
  <2>. QED  BY <1>1, <2>2, <2>3, <2>4
<1>4. CASE m \notin {s.name : s \in parsed}
  <2>1. [name |-> m, commit |-> known[m], state |-> "changed"] \in filled
    BY <1>4
  <2>. QED  BY <1>1, <1>2, <2>1
<1>. QED  BY <1>3, <1>4

(* A submodule of the index that was changed in any way is a dirty gitlink. *)
LEMMA ChangedIsDirty ==
    ASSUME NEW t, IsTree(t), NEW m \in Links, t.link[m].index # 0,
           ~(t.link[m].head = t.link[m].index /\ Undisturbed(t.link[m]))
    PROVE  m \in DirtyGitlinks(Porcelain(t), Gitlinks(t))
<1>. DEFINE l == t.link[m]
            E == Entry(m, Change(l.head, l.index), LinkChange(l), FALSE)
            R == Entry(m, "U", "U", FALSE)
<1>1. PICK e \in LinkEntries(t, m) : <<e.x, e.y>> # Blank
  BY QuietLink
<1>2. e \in Porcelain(t)
  BY <1>1, IsListed
<1>3. e.path = m /\ (e.x \notin {" ", "?"} \/ e.y \notin {" ", "?"})
  <2>1. CASE l.conflict
    <3>1. e = R
      BY <2>1, LinkEntriesAre
    <3>. QED  BY <3>1 DEF Entry
  <2>2. CASE ~l.conflict
    <3>1. e = E
      BY <2>2, LinkEntriesAre
    <3>2. e.path = m /\ e.x = Change(l.head, l.index) /\ e.y = LinkChange(l)
      BY <3>1 DEF Entry
    <3>3. e.x # "?" /\ e.y # "?"
      <4>1. LinkChange(l) # "?"
        BY DEF LinkChange
      <4>. QED  BY <3>2, <4>1, ChangeIsNotUntracked
    <3>4. e.x # " " \/ e.y # " "
      BY <1>1 DEF Blank
    <3>. QED  BY <3>2, <3>3, <3>4
  <2>. QED  BY <2>1, <2>2
<1>4. m \in Gitlinks(t)
  BY DEF Gitlinks
<1>. QED  BY <1>2, <1>3, <1>4 DEF DirtyGitlinks

(* A submodule the index has dropped, still checked out, is refused.        *)
LEMMA NestedIsRefused ==
    ASSUME NEW t, IsTree(t), NEW m \in Links, t.link[m].index = 0, t.link[m].checked # 0
    PROVE  \E x \in UntrackedOf(Porcelain(t), t) : x.slash
<1>. DEFINE Q == Entry(m, "?", "?", TRUE)
<1>1. ~t.link[m].conflict
  BY DEF IsTree
<1>2. Q \in LinkEntries(t, m)
  BY <1>1, LinkEntriesAre
<1>3. Q.x = "?" /\ Q.y = "?" /\ Q.slash
  BY DEF Entry
<1>. HIDE DEF Q
<1>4. <<Q.x, Q.y>> # Blank
  BY <1>3 DEF Blank
<1>5. Q \in Porcelain(t)
  BY <1>2, <1>4, IsListed
<1>6. FileKindAndDigest(t, Q) \in UntrackedOf(Porcelain(t), t)
  BY <1>3, <1>5 DEF UntrackedOf
<1>7. FileKindAndDigest(t, Q).slash = Q.slash
  BY FoundIsAccepted
<1>. QED  BY <1>3, <1>6, <1>7

Uninitialized(t, m) == [name |-> m, commit |-> t.link[m].index, state |-> "uninitialized"]

(* Evidence of one tree that is accepted and complete missed nothing: no    *)
(* command failed, all untracked content was read, and no submodule differs *)
(* from what is committed, except that one may not be initialized, which it *)
(* says.                                                                    *)
LEMMA CompleteTree ==
    ASSUME NEW t, IsTree(t), NEW blind \in BOOLEAN, NEW failed \in BOOLEAN,
           NEW e, e = Evidence(t, blind, t, failed), EvidenceAccepted(e),
           e.completeness = "complete"
    PROVE  /\ ~blind /\ ~failed
           /\ e.staged = StagedDiff(t) /\ e.unstaged = UnstagedDiff(t)
           /\ e.untracked = UntrackedOf(Porcelain(t), t)
           /\ \A x \in e.untracked : x.digest # 0
           /\ \A m \in Links : /\ Undisturbed(t.link[m])
                               /\ t.link[m].index # 0 => t.link[m].head = t.link[m].index
           /\ \A m \in Links : t.link[m].index # 0 =>
                 (t.link[m].checked = 0 <=> Uninitialized(t, m) \in e.subs)
<1>. DEFINE U == UntrackedOf(Porcelain(t), t)
            S == SubmodulesOf(t, blind, t, failed)
            short == Shortcomings(U, S, failed, blind)
<1>1. /\ Explained(e, U, S, failed, blind)
      /\ e.staged = StagedDiff(t) /\ e.unstaged = UnstagedDiff(t)
  BY EvidenceFields
<1>2. e.untracked = U /\ e.subs = S /\ short = {}
  <2>1. /\ e.untracked = U /\ e.subs = S
        /\ e.completeness = (IF short = {} THEN "complete" ELSE "partial")
    BY <1>1 DEF Explained
  <2>. HIDE DEF U, S, short
  <2>. QED  BY <2>1
<1>3. ~blind /\ ~failed /\ ~(Unreadable(U) > 0) /\ ~(DirtySubmodules(S) > 0)
  <2>1. \A s : s \notin short
    BY <1>2
  <2>. QED  BY <2>1, ShortcomingsAre
<1>4. (\A x \in U : x.digest # 0) /\ (\A s \in S : s.state \notin DirtyStates)
  <2>. HIDE DEF U, S, short
  <2>1. /\ Unreadable(U) \in Nat /\ (Unreadable(U) = 0 => \A x \in U : x.digest # 0)
        /\ DirtySubmodules(S) \in Nat
        /\ DirtySubmodules(S) = 0 => \A s \in S : s.state \notin DirtyStates
    BY EvidenceIsFinite DEF U, S
  <2>. QED  BY <1>3, <2>1
<1>5. \A x \in U : ~x.slash
  BY <1>2 DEF EvidenceAccepted, UntrackedAccepted
<1>. DEFINE known == KnownGitlinks(t, blind)
            dirty == DirtyGitlinks(Porcelain(t), DOMAIN known)
<1>6. /\ known = [m \in Gitlinks(t) |-> t.link[m].index] /\ DOMAIN known = Gitlinks(t)
      /\ S = Submodules(SubmoduleLines(t), dirty, known)
  BY <1>3 DEF KnownGitlinks, SubmodulesOf
<1>7. dirty = {}
  <2>1. ASSUME NEW m \in dirty
        PROVE  FALSE
    <3>1. m \in Gitlinks(t) /\ known[m] # 0
      BY <1>6, <2>1 DEF DirtyGitlinks, Gitlinks
    <3>. HIDE DEF known, dirty
    <3>2. \E s \in Submodules(SubmoduleLines(t), dirty, known) : s.name = m /\ s.state \in DirtyStates
      BY <2>1, <3>1, DirtyIsReported
    <3>. QED  BY <1>4, <1>6, <3>2
  <2>. QED  BY <2>1
<1>8. ASSUME NEW m \in Links
      PROVE  /\ Undisturbed(t.link[m])
             /\ t.link[m].index # 0 => t.link[m].head = t.link[m].index
  <2>1. CASE t.link[m].index # 0
    BY <1>6, <1>7, <2>1, ChangedIsDirty
  <2>2. CASE t.link[m].index = 0
    <3>1. t.link[m].checked = 0
      BY <1>5, <2>2, NestedIsRefused
    <3>2. t.link[m].local = 0 /\ ~t.link[m].conflict
      BY <2>2, <3>1 DEF IsTree
    <3>. QED  BY <2>2, <3>1, <3>2 DEF Undisturbed
  <2>. QED  BY <2>1, <2>2
<1>9. ASSUME NEW m \in Links, t.link[m].index # 0
      PROVE  t.link[m].checked = 0 <=> Uninitialized(t, m) \in S
  <2>1. S = {[name |-> l.name, commit |-> l.commit, state |-> States[l.prefix]] :
                l \in {l \in SubmoduleLines(t) : l.prefix \in DOMAIN States}}
    <3> DEFINE P == {[name |-> l.name, commit |-> l.commit, state |-> States[l.prefix]] :
                        l \in {l \in SubmoduleLines(t) : l.prefix \in DOMAIN States}}
               Upgraded(s) == IF s.name \in dirty /\ s.state \notin DirtyStates
                              THEN [s EXCEPT !.state = "changed"] ELSE s
               filled == {[name |-> n, commit |-> known[n], state |-> "changed"] :
                            n \in {n \in dirty : known[n] # 0 /\ n \notin {s.name : s \in P}}}
    <3>1. S = {Upgraded(s) : s \in P} \cup filled
      BY <1>6 DEF Submodules
    <3>. HIDE DEF P, dirty, known
    <3>2. filled = {} /\ \A s : Upgraded(s) = s
      BY <1>7
    <3>. HIDE DEF filled, Upgraded
    <3>3. S = P
      BY <3>1, <3>2
    <3>. QED  BY <3>3 DEF P
  <2>2. m \in Gitlinks(t)
    BY <1>9 DEF Gitlinks
  <2>3. ~t.link[m].conflict /\ t.link[m].checked \in {0, t.link[m].index}
    BY <1>8 DEF Undisturbed
  <2>4. /\ DOMAIN States = {" ", "-", "+", "~"}
        /\ States[" "] = "initialized" /\ States["-"] = "uninitialized"
    BY DEF States
  <2>5. CASE t.link[m].checked = 0
    <3>1. /\ Line(t, m).prefix = "-" /\ Line(t, m).name = m
          /\ Line(t, m).commit = t.link[m].index
      BY <1>9, <2>3, <2>5 DEF Line
    <3>2. Line(t, m) \in SubmoduleLines(t)
      BY <2>2, LinesOfGitlinks
    <3>. QED  BY <2>1, <2>4, <2>5, <3>1, <3>2 DEF Uninitialized
  <2>6. CASE t.link[m].checked # 0
    <3>1. Line(t, m).prefix = " " /\ Line(t, m).name = m
      BY <2>3, <2>6 DEF Line
    <3>2. ASSUME Uninitialized(t, m) \in S
          PROVE  FALSE
      <4>1. PICK l \in SubmoduleLines(t) : /\ l.prefix \in DOMAIN States
                                           /\ Uninitialized(t, m)
                                                = [name |-> l.name, commit |-> l.commit,
                                                   state |-> States[l.prefix]]
        BY <2>1, <3>2
      <4>2. l.name = m /\ States[l.prefix] = "uninitialized"
        BY <4>1 DEF Uninitialized
      <4>3. Line(t, m) \in SubmoduleLines(t)
        BY <2>2, LinesOfGitlinks
      <4>4. l = Line(t, m)
        BY <3>1, <4>2, <4>3, LinesOfGitlinks
      <4>. QED  BY <2>4, <3>1, <4>2, <4>4
    <3>. QED  BY <2>6, <3>2
  <2>. QED  BY <2>5, <2>6
<1>. QED  BY <1>1, <1>2, <1>3, <1>4, <1>8, <1>9

----------------------------------------------------------------------------
(* Complete evidence and the committed tree determine the source.           *)

(* The committed tree tells head.                                           *)
LEMMA SameHeads ==
    ASSUME NEW t, NEW u, CleanTreeDigest(t) = CleanTreeDigest(u)
    PROVE  t.head = u.head /\ \A m \in Links : t.link[m].head = u.link[m].head
<1>. DEFINE A == [m \in Links |-> t.link[m].head]
            B == [m \in Links |-> u.link[m].head]
<1>1. t.head = u.head /\ A = B
  <2>1. CleanTreeDigest(t) = <<t.head, A>> /\ CleanTreeDigest(u) = <<u.head, B>>
    BY DEF CleanTreeDigest
  <2>2. ASSUME NEW a, NEW b, NEW c, NEW d, <<a, b>> = <<c, d>>
        PROVE  a = c /\ b = d
    BY <2>2
  <2>. HIDE DEF A, B
  <2>3. <<t.head, A>> = <<u.head, B>>
    BY <2>1
  <2>. QED  BY <2>2, <2>3
<1>2. \A m \in Links : A[m] = B[m]
  BY <1>1
<1>. QED  BY <1>1, <1>2

(* Where the index differs from head, the staged diff tells it.             *)
LEMMA StagedTells ==
    ASSUME NEW t, NEW u, StagedDiff(t) \subseteq StagedDiff(u)
    PROVE  /\ \A f \in Files : t.head[f] # t.index[f] => u.index[f] = t.index[f]
           /\ \A m \in Links : t.link[m].head # t.link[m].index =>
                 u.link[m].index = t.link[m].index
<1>1. ASSUME NEW f \in Files, t.head[f] # t.index[f]
      PROVE  u.index[f] = t.index[f]
  <2>1. <<f, t.head[f], t.index[f]>> \in StagedDiff(u)
    BY <1>1 DEF StagedDiff
  <2>2. f \notin Links
    BY PathsAreDistinct
  <2>. QED  BY <2>1, <2>2 DEF StagedDiff
<1>2. ASSUME NEW m \in Links, t.link[m].head # t.link[m].index
      PROVE  u.link[m].index = t.link[m].index
  <2>1. <<m, t.link[m].head, t.link[m].index>> \in StagedDiff(u)
    BY <1>2 DEF StagedDiff
  <2>2. m \notin Files
    BY PathsAreDistinct
  <2>. QED  BY <2>1, <2>2 DEF StagedDiff
<1>. QED  BY <1>1, <1>2

(* Where a file differs from the index, the unstaged diff tells it.         *)
LEMMA UnstagedTells ==
    ASSUME NEW t, NEW u, UnstagedDiff(t) \subseteq UnstagedDiff(u), NEW f \in Files,
           t.index[f] \notin {0, t.work[f]}
    PROVE  u.work[f] = t.work[f]
<1>1. <<f, t.index[f], t.work[f]>> \in UnstagedDiff(u)
  BY DEF UnstagedDiff
<1>2. \/ \E g \in Files : <<f, t.index[f], t.work[f]>> = <<g, u.index[g], u.work[g]>>
      \/ \E m \in Links : <<f, t.index[f], t.work[f]>>
                            = <<m, u.link[m].index, u.link[m].checked, u.link[m].local # 0>>
  BY <1>1 DEF UnstagedDiff
<1>3. \A a, b, c, d, k, l, m : <<a, b, c>> # <<d, k, l, m>>
  OBVIOUS
<1>. QED  BY <1>2, <1>3

(* What is not tracked is told by the untracked entries.                    *)
LEMMA UntrackedTells ==
    ASSUME NEW t, NEW u, UntrackedOf(Porcelain(t), t) \subseteq UntrackedOf(Porcelain(u), u),
           \A x \in UntrackedOf(Porcelain(t), t) : x.digest # 0
    PROVE  /\ \A f \in Files : t.index[f] = 0 /\ t.work[f] # 0 => u.work[f] = t.work[f]
           /\ \A o \in Others : t.other[o].kind # "absent" =>
                 u.other[o].kind = t.other[o].kind /\ u.other[o].data = t.other[o].data
<1>1. ASSUME NEW e \in Porcelain(t), e.x = "?"
      PROVE  \E d : d.path = e.path /\ FileKindAndDigest(t, e) = FileKindAndDigest(u, d)
                    /\ FileKindAndDigest(t, e).digest # 0
  <2>1. FileKindAndDigest(t, e) \in UntrackedOf(Porcelain(t), t)
    BY <1>1 DEF UntrackedOf
  <2>2. PICK d : FileKindAndDigest(t, e) = FileKindAndDigest(u, d)
    BY <2>1 DEF UntrackedOf
  <2>3. d.path = e.path
    BY <2>2, FoundIsAccepted
  <2>. QED  BY <2>1, <2>2, <2>3
<1>2. ASSUME NEW f \in Files, t.index[f] = 0, t.work[f] # 0
      PROVE  u.work[f] = t.work[f]
  <2> DEFINE e == Entry(f, "?", "?", FALSE)
  <2>1. e \in FileEntries(t, f) /\ e.x = "?" /\ e.y = "?" /\ e.path = f
    BY <1>2, FileEntriesAre DEF Entry
  <2>. HIDE DEF e
  <2>2. e \in Porcelain(t)
    <3>1. <<e.x, e.y>> # Blank
      BY <2>1 DEF Blank
    <3>. QED  BY <2>1, <3>1, IsListed
  <2>3. PICK d : d.path = f /\ FileKindAndDigest(t, e) = FileKindAndDigest(u, d)
                 /\ FileKindAndDigest(t, e).digest # 0
    BY <1>1, <2>1, <2>2
  <2>4. \A r, s : s.path \in Files /\ FileKindAndDigest(r, s).digest # 0 =>
                     FileKindAndDigest(r, s).digest = r.work[s.path]
    BY DEF FileKindAndDigest
  <2>5. FileKindAndDigest(t, e).digest = t.work[f]
    BY <2>1, <2>3, <2>4
  <2>6. FileKindAndDigest(u, d).digest = u.work[f]
    BY <2>3, <2>4
  <2>. QED  BY <2>3, <2>5, <2>6
<1>3. ASSUME NEW o \in Others, t.other[o].kind # "absent"
      PROVE  u.other[o].kind = t.other[o].kind /\ u.other[o].data = t.other[o].data
  <2> DEFINE e == Entry(o, "?", "?", t.other[o].kind = "nested")
  <2>1. e \in Porcelain(t)
    BY <1>3, IsListed
  <2>2. e.x = "?" /\ e.path = o
    BY DEF Entry
  <2>. HIDE DEF e
  <2>3. PICK d : d.path = o /\ FileKindAndDigest(t, e) = FileKindAndDigest(u, d)
                 /\ FileKindAndDigest(t, e).digest # 0
    BY <1>1, <2>1, <2>2
  <2>4. o \notin Files /\ o \notin Links
    BY PathsAreDistinct
  <2>5. ASSUME NEW r, NEW s, s.path = o, FileKindAndDigest(r, s).digest # 0
        PROVE  /\ FileKindAndDigest(r, s).kind = r.other[o].kind
               /\ FileKindAndDigest(r, s).digest = r.other[o].data
    <3>1. CASE r.other[o].kind \in {"file", "symlink"}
      BY <2>4, <2>5, <3>1 DEF FileKindAndDigest
    <3>2. CASE r.other[o].kind \notin {"file", "symlink"}
      BY <2>4, <2>5, <3>2 DEF FileKindAndDigest
    <3>. QED  BY <3>1, <3>2
  <2>. QED  BY <2>2, <2>3, <2>5
<1>. QED  BY <1>2, <1>3

SameFields(t, u) ==
    /\ t.head = u.head /\ t.index = u.index /\ t.work = u.work
    /\ t.other = u.other /\ t.link = u.link

(* Complete evidence and the committed tree tell the whole source.          *)
LEMMA CompleteTells ==
    ASSUME NEW t, NEW u, IsTree(t), IsTree(u), CleanTreeDigest(t) = CleanTreeDigest(u),
           NEW b \in BOOLEAN, NEW f \in BOOLEAN, NEW c \in BOOLEAN, NEW g \in BOOLEAN,
           NEW e, e = Evidence(t, b, t, f), e = Evidence(u, c, u, g),
           EvidenceAccepted(e), e.completeness = "complete"
    PROVE  SameFields(t, u)
<1>1. /\ e.staged = StagedDiff(t) /\ e.unstaged = UnstagedDiff(t)
      /\ e.untracked = UntrackedOf(Porcelain(t), t)
      /\ \A x \in e.untracked : x.digest # 0
      /\ \A m \in Links : /\ Undisturbed(t.link[m])
                          /\ t.link[m].index # 0 => t.link[m].head = t.link[m].index
      /\ \A m \in Links : t.link[m].index # 0 =>
            (t.link[m].checked = 0 <=> Uninitialized(t, m) \in e.subs)
  BY CompleteTree
<1>2. /\ e.staged = StagedDiff(u) /\ e.unstaged = UnstagedDiff(u)
      /\ e.untracked = UntrackedOf(Porcelain(u), u)
      /\ \A m \in Links : /\ Undisturbed(u.link[m])
                          /\ u.link[m].index # 0 => u.link[m].head = u.link[m].index
      /\ \A m \in Links : u.link[m].index # 0 =>
            (u.link[m].checked = 0 <=> Uninitialized(u, m) \in e.subs)
  BY CompleteTree
<1>3. t.head = u.head /\ \A m \in Links : t.link[m].head = u.link[m].head
  BY SameHeads
<1>4. /\ \A x \in Files : t.index[x] = u.index[x]
      /\ \A m \in Links : t.link[m].index = u.link[m].index
  <2>1. /\ \A x \in Files : t.head[x] # t.index[x] => u.index[x] = t.index[x]
        /\ \A m \in Links : t.link[m].head # t.link[m].index =>
              u.link[m].index = t.link[m].index
    <3>1. StagedDiff(t) \subseteq StagedDiff(u)
      BY <1>1, <1>2
    <3>. QED  BY <3>1, StagedTells
  <2>2. /\ \A x \in Files : u.head[x] # u.index[x] => t.index[x] = u.index[x]
        /\ \A m \in Links : u.link[m].head # u.link[m].index =>
              t.link[m].index = u.link[m].index
    <3>1. StagedDiff(u) \subseteq StagedDiff(t)
      BY <1>1, <1>2
    <3>. QED  BY <3>1, StagedTells
  <2>. QED  BY <1>3, <2>1, <2>2
<1>5. /\ \A x \in Files : t.index[x] = 0 /\ t.work[x] # 0 => u.work[x] = t.work[x]
      /\ \A o \in Others : t.other[o].kind # "absent" =>
            u.other[o].kind = t.other[o].kind /\ u.other[o].data = t.other[o].data
  <2>1. /\ UntrackedOf(Porcelain(t), t) \subseteq UntrackedOf(Porcelain(u), u)
        /\ \A x \in UntrackedOf(Porcelain(t), t) : x.digest # 0
    BY <1>1, <1>2
  <2>. QED  BY <2>1, UntrackedTells
<1>6. /\ \A x \in Files : u.index[x] = 0 /\ u.work[x] # 0 => t.work[x] = u.work[x]
      /\ \A o \in Others : u.other[o].kind # "absent" =>
            t.other[o].kind = u.other[o].kind /\ t.other[o].data = u.other[o].data
  <2>1. /\ UntrackedOf(Porcelain(u), u) \subseteq UntrackedOf(Porcelain(t), t)
        /\ \A x \in UntrackedOf(Porcelain(u), u) : x.digest # 0
    BY <1>1, <1>2
  <2>. QED  BY <2>1, UntrackedTells
<1>7. ASSUME NEW x \in Files
      PROVE  t.work[x] = u.work[x]
  <2>1. CASE t.index[x] = 0
    BY <1>4, <1>5, <1>6, <2>1
  <2>2. CASE t.index[x] # 0 /\ t.index[x] # t.work[x]
    <3>1. UnstagedDiff(t) \subseteq UnstagedDiff(u) /\ t.index[x] \notin {0, t.work[x]}
      BY <1>1, <1>2, <2>2
    <3>. QED  BY <3>1, UnstagedTells
  <2>3. CASE u.index[x] # 0 /\ u.index[x] # u.work[x]
    <3>1. UnstagedDiff(u) \subseteq UnstagedDiff(t) /\ u.index[x] \notin {0, u.work[x]}
      BY <1>1, <1>2, <2>3
    <3>. QED  BY <3>1, UnstagedTells
  <2>. QED  BY <1>4, <2>1, <2>2, <2>3
<1>8. t.index = u.index /\ t.work = u.work
  BY <1>4, <1>7 DEF IsTree
<1>9. t.other = u.other
  <2>1. \A o \in Others : t.other[o].kind = u.other[o].kind /\ t.other[o].data = u.other[o].data
    <3>1. /\ \A o \in Others : t.other[o].kind = "absent" => t.other[o].data = 0
          /\ \A o \in Others : u.other[o].kind = "absent" => u.other[o].data = 0
      BY DEF IsTree
    <3>. QED  BY <1>5, <1>6, <3>1
  <2>2. /\ t.other = [o \in Others |-> [kind |-> t.other[o].kind, data |-> t.other[o].data]]
        /\ u.other = [o \in Others |-> [kind |-> u.other[o].kind, data |-> u.other[o].data]]
    BY DEF IsTree
  <2>3. [o \in Others |-> [kind |-> t.other[o].kind, data |-> t.other[o].data]]
          = [o \in Others |-> [kind |-> u.other[o].kind, data |-> u.other[o].data]]
    BY <2>1
  <2>. QED  BY <2>2, <2>3
<1>10. ASSUME NEW m \in Links
       PROVE  t.link[m].checked = u.link[m].checked
  <2>1. /\ t.link[m].checked \in {0, t.link[m].index}
        /\ u.link[m].checked \in {0, u.link[m].index}
    BY <1>1, <1>2 DEF Undisturbed
  <2>2. CASE t.link[m].index = 0
    BY <1>4, <2>1, <2>2
  <2>3. CASE t.link[m].index # 0
    <3>1. Uninitialized(t, m) = Uninitialized(u, m)
      BY <1>4 DEF Uninitialized
    <3>2. t.link[m].checked = 0 <=> u.link[m].checked = 0
      BY <1>1, <1>2, <1>4, <2>3, <3>1
    <3>. QED  BY <1>4, <2>1, <3>2
  <2>. QED  BY <2>2, <2>3
<1>11. t.link = u.link
  <2>1. ASSUME NEW m \in Links
        PROVE  t.link[m] = u.link[m]
    <3>1. /\ t.link[m].local = u.link[m].local
          /\ ~t.link[m].conflict /\ ~u.link[m].conflict
      BY <1>1, <1>2 DEF Undisturbed
    <3>2. /\ t.link[m] \in [head : Nat, index : Nat, checked : Nat, local : Nat, conflict : BOOLEAN]
          /\ u.link[m] \in [head : Nat, index : Nat, checked : Nat, local : Nat, conflict : BOOLEAN]
      BY DEF IsTree
    <3>. QED  BY <1>3, <1>4, <1>10, <3>1, <3>2
  <2>. QED  BY <2>1 DEF IsTree
<1>. QED  BY <1>3, <1>8, <1>9, <1>11 DEF SameFields

----------------------------------------------------------------------------
(* The evidence depends on nothing else.                                    *)

(* One source leaves one listing, one committed tree and one evidence.      *)
LEMMA SameSource ==
    ASSUME NEW t, NEW u, SameFields(t, u)
    PROVE  /\ Porcelain(t) = Porcelain(u) /\ CleanTreeDigest(t) = CleanTreeDigest(u)
           /\ \A b \in BOOLEAN : \A f \in BOOLEAN : Evidence(t, b, t, f) = Evidence(u, b, u, f)
<1>1. Porcelain(t) = Porcelain(u) /\ CleanTreeDigest(t) = CleanTreeDigest(u)
  <2>1. \A f : FileEntries(t, f) = FileEntries(u, f)
    BY DEF FileEntries, SameFields
  <2>2. \A m : LinkEntries(t, m) = LinkEntries(u, m)
    BY DEF LinkEntries, SameFields
  <2>3. CleanTreeDigest(t) = CleanTreeDigest(u)
    BY DEF CleanTreeDigest, SameFields
  <2>. QED  BY <2>1, <2>2, <2>3, Zenon DEF Porcelain, SameFields
<1>2. /\ StagedDiff(t) = StagedDiff(u) /\ UnstagedDiff(t) = UnstagedDiff(u)
      /\ Gitlinks(t) = Gitlinks(u)
  BY <1>1 DEF StagedDiff, UnstagedDiff, Gitlinks, SameFields
<1>3. SubmoduleLines(t) = SubmoduleLines(u)
  <2>1. \A m : Line(t, m) = Line(u, m)
    BY DEF Line, SameFields
  <2>2. /\ SubmoduleLines(t) = {Line(t, m) : m \in Gitlinks(t)}
        /\ SubmoduleLines(u) = {Line(u, m) : m \in Gitlinks(u)}
    BY LinesOfGitlinks
  <2>. QED  BY <1>2, <2>1, <2>2
<1>4. \A e : FileKindAndDigest(t, e) = FileKindAndDigest(u, e)
  BY DEF FileKindAndDigest, SameFields
<1>5. ASSUME NEW b \in BOOLEAN, NEW f \in BOOLEAN
      PROVE  Evidence(t, b, t, f) = Evidence(u, b, u, f)
  <2>1. KnownGitlinks(t, b) = KnownGitlinks(u, b)
    BY <1>2 DEF KnownGitlinks, SameFields
  <2>. QED  BY <1>1, <1>2, <1>3, <1>4, <2>1, Zenon DEF Evidence, BuildDirtyEvidence
<1>. QED  BY <1>1, <1>5

----------------------------------------------------------------------------
(* The digest of a complete snapshot tells the source.                      *)

(* A source, field by field.                                                *)
LEMMA SourceFields ==
    ASSUME NEW t, NEW u
    PROVE  SourceOf(t) = SourceOf(u) <=>
              /\ t.head = u.head /\ t.index = u.index /\ t.work = u.work /\ t.other = u.other
              /\ SourceOf(t).link = SourceOf(u).link
<1>. DEFINE L(v) == [m \in Links |-> IF IsDirty(v) THEN v.link[m]
                                     ELSE [v.link[m] EXCEPT !.checked = v.link[m].index]]
<1>1. \A v : SourceOf(v) = [head |-> v.head, index |-> v.index, work |-> v.work,
                            other |-> v.other, link |-> L(v)]
  BY DEF SourceOf
<1>. HIDE DEF L
<1>2. SourceOf(t).link = L(t) /\ SourceOf(u).link = L(u)
  BY <1>1
<1>3. SourceOf(t) = [head |-> t.head, index |-> t.index, work |-> t.work,
                     other |-> t.other, link |-> L(t)]
  BY <1>1
<1>4. SourceOf(u) = [head |-> u.head, index |-> u.index, work |-> u.work,
                     other |-> u.other, link |-> L(u)]
  BY <1>1
<1>. QED  BY <1>2, <1>3, <1>4

(* The submodules of a source.                                              *)
LEMMA SourceLinks ==
    ASSUME NEW t
    PROVE  /\ IsDirty(t) => SourceOf(t).link = [m \in Links |-> t.link[m]]
           /\ ~IsDirty(t) => SourceOf(t).link
                 = [m \in Links |-> [t.link[m] EXCEPT !.checked = t.link[m].index]]
BY DEF SourceOf

(* Dirty trees have one source exactly if they agree in everything but      *)
(* commits and remotes.                                                     *)
LEMMA DirtySources ==
    ASSUME NEW t, NEW u, IsTree(t), IsTree(u), IsDirty(t), IsDirty(u)
    PROVE  SourceOf(t) = SourceOf(u) <=> SameFields(t, u)
<1>1. SourceOf(t).link = [m \in Links |-> t.link[m]]
      /\ SourceOf(u).link = [m \in Links |-> u.link[m]]
  BY SourceLinks
<1>2. t.link = [m \in Links |-> t.link[m]] /\ u.link = [m \in Links |-> u.link[m]]
  BY DEF IsTree
<1>. QED  BY <1>1, <1>2, SourceFields DEF SameFields

(* A clean tree is its committed tree.                                      *)
LEMMA CleanIsCommitted ==
    ASSUME NEW t, IsTree(t), ~IsDirty(t)
    PROVE  /\ t.index = t.head /\ t.work = t.head
           /\ t.other = [o \in Others |-> [kind |-> "absent", data |-> 0]]
           /\ SourceOf(t).link =
                 [m \in Links |-> [head |-> t.link[m].head, index |-> t.link[m].head,
                                   checked |-> t.link[m].head, local |-> 0, conflict |-> FALSE]]
<1>1. CleanTree(t)
  BY CleanMeans
<1>2. t.index = t.head /\ t.work = t.head
  BY <1>1 DEF CleanTree, IsTree
<1>3. t.other = [o \in Others |-> [kind |-> "absent", data |-> 0]]
  <2>1. \A o \in Others : t.other[o].kind = "absent" /\ t.other[o].data = 0
    BY <1>1 DEF CleanTree, IsTree
  <2>2. t.other = [o \in Others |-> [kind |-> t.other[o].kind, data |-> t.other[o].data]]
    BY DEF IsTree
  <2>. QED  BY <2>1, <2>2
<1>4. ASSUME NEW m \in Links
      PROVE  [t.link[m] EXCEPT !.checked = t.link[m].index]
               = [head |-> t.link[m].head, index |-> t.link[m].head,
                  checked |-> t.link[m].head, local |-> 0, conflict |-> FALSE]
  <2>1. t.link[m] \in [head : Nat, index : Nat, checked : Nat, local : Nat, conflict : BOOLEAN]
    BY DEF IsTree
  <2>2. /\ t.link[m].head = t.link[m].index /\ t.link[m].local = 0 /\ ~t.link[m].conflict
    BY <1>1 DEF CleanTree, Undisturbed
  <2> DEFINE l == t.link[m]
  <2>3. /\ l \in [head : Nat, index : Nat, checked : Nat, local : Nat, conflict : BOOLEAN]
        /\ l.head = l.index /\ l.local = 0 /\ ~l.conflict
    BY <2>1, <2>2
  <2>. HIDE DEF l
  <2>4. l.conflict = FALSE
    BY <2>3
  <2>5. [l EXCEPT !.checked = l.index]
          = [head |-> l.head, index |-> l.index, checked |-> l.index, local |-> l.local,
             conflict |-> l.conflict]
    BY <2>3
  <2>6. [l EXCEPT !.checked = l.index]
          = [head |-> l.head, index |-> l.head, checked |-> l.head, local |-> 0,
             conflict |-> FALSE]
    BY <2>3, <2>4, <2>5
  <2>. QED  BY <2>6 DEF l
<1>5. SourceOf(t).link = [m \in Links |-> [t.link[m] EXCEPT !.checked = t.link[m].index]]
  BY SourceLinks
<1>. QED  BY <1>2, <1>3, <1>4, <1>5

(* Clean trees have one source exactly if what is committed is the same.    *)
LEMMA CleanSources ==
    ASSUME NEW t, NEW u, IsTree(t), IsTree(u), ~IsDirty(t), ~IsDirty(u)
    PROVE  SourceOf(t) = SourceOf(u) <=> CleanTreeDigest(t) = CleanTreeDigest(u)
<1>. DEFINE K(v) == [m \in Links |-> [head |-> v.link[m].head, index |-> v.link[m].head,
                                      checked |-> v.link[m].head, local |-> 0,
                                      conflict |-> FALSE]]
<1>1. SourceOf(t).link = K(t) /\ SourceOf(u).link = K(u)
  BY CleanIsCommitted
<1>2. /\ t.index = t.head /\ t.work = t.head /\ u.index = u.head /\ u.work = u.head
      /\ t.other = u.other
  BY CleanIsCommitted
<1>3. ASSUME SourceOf(t) = SourceOf(u)
      PROVE  CleanTreeDigest(t) = CleanTreeDigest(u)
  <2>1. t.head = u.head /\ K(t) = K(u)
    BY <1>1, <1>3, SourceFields
  <2>2. ASSUME NEW m \in Links
        PROVE  t.link[m].head = u.link[m].head
    <3>1. K(t)[m].head = K(u)[m].head
      BY <2>1
    <3>. QED  BY <3>1
  <2>. QED  BY <2>1, <2>2 DEF CleanTreeDigest
<1>4. ASSUME CleanTreeDigest(t) = CleanTreeDigest(u)
      PROVE  SourceOf(t) = SourceOf(u)
  <2>1. t.head = u.head /\ \A m \in Links : t.link[m].head = u.link[m].head
    BY <1>4, SameHeads
  <2>2. K(t) = K(u)
    BY <2>1
  <2>. QED  BY <1>1, <1>2, <2>1, <2>2, SourceFields
<1>. QED  BY <1>3, <1>4

(* A clean tree and a dirty one differ.                                     *)
LEMMA CleanIsNotDirty ==
    ASSUME NEW t, NEW u, IsTree(t), IsTree(u), ~IsDirty(t), IsDirty(u)
    PROVE  SourceOf(t) # SourceOf(u)
<1>1. SUFFICES ASSUME SourceOf(t) = SourceOf(u)
               PROVE  CleanTree(u)
  BY CleanMeans
<1>. DEFINE K == [m \in Links |-> [head |-> t.link[m].head, index |-> t.link[m].head,
                                   checked |-> t.link[m].head, local |-> 0, conflict |-> FALSE]]
<1>2. SourceOf(t).link = K /\ t.index = t.head /\ t.work = t.head
      /\ t.other = [o \in Others |-> [kind |-> "absent", data |-> 0]]
  BY CleanIsCommitted
<1>3. SourceOf(u).link = [m \in Links |-> u.link[m]]
  BY SourceLinks
<1>4. /\ u.head = t.head /\ u.index = t.head /\ u.work = t.head
      /\ u.other = [o \in Others |-> [kind |-> "absent", data |-> 0]]
      /\ [m \in Links |-> u.link[m]] = K
  BY <1>1, <1>2, <1>3, SourceFields
<1>5. ASSUME NEW m \in Links
      PROVE  /\ u.link[m].head = u.link[m].index /\ ~u.link[m].conflict
             /\ u.link[m].checked = u.link[m].index /\ u.link[m].local = 0
  <2>1. [n \in Links |-> u.link[n]][m] = K[m]
    BY <1>4
  <2>2. u.link[m] = [head |-> t.link[m].head, index |-> t.link[m].head,
                     checked |-> t.link[m].head, local |-> 0, conflict |-> FALSE]
    BY <2>1
  <2>. QED  BY <2>2
<1>. QED  BY <1>4, <1>5 DEF CleanTree, Undisturbed

(* Complete snapshots have one digest exactly if they are of one source.    *)
LEMMA SameDigest ==
    ASSUME NEW t, NEW u, IsTree(t), IsTree(u), NEW r, NEW s,
           IsSnapshotOf(r, t), IsSnapshotOf(s, u), Complete(r), Complete(s)
    PROVE  r.digest = s.digest <=> SourceOf(t) = SourceOf(u)
<1>. DEFINE C == CleanTreeDigest(t)
            D == CleanTreeDigest(u)
<1>1. r.digest = <<C, r.evidence>> /\ s.digest = <<D, s.evidence>>
  BY DEF IsSnapshotOf, EnvelopeDigest
<1>2. r.digest = s.digest <=> C = D /\ r.evidence = s.evidence
  <2>. HIDE DEF C, D
  <2>. DEFINE p == r.evidence
              q == s.evidence
  <2>1. r.digest = <<C, p>> /\ s.digest = <<D, q>>
    BY <1>1
  <2>. HIDE DEF p, q
  <2>2. r.digest = s.digest <=> C = D /\ p = q
    BY <2>1
  <2>. QED  BY <2>2 DEF p, q
<1>3. CASE ~IsDirty(t) /\ ~IsDirty(u)
  <2>1. r.evidence = <<>> /\ s.evidence = <<>>
    BY <1>3 DEF IsSnapshotOf
  <2>2. SourceOf(t) = SourceOf(u) <=> C = D
    BY <1>3, CleanSources
  <2>. QED  BY <1>2, <2>1, <2>2
<1>4. ASSUME NEW v, NEW x, IsTree(v), IsDirty(v), IsSnapshotOf(x, v), Complete(x)
      PROVE  \E b \in BOOLEAN : \E f \in BOOLEAN :
                /\ x.evidence = <<Evidence(v, b, v, f)>>
                /\ EvidenceAccepted(Evidence(v, b, v, f))
                /\ Evidence(v, b, v, f).completeness = "complete" /\ ~b /\ ~f
  <2>1. PICK b \in BOOLEAN : \E f \in BOOLEAN : /\ x.evidence = <<Evidence(v, b, v, f)>>
                                                /\ EvidenceAccepted(Evidence(v, b, v, f))
    BY <1>4 DEF IsSnapshotOf
  <2>2. PICK f \in BOOLEAN : /\ x.evidence = <<Evidence(v, b, v, f)>>
                             /\ EvidenceAccepted(Evidence(v, b, v, f))
    BY <2>1
  <2> DEFINE e == Evidence(v, b, v, f)
  <2>3. x.evidence = <<e>> /\ EvidenceAccepted(e)
    BY <2>2
  <2>4. e.completeness = "complete"
    <3>. HIDE DEF e
    <3>1. 1 \in DOMAIN x.evidence /\ x.evidence[1] = e
      BY <2>3
    <3>. QED  BY <1>4, <3>1 DEF Complete
  <2>5. ~b /\ ~f
    BY <1>4, <2>3, <2>4, CompleteTree
  <2>. QED  BY <2>3, <2>4, <2>5
<1>5. CASE IsDirty(t) /\ IsDirty(u)
  <2>1. PICK b \in BOOLEAN : \E f \in BOOLEAN :
                /\ r.evidence = <<Evidence(t, b, t, f)>>
                /\ EvidenceAccepted(Evidence(t, b, t, f))
                /\ Evidence(t, b, t, f).completeness = "complete" /\ ~b /\ ~f
    BY <1>4, <1>5
  <2>2. /\ r.evidence = <<Evidence(t, FALSE, t, FALSE)>>
        /\ EvidenceAccepted(Evidence(t, FALSE, t, FALSE))
        /\ Evidence(t, FALSE, t, FALSE).completeness = "complete"
    BY <2>1
  <2>3. PICK c \in BOOLEAN : \E g \in BOOLEAN :
                /\ s.evidence = <<Evidence(u, c, u, g)>>
                /\ EvidenceAccepted(Evidence(u, c, u, g))
                /\ Evidence(u, c, u, g).completeness = "complete" /\ ~c /\ ~g
    BY <1>4, <1>5
  <2>4. /\ s.evidence = <<Evidence(u, FALSE, u, FALSE)>>
        /\ EvidenceAccepted(Evidence(u, FALSE, u, FALSE))
        /\ Evidence(u, FALSE, u, FALSE).completeness = "complete"
    BY <2>3
  <2> DEFINE e == Evidence(t, FALSE, t, FALSE)
             h == Evidence(u, FALSE, u, FALSE)
  <2>5. r.evidence = <<e>> /\ s.evidence = <<h>>
    BY <2>2, <2>4
  <2>6. r.evidence = s.evidence <=> e = h
    <3>. HIDE DEF e, h
    <3>. QED  BY <2>5
  <2>7. C = D /\ e = h => SameFields(t, u)
    BY <2>2, <2>4, CompleteTells
  <2>8. SameFields(t, u) => C = D /\ e = h
    BY SameSource
  <2>9. SourceOf(t) = SourceOf(u) <=> SameFields(t, u)
    BY <1>5, DirtySources
  <2>. QED  BY <1>2, <2>6, <2>7, <2>8, <2>9
<1>6. ASSUME NEW v, NEW x, IsDirty(v), IsSnapshotOf(x, v)
      PROVE  x.evidence # <<>>
  <2>1. \E e : x.evidence = <<e>>
    BY <1>6 DEF IsSnapshotOf
  <2>. QED  BY <2>1
<1>7. CASE ~IsDirty(t) /\ IsDirty(u)
  <2>1. r.evidence = <<>> /\ s.evidence # <<>>
    BY <1>6, <1>7 DEF IsSnapshotOf
  <2>2. SourceOf(t) # SourceOf(u)
    BY <1>7, CleanIsNotDirty
  <2>. QED  BY <1>2, <2>1, <2>2
<1>8. CASE IsDirty(t) /\ ~IsDirty(u)
  <2>1. s.evidence = <<>> /\ r.evidence # <<>>
    BY <1>6, <1>8 DEF IsSnapshotOf
  <2>2. SourceOf(t) # SourceOf(u)
    BY <1>8, CleanIsNotDirty
  <2>. QED  BY <1>2, <2>1, <2>2
<1>. QED  BY <1>3, <1>5, <1>7, <1>8

----------------------------------------------------------------------------
(* Two calls whose captures no edit has disturbed.                          *)
THEOREM Fingerprinted == Spec => []SpecificationIsFingerprinted
<1>1. ASSUME WInv, NEW p \in Procs, Settled(p), Complete(call[p].snap)
      PROVE  LET c == call[p] IN
             /\ IsSnapshotOf(c.snap, c.seen) /\ IsTree(c.seen) /\ IsIdentityOf(c)
             /\ c.set.extra \in Seq(ElementsOf(c.set.extra))
             /\ c.set.tokens \in Seq(ElementsOf(c.set.tokens))
             /\ OverridesAccepted(c.set.tokens)
  <2>1. Witnessed(call[p], tree) /\ "ident" \in DOMAIN call[p] /\ call[p].still
    BY <1>1 DEF WInv, Settled
  <2>2. call[p].step \in Identified /\ call[p].step \in Captured
    BY <2>1, StepsDiffer DEF Witnessed
  <2>3. call[p].seen \in Trees /\ IsSnapshotOf(call[p].snap, call[p].seen) /\ IsIdentityOf(call[p])
    BY <2>1, <2>2 DEF Witnessed
  <2>4. call[p].set \in Settings(call[p].seen) /\ Resolves(call[p].set.file, call[p].set.tokens)
    BY <2>3 DEF IsIdentityOf
  <2>. QED  BY <2>3, <2>4, TreesAndArguments DEF Resolves
<1>2. ASSUME WInv, NEW p \in Procs, NEW q \in Procs,
             Settled(p), Complete(call[p].snap), Settled(q), Complete(call[q].snap)
      PROVE  LET c == call[p]
                 d == call[q]
                 same == /\ SourceOf(c.seen) = SourceOf(d.seen)
                         /\ ElementsOf(c.set.extra) = ElementsOf(d.set.extra)
             IN  /\ c.set.file = d.set.file /\ same
                       /\ ElementsOf(c.set.tokens) = ElementsOf(d.set.tokens)
                     => c.ident.fp = d.ident.fp
                 /\ c.ident.fp = d.ident.fp =>
                       /\ same
                       /\ CanonicalBytes(c.set.file, c.set.tokens)
                            = CanonicalBytes(d.set.file, d.set.tokens)
  <2> DEFINE c == call[p]
             d == call[q]
  <2>1. /\ IsSnapshotOf(c.snap, c.seen) /\ IsTree(c.seen) /\ IsIdentityOf(c)
        /\ c.set.extra \in Seq(ElementsOf(c.set.extra))
        /\ c.set.tokens \in Seq(ElementsOf(c.set.tokens))
        /\ OverridesAccepted(c.set.tokens)
    BY <1>1, <1>2
  <2>2. /\ IsSnapshotOf(d.snap, d.seen) /\ IsTree(d.seen) /\ IsIdentityOf(d)
        /\ d.set.extra \in Seq(ElementsOf(d.set.extra))
        /\ d.set.tokens \in Seq(ElementsOf(d.set.tokens))
        /\ OverridesAccepted(d.set.tokens)
    BY <1>1, <1>2
  <2>3. Complete(c.snap) /\ Complete(d.snap)
    BY <1>2
  <2>. HIDE DEF c, d
  <2>4. c.snap.digest = d.snap.digest <=> SourceOf(c.seen) = SourceOf(d.seen)
    BY <2>1, <2>2, <2>3, SameDigest
  <2>5. c.ident.fp = d.ident.fp <=>
           /\ CanonicalBytes(c.set.file, c.set.tokens) = CanonicalBytes(d.set.file, d.set.tokens)
           /\ c.snap.digest = d.snap.digest
           /\ ElementsOf(c.set.extra) = ElementsOf(d.set.extra)
    BY <2>1, <2>2, SameFingerprint
  <2>6. c.set.file = d.set.file /\ ElementsOf(c.set.tokens) = ElementsOf(d.set.tokens)
           => CanonicalBytes(c.set.file, c.set.tokens) = CanonicalBytes(d.set.file, d.set.tokens)
    <3>1. ElementsOf(c.set.tokens) = ElementsOf(d.set.tokens)
             => CanonicalBytes(c.set.file, c.set.tokens) = CanonicalBytes(c.set.file, d.set.tokens)
      BY <2>1, <2>2, SameTokens
    <3>. QED  BY <3>1
  <2>7. /\ c.set.file = d.set.file
              /\ SourceOf(c.seen) = SourceOf(d.seen)
              /\ ElementsOf(c.set.extra) = ElementsOf(d.set.extra)
              /\ ElementsOf(c.set.tokens) = ElementsOf(d.set.tokens)
            => c.ident.fp = d.ident.fp
        /\ c.ident.fp = d.ident.fp =>
              /\ SourceOf(c.seen) = SourceOf(d.seen)
              /\ ElementsOf(c.set.extra) = ElementsOf(d.set.extra)
              /\ CanonicalBytes(c.set.file, c.set.tokens)
                   = CanonicalBytes(d.set.file, d.set.tokens)
    BY <2>4, <2>5, <2>6
  <2>. QED  BY <2>7 DEF c, d
<1>3. WInv => SpecificationIsFingerprinted
  BY <1>2 DEF SpecificationIsFingerprinted
<1>. QED  BY <1>3, WInvHolds, PTL
=============================================================================
