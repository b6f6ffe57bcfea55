--------------------------- MODULE SmokeGateProofs ---------------------------
(***************************************************************************)
(* Proofs about SmokeGate, for any configurations, window and bounds.      *)
(*                                                                         *)
(* The first part is about the store: a pending seal keeps out what its    *)
(* manifest does not account for (Exclusion), and a sealed attempt is      *)
(* accounted for (Coverage).  An attempt that is neither may have several  *)
(* manifests: finalize_attempt publishes without a seal.                   *)
(*                                                                         *)
(* The second part is about the training: Complete says what every place   *)
(* of the three scripts has come to, and that a checkpoint after n updates *)
(* is the state that n updates make of a fresh one, in whichever attempts  *)
(* they were made.  From it follow the equivalence of the resumed attempt  *)
(* with the uninterrupted one and what a manifest, a lineage and a verdict *)
(* promise.                                                                *)
(***************************************************************************)
EXTENDS SmokeGate, SequenceTheorems, FiniteSetTheorems, WellFoundedInduction, TLAPS

ManifestId(i) == Id("experiment_manifest", i)

(* The domains, and sequences that are sequences of what they hold.         *)
Shape ==
    /\ cur \in Attempts /\ sealed \subseteq Attempts
    /\ {"stage", "a", "id", "by", "seal"} \subseteq DOMAIN fin
    /\ DOMAIN reg = Attempts /\ DOMAIN made = Attempts
    /\ DOMAIN bundles = Attempts /\ DOMAIN sealing = Attempts
    /\ \A a \in Attempts :
          reg[a] \in Seq(ToSet(reg[a])) /\ made[a] \in Seq(ToSet(made[a]))

(* The manifests in the registry and on the disk were generated.            *)
Known(a) ==
    \A x \in Registered(a) \cup bundles[a] :
        x.kind = "experiment_manifest" => x \in {ManifestId(i) : i \in DOMAIN made[a]}

(* A pending seal is for a manifest that accounts for the registry, which   *)
(* holds no other manifest, and nothing after that one.                     *)
Bound(a) ==
    sealing[a] # <<>> =>
        \E i \in DOMAIN made[a] :
            /\ sealing[a] = <<ManifestId(i)>> /\ Manifests(a) \subseteq {ManifestId(i)}
            /\ CoverageHolds(a, made[a][i])
            /\ ManifestId(i) \in Registered(a) => Last(reg[a]) = ManifestId(i)

Ended(a) ==
    a \in sealed =>
        \E i \in DOMAIN made[a] :
            /\ Manifests(a) = {ManifestId(i)} /\ Last(reg[a]) = ManifestId(i)
            /\ CoverageHolds(a, made[a][i])

Sound(a) == Known(a) /\ Bound(a) /\ Ended(a)

(* What the finalization under way has established at each stage.           *)
Course ==
    /\ fin.stage # "none" => fin.a \in Attempts /\ fin.id \in DOMAIN made[fin.a]
    /\ fin.stage \notin {"none", "verify"} => CoverageHolds(fin.a, made[fin.a][fin.id])
    /\ fin.stage \in {"publish", "rename", "append"} => Manifests(fin.a) = {}
    /\ fin.stage \in {"rename", "append"} =>
          fin.a \notin sealed /\ (sealing[fin.a] = <<>> \/ sealing[fin.a] = <<Manifest>>)
    /\ fin.stage = "complete" => Manifests(fin.a) = {Manifest}
    /\ fin.stage \in {"mark", "unmark"} => Manifest \in Registered(fin.a)
    /\ fin.stage = "unmark" => fin.a \in sealed

Inv == Shape /\ (\A a \in Attempts : Sound(a)) /\ Course

----------------------------------------------------------------------------
(* Sequences.                                                               *)

LEMMA Appending ==
    ASSUME NEW s, s \in Seq(ToSet(s)), NEW x
    PROVE  /\ Append(s, x) \in Seq(ToSet(Append(s, x)))
           /\ ToSet(Append(s, x)) = ToSet(s) \cup {x}
           /\ Last(Append(s, x)) = x
           /\ DOMAIN s \subseteq DOMAIN Append(s, x)
           /\ \A i \in DOMAIN s : Append(s, x)[i] = s[i]
<1> DEFINE T == ToSet(s) \cup {x}
<1>1. s \in Seq(T)
  BY SeqMonotonic
<1>2. /\ Append(s, x) \in Seq(T) /\ Len(Append(s, x)) = Len(s) + 1
      /\ \A i \in 1 .. Len(s) : Append(s, x)[i] = s[i]
      /\ Append(s, x)[Len(s) + 1] = x
  BY <1>1, AppendProperties
<1>3. /\ DOMAIN s = 1 .. Len(s) /\ Len(s) \in Nat
      /\ DOMAIN Append(s, x) = 1 .. Len(s) + 1
  BY <1>1, <1>2, LenProperties
<1>4. ToSet(Append(s, x)) = T
  <2>1. ASSUME NEW y \in ToSet(Append(s, x)) PROVE y \in T
    BY <1>2, <1>3 DEF ToSet
  <2>2. ASSUME NEW y \in T PROVE y \in ToSet(Append(s, x))
    <3>1. CASE y = x
      BY <3>1, <1>2, <1>3 DEF ToSet
    <3>2. CASE y \in ToSet(s)
      <4>1. PICK i \in 1 .. Len(s) : y = s[i]
        BY <3>2, <1>3 DEF ToSet
      <4>. QED  BY <4>1, <1>2, <1>3 DEF ToSet
    <3>. QED  BY <3>1, <3>2
  <2>. QED  BY <2>1, <2>2
<1>. QED  BY <1>2, <1>3, <1>4 DEF Last

(* Equal artifacts are manifests of equal numbers.                          *)
LEMMA Injective ==
    ASSUME NEW i, NEW j
    PROVE  /\ ManifestId(i) = ManifestId(j) => i = j
           /\ <<ManifestId(i)>> = <<ManifestId(j)>> => i = j
           /\ ManifestId(i).kind = "experiment_manifest" /\ ManifestId(i).n = i
           /\ <<ManifestId(i)>> # <<>>
  BY DEF ManifestId, Id

LEMMA Singled ==
    ASSUME NEW x, NEW y
    PROVE  <<x>> # <<>> /\ (<<x>> = <<y>> => x = y)
  OBVIOUS

LEMMA FinManifest == Manifest = ManifestId(fin.id)
  BY DEF Manifest, ManifestId

----------------------------------------------------------------------------
(* What keeps one attempt sound: nothing happens to it but that manifests   *)
(* are generated for it and content is lost.                                *)

LEMMA AttemptKept ==
    ASSUME NEW a, Sound(a), reg'[a] = reg[a], sealing'[a] = sealing[a],
           a \in sealed' <=> a \in sealed, bundles'[a] \subseteq bundles[a],
           DOMAIN made[a] \subseteq DOMAIN made'[a],
           \A i \in DOMAIN made[a] : made'[a][i] = made[a][i]
    PROVE  Sound(a)'
<1>1. Registered(a)' = Registered(a) /\ Manifests(a)' = Manifests(a)
  BY DEF Registered, Manifests
<1>3. Known(a)'
  BY <1>1 DEF Sound, Known
<1>4. Bound(a)'
  BY <1>1 DEF Sound, Bound, CoverageHolds
<1>5. Ended(a)'
  BY <1>1 DEF Sound, Ended, CoverageHolds
<1>. QED  BY <1>3, <1>4, <1>5 DEF Sound

LEMMA NoCourse ==
    ASSUME fin' = NoFin
    PROVE  Course' /\ {"stage", "a", "id", "by", "seal"} \subseteq DOMAIN fin'
  BY DEF NoFin, Course


----------------------------------------------------------------------------
(* Steps that leave the registries, the manifests and the seals alone.      *)
Quiet ==
    /\ reg' = reg /\ made' = made /\ sealing' = sealing /\ sealed' = sealed
    /\ DOMAIN bundles' = DOMAIN bundles
    /\ \A a \in Attempts : bundles'[a] \subseteq bundles[a]
    /\ cur' \in Attempts
    /\ fin' \in {fin, NoFin}

LEMMA QuietKeeps ==
    ASSUME Inv, Quiet
    PROVE  Inv'
<1>1. \A a \in Attempts : Sound(a)'
  BY AttemptKept DEF Inv, Quiet, Sound
<1>2. Course' /\ {"stage", "a", "id", "by", "seal"} \subseteq DOMAIN fin'
  <2>1. CASE fin' = NoFin
    BY <2>1, NoCourse
  <2>2. CASE fin' = fin
    <3>1. Manifest' = Manifest
      BY <2>2 DEF Manifest
    <3>2. \A a : Registered(a)' = Registered(a) /\ Manifests(a)' = Manifests(a)
      BY DEF Quiet, Registered, Manifests
    <3>. QED  BY <2>2, <3>1, <3>2 DEF Inv, Shape, Course, CoverageHolds, Quiet
  <2>. QED  BY <2>1, <2>2 DEF Quiet
<1>3. Shape'
  BY <1>2 DEF Inv, Shape, Quiet
<1>. QED  BY <1>1, <1>2, <1>3 DEF Inv

LEMMA QuietSteps ==
    ASSUME Inv,
           \/ Build \/ Prepare \/ OpenTelemetry \/ NewRuntime \/ Validate \/ Train
           \/ CloseTelemetry \/ Extract \/ Load \/ Restore \/ ForceMismatch \/ Compare
           \/ Interrupt \/ FinCheck \/ FinInterrupted
           \/ \E a \in Attempts : LoseContent(a)
    PROVE  Quiet
<1>. USE DEF store, Proceed, Raise
<1>1. cur \in Attempts /\ DOMAIN bundles = Attempts
  BY DEF Inv, Shape
<1>2. CASE Build
  BY <1>1, <1>2 DEF Build, Quiet
<1>3. CASE Prepare
  BY <1>1, <1>3 DEF Prepare, Quiet
<1>4. CASE OpenTelemetry
  BY <1>1, <1>4 DEF OpenTelemetry, Quiet
<1>5. CASE NewRuntime
  BY <1>1, <1>5 DEF NewRuntime, Quiet
<1>6. CASE Validate
  BY <1>1, <1>6 DEF Validate, Quiet
<1>7. CASE Train
  BY <1>1, <1>7 DEF Train, Quiet
<1>8. CASE CloseTelemetry
  BY <1>1, <1>8 DEF CloseTelemetry, Quiet
<1>9. CASE Extract
  BY <1>1, <1>9 DEF Extract, Quiet
<1>10. CASE Load
  BY <1>1, <1>10 DEF Load, Quiet
<1>11. CASE Restore
  BY <1>1, <1>11 DEF Restore, Quiet
<1>12. CASE ForceMismatch
  BY <1>1, <1>12 DEF ForceMismatch, Quiet
<1>13. CASE Compare
  BY <1>1, <1>13 DEF Compare, Quiet
<1>14. CASE Interrupt
  BY <1>1, <1>14 DEF Interrupt, Quiet
<1>15. CASE FinCheck
  <2>1. Successor[cur] \in Attempts
    BY <1>1 DEF Attempts, Successor
  <2>. QED  BY <1>1, <1>15, <2>1 DEF FinCheck, GiveUp, Quiet
<1>16. CASE FinInterrupted
  BY <1>1, <1>16 DEF FinInterrupted, GiveUp, Quiet
<1>17. CASE \E a \in Attempts : LoseContent(a)
  BY <1>1, <1>17 DEF LoseContent, Quiet
<1>. QED  BY <1>2, <1>3, <1>4, <1>5, <1>6, <1>7, <1>8, <1>9, <1>10, <1>11, <1>12,
             <1>13, <1>14, <1>15, <1>16, <1>17

----------------------------------------------------------------------------
(* Steps that put an artifact into an open attempt: no manifest, or one that *)
(* is on the disk.                                                          *)
Puts(c, x) ==
    /\ x.kind # "experiment_manifest" \/ x \in bundles[c]
    /\ ~Closed(c)
    /\ reg' \in {reg, Indexed(c, x)}
    /\ DOMAIN bundles' = DOMAIN bundles
    /\ \A a \in Attempts :
          bundles'[a] \subseteq bundles[a] \cup (IF a = c THEN {x} ELSE {})
    /\ made' = made /\ sealing' = sealing /\ sealed' = sealed
    /\ cur' = cur /\ fin = NoFin /\ fin' = NoFin

LEMMA Indexing ==
    ASSUME Shape, NEW c \in Attempts, NEW x, reg' \in {reg, Indexed(c, x)}
    PROVE  /\ DOMAIN reg' = Attempts
           /\ \A a \in Attempts : reg'[a] \in Seq(ToSet(reg'[a]))
           /\ \A a \in Attempts \ {c} : reg'[a] = reg[a]
           /\ Registered(c)' = Registered(c) \/ Registered(c)' = Registered(c) \cup {x}
           /\ reg' = Indexed(c, x) => x \in Registered(c)'
           /\ reg' = Indexed(c, x) /\ x \notin Registered(c) => Last(reg'[c]) = x
<1>1. CASE reg' = reg /\ (reg' = Indexed(c, x) => x \in Registered(c))
  BY <1>1 DEF Shape, Registered
<1>2. CASE x \notin Registered(c) /\ reg' = [reg EXCEPT ![c] = Append(@, x)]
  <2>1. reg'[c] = Append(reg[c], x)
    BY <1>2 DEF Shape
  <2>2. /\ reg'[c] \in Seq(ToSet(reg'[c])) /\ ToSet(reg'[c]) = ToSet(reg[c]) \cup {x}
        /\ Last(reg'[c]) = x
    BY <2>1, Appending DEF Shape
  <2>. QED  BY <1>2, <2>2 DEF Shape, Registered
<1>3. CASE reg' = reg /\ reg' = Indexed(c, x) /\ x \notin Registered(c)
  <2>1. reg[c] = Append(reg[c], x)
    BY <1>3 DEF Indexed, Shape
  <2>2. x \in ToSet(reg[c])
    BY <2>1, Appending DEF Shape
  <2>. QED  BY <1>3, <2>2 DEF Registered
<1>. QED  BY <1>1, <1>2, <1>3 DEF Indexed

LEMMA PutKeeps ==
    ASSUME Inv, NEW c \in Attempts, NEW x, Puts(c, x)
    PROVE  Inv'
<1>0. /\ DOMAIN reg' = Attempts /\ \A a \in Attempts : reg'[a] \in Seq(ToSet(reg'[a]))
      /\ \A a \in Attempts \ {c} : reg'[a] = reg[a]
      /\ Registered(c)' = Registered(c) \/ Registered(c)' = Registered(c) \cup {x}
  <2>1. Shape /\ reg' \in {reg, Indexed(c, x)}
    BY DEF Inv, Puts
  <2>. QED  BY <2>1, Indexing
<1>. USE DEF Inv
<1>1. ASSUME NEW a \in Attempts \ {c} PROVE Sound(a)'
  <2>1. reg'[a] = reg[a] /\ bundles'[a] \subseteq bundles[a]
    BY <1>0 DEF Puts
  <2>. QED  BY <2>1, AttemptKept DEF Puts
<1>2. Sound(c)'
  <2>1. Registered(c)' \cup bundles'[c] \subseteq Registered(c) \cup bundles[c] \cup {x}
    BY <1>0 DEF Puts
  <2>2. Known(c)'
    BY <2>1 DEF Sound, Known, Puts
  <2>3. Bound(c)' /\ Ended(c)'
    BY DEF Bound, Ended, Puts, Closed
  <2>. QED  BY <2>2, <2>3 DEF Sound
<1>3. Course' /\ {"stage", "a", "id", "by", "seal"} \subseteq DOMAIN fin'
  BY NoCourse DEF Puts
<1>4. Shape'
  BY <1>0, <1>3 DEF Shape, Puts
<1>. QED  BY <1>1, <1>2, <1>3, <1>4

LEMMA PublishPuts ==
    ASSUME Inv, NEW x, x.kind # "experiment_manifest", Publish(x), fin = NoFin,
           made' = made, sealing' = sealing, sealed' = sealed
    PROVE  Puts(cur, x) \/ Quiet
<1>1. cur \in Attempts /\ DOMAIN bundles = Attempts
  BY DEF Inv, Shape
<1>2. CASE Closed(cur)
  BY <1>1, <1>2 DEF Publish, Raise, Quiet
<1>3. CASE ~Closed(cur)
  BY <1>1, <1>3 DEF Publish, Raise, Proceed, Puts
<1>. QED  BY <1>2, <1>3

LEMMA PutSteps ==
    ASSUME Inv,
           \/ PublishRecord \/ Save \/ PublishSample \/ RegisterTelemetry \/ PublishReport
           \/ \E a \in Attempts : Reconcile(a)
    PROVE  Inv'
<1>1. ASSUME NEW kind, NEW n, kind # "experiment_manifest", Publish(Id(kind, n)), fin = NoFin,
             made' = made, sealing' = sealing, sealed' = sealed
      PROVE  Inv'
  <2>1. Id(kind, n).kind # "experiment_manifest"
    BY <1>1 DEF Id
  <2>2. cur \in Attempts
    BY DEF Inv, Shape
  <2>. QED  BY <1>1, <2>1, <2>2, PublishPuts, PutKeeps, QuietKeeps
<1>2. CASE PublishRecord
  BY <1>1, <1>2 DEF PublishRecord, At
<1>3. CASE Save
  BY <1>1, <1>3 DEF Save, At
<1>4. CASE PublishSample
  BY <1>1, <1>4 DEF PublishSample, At
<1>5. CASE RegisterTelemetry
  BY <1>1, <1>5 DEF RegisterTelemetry, At
<1>6. CASE PublishReport
  BY <1>1, <1>6 DEF PublishReport, At
<1>7. ASSUME NEW a \in Attempts, Reconcile(a) PROVE Inv'
  <2>1. PICK x \in bundles[a] \ Registered(a) : reg' = Indexed(a, x)
    BY <1>7 DEF Reconcile
  <2>2. Puts(a, x)
    BY <1>7, <2>1 DEF Reconcile, Puts
  <2>. QED  BY <2>2, PutKeeps
<1>. QED  BY <1>2, <1>3, <1>4, <1>5, <1>6, <1>7

----------------------------------------------------------------------------
(* A manifest is generated.                                                 *)

LEMMA GenerateKeeps ==
    ASSUME Inv, NEW a \in Attempts, NEW m, NEW by, NEW seal, Generate(a, m, by, seal),
           UNCHANGED <<cur, reg, bundles, sealing, sealed>>
    PROVE  Inv'
<1>. USE DEF Inv
<1>1. /\ DOMAIN made' = Attempts /\ \A b \in Attempts \ {a} : made'[b] = made[b]
      /\ made'[a] \in Seq(ToSet(made'[a])) /\ m \in ToSet(made'[a])
      /\ DOMAIN made[a] \subseteq DOMAIN made'[a]
      /\ \A i \in DOMAIN made[a] : made'[a][i] = made[a][i]
  <2>1. CASE m \in ToSet(made[a])
    BY <2>1 DEF Generate, Shape
  <2>2. CASE m \notin ToSet(made[a])
    <3>1. made' = [made EXCEPT ![a] = Append(@, m)]
      BY <2>2 DEF Generate
    <3>2. made'[a] = Append(made[a], m)
      BY <3>1 DEF Shape
    <3>. QED  BY <3>1, <3>2, Appending DEF Shape
  <2>. QED  BY <2>1, <2>2
<1>2. /\ fin'.stage = "verify" /\ fin'.a = a /\ fin'.id \in DOMAIN made'[a]
      /\ {"stage", "a", "id", "by", "seal"} \subseteq DOMAIN fin'
  <2>1. \E i \in DOMAIN made'[a] : made'[a][i] = m
    BY <1>1 DEF ToSet
  <2>. QED  BY <2>1 DEF Generate
<1>3. ASSUME NEW b \in Attempts PROVE Sound(b)'
  BY <1>1, AttemptKept
<1>4. Shape'
  BY <1>1, <1>2 DEF Shape
<1>5. Course'
  BY <1>2 DEF Course
<1>. QED  BY <1>3, <1>4, <1>5

LEMMA GenerateSteps ==
    ASSUME Inv, FinalizeManifest \/ \E a \in Attempts : Refinalize(a)
    PROVE  Inv'
<1>1. CASE FinalizeManifest
  <2>1. cur \in Attempts
    BY DEF Inv, Shape
  <2>. QED  BY <1>1, <2>1, GenerateKeeps DEF FinalizeManifest
<1>2. CASE \E a \in Attempts : Refinalize(a)
  BY <1>2, GenerateKeeps DEF Refinalize
<1>. QED  BY <1>1, <1>2

----------------------------------------------------------------------------
(* The steps of a finalization.                                             *)

(* A finalization goes on for the same attempt and the same manifest.       *)
LEMMA Continues ==
    ASSUME Inv, NEW stage, Continue(stage)
    PROVE  /\ fin'.stage = stage /\ fin'.a = fin.a /\ fin'.id = fin.id
           /\ fin'.seal = fin.seal /\ Manifest' = Manifest /\ cur' = cur
           /\ {"stage", "a", "id", "by", "seal"} \subseteq DOMAIN fin'
  BY DEF Continue, Inv, Shape, Manifest

(* A call that raises changes nothing of what the invariant speaks of.      *)
LEMMA GivingUp ==
    ASSUME Inv, GiveUp, UNCHANGED <<reg, made, bundles, sealing, sealed>>
    PROVE  Inv'
<1>1. Quiet
  BY DEF GiveUp, Quiet, Inv, Shape
<1>. QED  BY <1>1, QuietKeeps

(* A step that only moves the finalization on.                              *)
LEMMA MovingOn ==
    ASSUME Inv, NEW stage, Continue(stage), UNCHANGED <<reg, made, bundles, sealing, sealed>>
    PROVE  /\ Shape' /\ \A a \in Attempts : Sound(a)'
           /\ \A a : Registered(a)' = Registered(a) /\ Manifests(a)' = Manifests(a)
<1>1. Shape'
  BY Continues DEF Inv, Shape
<1>2. ASSUME NEW a \in Attempts PROVE Sound(a)'
  BY AttemptKept DEF Inv
<1>. QED  BY <1>1, <1>2 DEF Registered, Manifests

LEMMA Underway ==
    ASSUME Inv, NEW stage, stage # "none", Finalizing(stage)
    PROVE  /\ fin.a \in Attempts /\ fin.id \in DOMAIN made[fin.a] /\ fin.stage = stage
           /\ DOMAIN reg = Attempts /\ DOMAIN bundles = Attempts /\ DOMAIN sealing = Attempts
           /\ Sound(fin.a)
           /\ Manifest = ManifestId(fin.id)
  BY FinManifest DEF Finalizing, Inv, Course, Shape

LEMMA VerifyKeeps ==
    ASSUME Inv, FinVerify
    PROVE  Inv'
<1>. USE DEF store
<1>1. /\ fin.stage = "verify" /\ fin.a \in Attempts /\ fin.id \in DOMAIN made[fin.a]
  BY Underway DEF FinVerify
<1>2. UNCHANGED <<reg, made, bundles, sealing, sealed>>
  BY DEF FinVerify
<1>3. CASE GiveUp
  BY <1>2, <1>3, GivingUp
<1>4. CASE /\ Manifests(fin.a) = {} /\ CoverageHolds(fin.a, made[fin.a][fin.id])
           /\ Continue("publish")
  <2>1. Shape' /\ (\A a \in Attempts : Sound(a)')
    BY <1>2, <1>4, MovingOn
  <2>2. /\ fin'.stage = "publish" /\ fin'.a = fin.a /\ fin'.id = fin.id
    BY <1>4, Continues
  <2>3. Manifests(fin.a)' = {} /\ CoverageHolds(fin.a, made[fin.a][fin.id])'
    BY <1>2, <1>4, <2>2 DEF Manifests, Registered, CoverageHolds
  <2>4. Course'
    BY <1>1, <1>2, <2>2, <2>3 DEF Course
  <2>. QED  BY <2>1, <2>4 DEF Inv
<1>5. CASE /\ Manifests(fin.a) = {Manifest} /\ CoverageHolds(fin.a, made[fin.a][fin.id])
           /\ Continue("complete")
  <2>1. Shape' /\ (\A a \in Attempts : Sound(a)')
    BY <1>2, <1>5, MovingOn
  <2>2. /\ fin'.stage = "complete" /\ fin'.a = fin.a /\ fin'.id = fin.id
        /\ Manifest' = Manifest
    BY <1>5, Continues
  <2>3. Manifests(fin.a)' = {Manifest}' /\ CoverageHolds(fin.a, made[fin.a][fin.id])'
    BY <1>2, <1>5, <2>2 DEF Manifests, Registered, CoverageHolds
  <2>4. Course'
    BY <1>1, <1>2, <2>2, <2>3 DEF Course
  <2>. QED  BY <2>1, <2>4 DEF Inv
<1>6. CASE Continue("check") /\ CoverageHolds(fin.a, made[fin.a][fin.id])
  <2>1. Shape' /\ (\A a \in Attempts : Sound(a)')
    BY <1>2, <1>6, MovingOn
  <2>2. /\ fin'.stage = "check" /\ fin'.a = fin.a /\ fin'.id = fin.id
    BY <1>6, Continues
  <2>3. CoverageHolds(fin.a, made[fin.a][fin.id])'
    BY <1>2, <1>6, <2>2 DEF Registered, CoverageHolds
  <2>4. Course'
    BY <1>1, <1>2, <2>2, <2>3 DEF Course
  <2>. QED  BY <2>1, <2>4 DEF Inv
<1>. QED  BY <1>3, <1>4, <1>5, <1>6 DEF FinVerify

LEMMA PublishKeeps ==
    ASSUME Inv, FinPublish
    PROVE  Inv'
<1>0. PICK c : c = fin.a
  OBVIOUS
<1>1. /\ fin.stage = "publish" /\ c \in Attempts /\ fin.id \in DOMAIN made[c]
      /\ DOMAIN sealing = Attempts /\ Sound(c) /\ Manifest = ManifestId(fin.id)
  BY <1>0, Underway DEF FinPublish
<1>2. CoverageHolds(c, made[c][fin.id]) /\ Manifests(c) = {}
  BY <1>0, <1>1 DEF Inv, Course
<1>3. UNCHANGED <<reg, made, bundles, sealed>>
  BY DEF FinPublish
<1>4. Manifest.kind = "experiment_manifest" /\ Manifest \notin Registered(c)
  BY <1>1, <1>2, Injective DEF Manifests
<1>5. CASE ~MayPublish(c, Manifest, fin.seal)
  BY <1>0, <1>3, <1>5, GivingUp DEF FinPublish
<1>6. CASE MayPublish(c, Manifest, fin.seal) /\ Manifest \in bundles[c]
  <2>1. (sealing[c] = <<>> \/ sealing[c] = <<Manifest>>) /\ c \notin sealed
    BY <1>6 DEF MayPublish
  <2>2. Continue("append") /\ sealing' = sealing
    BY <1>0, <1>6 DEF FinPublish
  <2>3. /\ Shape' /\ \A a \in Attempts : Sound(a)'
    BY <1>3, <2>2, MovingOn
  <2>4. /\ fin'.stage = "append" /\ fin'.a = c /\ fin'.id = fin.id /\ Manifest' = Manifest
    BY <1>0, <2>2, Continues
  <2>5. Manifests(c)' = {} /\ CoverageHolds(c, made[c][fin.id])'
    BY <1>2, <1>3, <2>4 DEF Manifests, Registered, CoverageHolds
  <2>6. Course'
    BY <1>1, <1>3, <2>1, <2>2, <2>4, <2>5 DEF Course
  <2>. QED  BY <2>3, <2>6 DEF Inv
<1>7. CASE MayPublish(c, Manifest, fin.seal) /\ Manifest \notin bundles[c]
  <2>1. /\ Continue("rename")
        /\ sealing' = IF fin.seal THEN [sealing EXCEPT ![c] = <<Manifest>>] ELSE sealing
    BY <1>0, <1>7 DEF FinPublish
  <2>2. /\ fin'.stage = "rename" /\ fin'.a = c /\ fin'.id = fin.id /\ Manifest' = Manifest
        /\ cur' = cur /\ {"stage", "a", "id", "by", "seal"} \subseteq DOMAIN fin'
    BY <1>0, <2>1, Continues
  <2>3. /\ DOMAIN sealing' = Attempts /\ sealing'[c] \in {<<>>, <<Manifest>>}
        /\ \A a \in Attempts \ {c} : sealing'[a] = sealing[a]
    BY <1>1, <1>7, <2>1 DEF MayPublish
  <2>4. /\ Registered(c)' = Registered(c) /\ Manifests(c)' = {}
        /\ CoverageHolds(c, made[c][fin.id])'
    BY <1>2, <1>3, <2>2 DEF Manifests, Registered, CoverageHolds
  <2>5. ASSUME NEW a \in Attempts \ {c} PROVE Sound(a)'
    BY <1>3, <2>3, AttemptKept DEF Inv
  <2>6. Sound(c)'
    <3>1. Known(c)'
      BY <1>1, <1>3, <2>4 DEF Sound, Known
    <3>2. Bound(c)'
      <4>0. PICK i : i = fin.id
        OBVIOUS
      <4>1. i \in DOMAIN made'[c] /\ sealing'[c] \in {<<>>, <<ManifestId(i)>>}
        BY <1>1, <1>3, <2>3, <4>0
      <4>2. Manifests(c)' \subseteq {ManifestId(i)} /\ ManifestId(i) \notin Registered(c)'
        BY <1>1, <1>4, <2>4, <4>0
      <4>3. CoverageHolds(c, made[c][i])'
        BY <2>2, <2>4, <4>0
      <4>. QED  BY <4>1, <4>2, <4>3 DEF Bound
    <3>3. Ended(c)'
      BY <1>3, <1>7 DEF Ended, MayPublish
    <3>. QED  BY <3>1, <3>2, <3>3 DEF Sound
  <2>7. Shape'
    BY <1>3, <2>2, <2>3 DEF Inv, Shape
  <2>8. Course'
    BY <1>1, <1>3, <1>7, <2>2, <2>3, <2>4 DEF Course, MayPublish
  <2>. QED  BY <2>5, <2>6, <2>7, <2>8 DEF Inv
<1>. QED  BY <1>5, <1>6, <1>7

(* The bundle of the manifest reaches the disk.                             *)
LEMMA RenameKeeps ==
    ASSUME Inv, FinRename
    PROVE  Inv'
<1>0. PICK c : c = fin.a
  OBVIOUS
<1>1. /\ fin.stage = "rename" /\ c \in Attempts /\ fin.id \in DOMAIN made[c]
      /\ DOMAIN bundles = Attempts /\ Sound(c)
  BY <1>0, Underway DEF FinRename
<1>2. /\ CoverageHolds(c, made[c][fin.id]) /\ Manifests(c) = {}
      /\ c \notin sealed /\ (sealing[c] = <<>> \/ sealing[c] = <<Manifest>>)
  BY <1>0, <1>1 DEF Inv, Course
<1>3. /\ UNCHANGED <<reg, made, sealing, sealed>> /\ Continue("append")
      /\ bundles' = [bundles EXCEPT ![c] = @ \cup {Manifest}]
  BY <1>0 DEF FinRename
<1>4. /\ fin'.stage = "append" /\ fin'.a = c /\ fin'.id = fin.id /\ Manifest' = Manifest
      /\ cur' = cur /\ {"stage", "a", "id", "by", "seal"} \subseteq DOMAIN fin'
  BY <1>0, <1>3, Continues
<1>5. /\ DOMAIN bundles' = Attempts /\ bundles'[c] = bundles[c] \cup {Manifest}
      /\ \A a \in Attempts \ {c} : bundles'[a] = bundles[a]
  BY <1>1, <1>3
<1>6. ASSUME NEW a \in Attempts \ {c} PROVE Sound(a)'
  BY <1>3, <1>5, AttemptKept DEF Inv
<1>7. /\ Registered(c)' = Registered(c) /\ Manifests(c)' = Manifests(c)
  BY <1>3 DEF Manifests, Registered
<1>8. CoverageHolds(c, made[c][fin.id])'
  BY <1>2, <1>3, <1>4, <1>7 DEF CoverageHolds
<1>9. Sound(c)'
  <2>1. Bound(c)' /\ Ended(c)'
    BY <1>1, <1>3, <1>7 DEF Sound, Bound, Ended, CoverageHolds
  <2>2. Known(c)'
    <3>1. Manifest \in {ManifestId(i) : i \in DOMAIN made[c]}
      BY <1>0, <1>1, FinManifest
    <3>. QED  BY <1>1, <1>3, <1>5, <1>7, <3>1 DEF Sound, Known
  <2>. QED  BY <2>1, <2>2 DEF Sound
<1>10. Shape'
  BY <1>3, <1>4, <1>5 DEF Inv, Shape
<1>11. Course'
  BY <1>1, <1>2, <1>3, <1>4, <1>7, <1>8 DEF Course
<1>. QED  BY <1>6, <1>9, <1>10, <1>11 DEF Inv

(* The manifest is registered: it is the only one and the last entry.       *)
LEMMA AppendKeeps ==
    ASSUME Inv, FinAppend
    PROVE  Inv'
<1>0. PICK c, i : c = fin.a /\ i = fin.id
  OBVIOUS
<1>1. /\ fin.stage = "append" /\ c \in Attempts /\ i \in DOMAIN made[c]
      /\ Sound(c) /\ Manifest = ManifestId(i)
  BY <1>0, Underway DEF FinAppend
<1>2. /\ CoverageHolds(c, made[c][i]) /\ Manifests(c) = {}
      /\ c \notin sealed /\ (sealing[c] = <<>> \/ sealing[c] = <<ManifestId(i)>>)
  BY <1>0, <1>1 DEF Inv, Course
<1>3. /\ UNCHANGED <<made, bundles, sealing, sealed>>
      /\ \E stage \in {"mark", "check"} : Continue(stage)
      /\ reg' = Indexed(c, ManifestId(i))
  BY <1>0, <1>1 DEF FinAppend
<1>4. /\ fin'.stage \in {"mark", "check"} /\ fin'.a = c /\ fin'.id = i
      /\ Manifest' = ManifestId(i)
      /\ cur' = cur /\ {"stage", "a", "id", "by", "seal"} \subseteq DOMAIN fin'
  BY <1>0, <1>1, <1>3, Continues
<1>5. ManifestId(i).kind = "experiment_manifest" /\ ManifestId(i) \notin Registered(c)
  BY <1>2, Injective DEF Manifests
<1>6. /\ DOMAIN reg' = Attempts /\ \A a \in Attempts : reg'[a] \in Seq(ToSet(reg'[a]))
      /\ \A a \in Attempts \ {c} : reg'[a] = reg[a]
      /\ Registered(c)' = Registered(c) \cup {ManifestId(i)} /\ Last(reg'[c]) = ManifestId(i)
  <2>1. Shape
    BY DEF Inv
  <2>. QED  BY <1>1, <1>3, <1>5, <2>1, Indexing
<1>7. Manifests(c)' = {ManifestId(i)}
  BY <1>2, <1>5, <1>6 DEF Manifests
<1>8. CoverageHolds(c, made[c][i])'
  BY <1>2, <1>3, <1>5, <1>6 DEF CoverageHolds, Eligible
<1>9. ASSUME NEW a \in Attempts \ {c} PROVE Sound(a)'
  BY <1>3, <1>6, AttemptKept DEF Inv
<1>10. Sound(c)'
  <2>1. Known(c)'
    BY <1>1, <1>3, <1>6 DEF Sound, Known
  <2>2. Bound(c)' /\ Ended(c)'
    BY <1>1, <1>2, <1>3, <1>6, <1>7, <1>8 DEF Bound, Ended
  <2>. QED  BY <2>1, <2>2 DEF Sound
<1>11. Shape'
  BY <1>3, <1>4, <1>6 DEF Inv, Shape
<1>12. Course'
  <2>1. CoverageHolds(fin.a, made[fin.a][fin.id])'
    BY <1>4, <1>8
  <2>. QED  BY <1>1, <1>3, <1>4, <1>6, <2>1 DEF Course
<1>. QED  BY <1>9, <1>10, <1>11, <1>12 DEF Inv

(* A seal is completed for the manifest that is registered already.         *)
LEMMA CompleteKeeps ==
    ASSUME Inv, FinComplete
    PROVE  Inv'
<1>0. PICK c, i : c = fin.a /\ i = fin.id
  OBVIOUS
<1>1. /\ fin.stage = "complete" /\ c \in Attempts /\ i \in DOMAIN made[c]
      /\ DOMAIN sealing = Attempts /\ Sound(c) /\ Manifest = ManifestId(i)
  BY <1>0, Underway DEF FinComplete
<1>2. CoverageHolds(c, made[c][i]) /\ Manifests(c) = {ManifestId(i)}
  BY <1>0, <1>1 DEF Inv, Course
<1>3. UNCHANGED <<reg, made, bundles, sealed>>
  BY DEF FinComplete
<1>4. /\ Registered(c)' = Registered(c) /\ Manifests(c)' = {ManifestId(i)}
      /\ ManifestId(i) \in Registered(c) /\ CoverageHolds(c, made[c][i])'
  BY <1>2, <1>3 DEF Manifests, Registered, CoverageHolds
<1>5. ASSUME Continue("mark"), Shape', \A a \in Attempts : Sound(a)' PROVE Inv'
  <2>1. /\ fin'.stage = "mark" /\ fin'.a = c /\ fin'.id = i /\ Manifest' = ManifestId(i)
    BY <1>0, <1>1, <1>5, Continues
  <2>2. CoverageHolds(fin.a, made[fin.a][fin.id])'
    BY <1>4, <2>1
  <2>3. Course'
    BY <1>1, <1>3, <1>4, <2>1, <2>2 DEF Course
  <2>. QED  BY <1>5, <2>3 DEF Inv
<1>6. CASE sealing[c] = <<Manifest>>
  <2>1. Continue("mark") /\ sealing' = sealing
    BY <1>0, <1>6 DEF FinComplete
  <2>. QED  BY <1>3, <1>5, <2>1, MovingOn
<1>7. CASE sealing[c] = <<>> /\ Last(reg[c]) = Manifest
  <2>1. Continue("mark") /\ sealing' = [sealing EXCEPT ![c] = <<Manifest>>]
    BY <1>0, <1>7, Singled DEF FinComplete
  <2>2. /\ DOMAIN sealing' = Attempts /\ sealing'[c] = <<ManifestId(i)>>
        /\ \A a \in Attempts \ {c} : sealing'[a] = sealing[a]
    BY <1>1, <2>1
  <2>3. ASSUME NEW a \in Attempts \ {c} PROVE Sound(a)'
    BY <1>3, <2>2, AttemptKept DEF Inv
  <2>4. Sound(c)'
    <3>1. Known(c)'
      BY <1>1, <1>3, <1>4 DEF Sound, Known
    <3>2. Bound(c)' /\ Ended(c)'
      BY <1>1, <1>3, <1>4, <1>7, <2>2 DEF Bound, Ended
    <3>. QED  BY <3>1, <3>2 DEF Sound
  <2>5. Shape'
    BY <1>3, <2>1, <2>2, Continues DEF Inv, Shape
  <2>. QED  BY <1>5, <2>1, <2>3, <2>4, <2>5
<1>8. CASE GiveUp /\ sealing' = sealing
  BY <1>3, <1>8, GivingUp
<1>. QED  BY <1>0, <1>6, <1>7, <1>8 DEF FinComplete

LEMMA MarkKeeps ==
    ASSUME Inv, FinMark
    PROVE  Inv'
<1>0. PICK c, i : c = fin.a /\ i = fin.id
  OBVIOUS
<1>1. /\ fin.stage = "mark" /\ c \in Attempts /\ i \in DOMAIN made[c]
      /\ Sound(c) /\ Manifest = ManifestId(i)
  BY <1>0, Underway DEF FinMark
<1>2. CoverageHolds(c, made[c][i]) /\ ManifestId(i) \in Registered(c)
  BY <1>0, <1>1 DEF Inv, Course
<1>3. UNCHANGED <<reg, made, bundles, sealing>>
  BY DEF FinMark
<1>4. CASE sealing[c] # <<Manifest>>
  BY <1>0, <1>3, <1>4, GivingUp DEF FinMark
<1>5. CASE sealing[c] = <<Manifest>>
  <2>1. Continue("unmark") /\ sealed' = sealed \cup {c}
    BY <1>0, <1>5 DEF FinMark
  <2>2. /\ fin'.stage = "unmark" /\ fin'.a = c /\ fin'.id = i /\ Manifest' = ManifestId(i)
        /\ cur' = cur /\ {"stage", "a", "id", "by", "seal"} \subseteq DOMAIN fin'
    BY <1>0, <1>1, <2>1, Continues
  <2>3. Last(reg[c]) = ManifestId(i) /\ Manifests(c) \subseteq {ManifestId(i)}
    <3>1. PICK j \in DOMAIN made[c] :
             /\ sealing[c] = <<ManifestId(j)>> /\ Manifests(c) \subseteq {ManifestId(j)}
             /\ ManifestId(j) \in Registered(c) => Last(reg[c]) = ManifestId(j)
      BY <1>1, <1>5, Singled DEF Sound, Bound
    <3>2. ManifestId(j) = ManifestId(i)
      BY <1>1, <1>5, <3>1, Singled
    <3>. QED  BY <1>2, <3>1, <3>2
  <2>4. Manifests(c) = {ManifestId(i)}
    BY <1>2, <2>3, Injective DEF Manifests
  <2>5. /\ Registered(c)' = Registered(c) /\ Manifests(c)' = Manifests(c)
        /\ CoverageHolds(c, made[c][i])'
    BY <1>2, <1>3 DEF Manifests, Registered, CoverageHolds
  <2>6. ASSUME NEW a \in Attempts \ {c} PROVE Sound(a)'
    BY <1>3, <2>1, AttemptKept DEF Inv
  <2>7. Sound(c)'
    <3>1. Known(c)' /\ Bound(c)'
      BY <1>1, <1>3, <2>5 DEF Sound, Known, Bound, CoverageHolds
    <3>2. Ended(c)'
      BY <1>1, <1>3, <2>3, <2>4, <2>5 DEF Ended
    <3>. QED  BY <3>1, <3>2 DEF Sound
  <2>8. Shape'
    BY <1>1, <1>3, <2>1, <2>2 DEF Inv, Shape
  <2>9. Course'
    <3>1. CoverageHolds(fin.a, made[fin.a][fin.id])'
      BY <2>2, <2>5
    <3>. QED  BY <1>1, <1>2, <1>3, <2>1, <2>2, <2>5, <3>1 DEF Course
  <2>. QED  BY <2>6, <2>7, <2>8, <2>9 DEF Inv
<1>. QED  BY <1>4, <1>5

LEMMA UnmarkKeeps ==
    ASSUME Inv, FinUnmark
    PROVE  Inv'
<1>0. PICK c, i : c = fin.a /\ i = fin.id
  OBVIOUS
<1>1. /\ fin.stage = "unmark" /\ c \in Attempts /\ i \in DOMAIN made[c]
      /\ DOMAIN sealing = Attempts /\ Sound(c)
  BY <1>0, Underway DEF FinUnmark
<1>2. CoverageHolds(c, made[c][i]) /\ c \in sealed
  BY <1>0, <1>1 DEF Inv, Course
<1>3. /\ UNCHANGED <<reg, made, bundles, sealed>> /\ Continue("check")
      /\ sealing' = [sealing EXCEPT ![c] = <<>>]
  BY <1>0 DEF FinUnmark
<1>4. /\ fin'.stage = "check" /\ fin'.a = c /\ fin'.id = i
      /\ cur' = cur /\ {"stage", "a", "id", "by", "seal"} \subseteq DOMAIN fin'
  BY <1>0, <1>3, Continues
<1>5. /\ DOMAIN sealing' = Attempts /\ sealing'[c] = <<>>
      /\ \A a \in Attempts \ {c} : sealing'[a] = sealing[a]
  BY <1>1, <1>3
<1>6. /\ Registered(c)' = Registered(c) /\ Manifests(c)' = Manifests(c)
      /\ CoverageHolds(c, made[c][i])'
  BY <1>2, <1>3 DEF Manifests, Registered, CoverageHolds
<1>7. ASSUME NEW a \in Attempts \ {c} PROVE Sound(a)'
  BY <1>3, <1>5, AttemptKept DEF Inv
<1>8. Sound(c)'
  BY <1>1, <1>3, <1>5, <1>6 DEF Sound, Known, Bound, Ended, CoverageHolds
<1>9. Shape'
  BY <1>3, <1>4, <1>5 DEF Inv, Shape
<1>10. Course'
  <2>1. CoverageHolds(fin.a, made[fin.a][fin.id])'
    BY <1>4, <1>6
  <2>. QED  BY <1>1, <1>3, <1>4, <2>1 DEF Course
<1>. QED  BY <1>7, <1>8, <1>9, <1>10 DEF Inv

----------------------------------------------------------------------------
(* The theorems.                                                            *)

LEMMA Initially ==
    ASSUME Init
    PROVE  Inv
<1>. USE DEF Init, NoFin
<1>1. ToSet(<<>>) = {} /\ <<>> \in Seq(ToSet(<<>>))
  BY EmptySeq DEF ToSet
<1>2. Shape
  BY <1>1 DEF Shape, Attempts
<1>3. ASSUME NEW a \in Attempts PROVE Sound(a)
  <2>1. Registered(a) = {} /\ Manifests(a) = {}
    BY <1>1 DEF Registered, Manifests
  <2>. QED  BY <2>1 DEF Sound, Known, Bound, Ended
<1>4. Course
  BY DEF Course
<1>. QED  BY <1>2, <1>3, <1>4 DEF Inv

(* The strengthening is inductive, whatever a step of the gate, a failure,  *)
(* the operator or a loss does.                                             *)
THEOREM Invariance == Spec => []Inv
<1>1. ASSUME Inv, [Next]_vars PROVE Inv'
  <2>1. CASE UNCHANGED vars
    <3>1. UNCHANGED <<cur, reg, made, sealing, sealed, bundles, fin>>
      BY <2>1 DEF vars, store
    <3>2. Quiet
      BY <1>1, <3>1 DEF Quiet, Inv, Shape
    <3>. QED  BY <1>1, <3>2, QuietKeeps
  <2>2. CASE \/ Build \/ Prepare \/ OpenTelemetry \/ NewRuntime \/ Validate \/ Train
             \/ CloseTelemetry \/ Extract \/ Load \/ Restore \/ ForceMismatch \/ Compare
             \/ Interrupt \/ FinCheck \/ FinInterrupted
             \/ \E a \in Attempts : LoseContent(a)
    BY <1>1, <2>2, QuietSteps, QuietKeeps
  <2>3. CASE \/ PublishRecord \/ Save \/ PublishSample \/ RegisterTelemetry
             \/ PublishReport \/ \E a \in Attempts : Reconcile(a)
    BY <1>1, <2>3, PutSteps
  <2>4. CASE FinalizeManifest \/ \E a \in Attempts : Refinalize(a)
    BY <1>1, <2>4, GenerateSteps
  <2>5. CASE FinVerify \/ FinPublish \/ FinRename \/ FinAppend
    BY <1>1, <2>5, VerifyKeeps, PublishKeeps, RenameKeeps, AppendKeeps
  <2>6. CASE FinComplete \/ FinMark \/ FinUnmark
    BY <1>1, <2>6, CompleteKeeps, MarkKeeps, UnmarkKeeps
  <2>. QED  BY <1>1, <2>1, <2>2, <2>3, <2>4, <2>5, <2>6 DEF Next
<1>. QED  BY <1>1, Initially, PTL DEF Spec

(* While a seal is pending no other manifest gets into the registry, and    *)
(* nothing that the bound manifest leaves out or that comes after it, for   *)
(* any number of failures and finalizations (artifacts/store.py publish).   *)
THEOREM Exclusion == Spec => []PendingSealExcludes
<1>1. ASSUME Inv PROVE PendingSealExcludes
  <2>1. ASSUME NEW a \in Attempts, sealing[a] # <<>>
        PROVE  /\ Manifests(a) \subseteq {sealing[a][1]}
               /\ sealing[a][1] \in Registered(a) => Last(reg[a]) = sealing[a][1]
               /\ CoverageHolds(a, made[a][sealing[a][1].n])
    <3>1. PICK i \in DOMAIN made[a] :
             /\ sealing[a] = <<ManifestId(i)>> /\ Manifests(a) \subseteq {ManifestId(i)}
             /\ CoverageHolds(a, made[a][i])
             /\ ManifestId(i) \in Registered(a) => Last(reg[a]) = ManifestId(i)
      BY <1>1, <2>1 DEF Inv, Sound, Bound
    <3>2. sealing[a][1] = ManifestId(i) /\ ManifestId(i).n = i
      BY <3>1, Injective
    <3>. QED  BY <3>1, <3>2
  <2>. QED  BY <2>1 DEF PendingSealExcludes
<1>. QED  BY <1>1, Invariance, PTL

(* A sealed attempt has one manifest, its last entry, which accounts for    *)
(* every eligible artifact of the registry and nothing else (store.py).     *)
THEOREM Coverage == Spec => []SealedIsCovered
<1>1. ASSUME Inv PROVE SealedIsCovered
  <2>1. ASSUME NEW a \in Attempts \cap sealed
        PROVE  /\ Cardinality(Manifests(a)) = 1 /\ Last(reg[a]) \in Manifests(a)
               /\ CoverageHolds(a, ManifestOf(a))
    <3>1. PICK i \in DOMAIN made[a] :
             /\ Manifests(a) = {ManifestId(i)} /\ Last(reg[a]) = ManifestId(i)
             /\ CoverageHolds(a, made[a][i])
      BY <1>1 DEF Inv, Sound, Ended
    <3>2. (CHOOSE x \in Manifests(a) : TRUE).n = i
      BY <3>1, Injective
    <3>. QED  BY <3>1, <3>2, FS_Singleton DEF ManifestOf
  <2>2. sealed \subseteq Attempts
    BY <1>1 DEF Inv, Shape
  <2>. QED  BY <2>1, <2>2 DEF SealedIsCovered, CoverageHolds
<1>. QED  BY <1>1, Invariance, PTL

----------------------------------------------------------------------------
(* The training.                                                            *)

(* The last step of each script, and what has been passed by a script that  *)
(* stands at pc.                                                            *)
FinalStep == [u0 |-> 16, r0 |-> 10, r1 |-> 18]
Before(a, b) == (a = "u0" /\ b \in {"r0", "r1"}) \/ (a = "r0" /\ b = "r1")
Past(a, n) == Before(a, cur) \/ (cur = a /\ pc > n)

(* The parts of a runtime state.                                            *)
Parts == {"params", "slots", "steps", "sched", "cursor", "counters", "generator"}
Shaped(r) ==
    /\ r = [f \in Parts |-> r[f]]
    /\ r.params \in Seq(ToSet(r.params)) /\ r.slots \in Seq(ToSet(r.slots))

(* r is the state that n updates make of a fresh one: h is the history.     *)
Reached(r, n) ==
    \E h : h[0] = Fresh /\ h[n] = r /\ \A i \in 0 .. n - 1 : h[i + 1] = Updated(h[i])

(* If the window fits, the batches so far were consecutive and all of them  *)
(* before it.                                                               *)
OnTrack(r, n) ==
    ValidationFits =>
        /\ n < N => r.cursor.position = n * TokensPerUpdate
        /\ Trained(r) \subseteq 0 .. N * TokensPerUpdate - 1

(* The state after n updates; off says that a parameter was perturbed.      *)
After(r, n, off) ==
    /\ Shaped(r) /\ OnTrack(r, n) /\ r.counters.update = n
    /\ Len(r.params) = n + (IF off THEN 1 ELSE 0)
    /\ ~off => Reached(r, n)

(* The updates of the training steps that a script has passed.              *)
Updates == IF cur # "r0" /\ pc > 9 THEN N
           ELSE IF pc > (IF cur = "r0" THEN 6 ELSE 7) THEN K ELSE 0
Off(a) == a = "r1" /\ cfg.mismatch

(* The steps that train, and how many rounds each of them makes.            *)
Looping == (cur = "r0" /\ pc = 6) \/ (cur = "u0" /\ pc = 7) \/ (cur # "r0" /\ pc = 9)
Rounds == IF pc = 9 THEN N - K ELSE K

(* Where the gate may stand.                                                *)
Placed ==
    /\ cfg \in Configs /\ phase \in {"building", "running", "over", "returned"}
    /\ pc \in 1 .. FinalStep[cur] /\ loop \in Nat
    /\ phase = "building" => cur = "u0" /\ pc = 1
    /\ phase \in {"running", "returned"} \/ Past("u0", 1) => Builds
    /\ Past("u0", 6) => ValidationFits
    /\ loop # 0 => Looping /\ loop < Rounds
    /\ phase = "returned" => cur = "r1" /\ pc = 18

(* The state in memory is the one the place in the script asks for.         *)
Trains ==
    /\ pc > 5 => After(rt, Updates + loop, Off(cur) /\ pc > 8)
    /\ cur # "r0" /\ pc > 10 => loss = LossOf(rt)

CheckpointAt(a, x, i) == saved[i].a = a /\ saved[i].x = x

(* A checkpoint holds the state after the number of updates it is named for.*)
IsTrained(c) ==
    /\ c.a \in Attempts /\ Builds /\ ValidationFits
    /\ \E n \in 0 .. N : c.x = Id("checkpoint", n) /\ After(c.rt, n, Off(c.a))

IsSaved(a, x) == \E i \in DOMAIN saved : CheckpointAt(a, x, i)

(* Every checkpoint was trained, and every one that an attempt has on its   *)
(* disk or in its registry was saved by that attempt.                       *)
Saves ==
    /\ saved \in Seq(ToSet(saved))
    /\ \A i \in DOMAIN saved : IsTrained(saved[i])
    /\ \A a \in Attempts : \A x \in bundles[a] \cup Registered(a) :
          x.kind = "checkpoint" => IsSaved(a, x)

(* The state after the last update is saved before anything is extracted.   *)
KeepsLast ==
    cur # "r0" /\ pc > 11 =>
        \E i \in DOMAIN saved : CheckpointAt(cur, Id("checkpoint", N), i) /\ saved[i].rt = rt

(* The comparison vector of an attempt is that of its last checkpoint.      *)
Compared(a) ==
    \E i \in DOMAIN saved :
        /\ CheckpointAt(a, Id("checkpoint", N), i)
        /\ comp[a] = <<Extracted(saved[i].rt, LossOf(saved[i].rt))>>

Compares ==
    /\ DOMAIN comp = Attempts
    /\ IF Past("u0", 15) THEN Compared("u0") ELSE comp["u0"] = <<>>
    /\ comp["r0"] = <<>>
    /\ IF Past("r1", 13) THEN Compared("r1") ELSE comp["r1"] = <<>>

(* The report, the streams and the lineages at each place.                  *)
Reports == report = IF Past("r1", 14) THEN Decision(Differences(comp["u0"][1], comp["r1"][1])) ELSE "none"

Streams ==
    /\ stream \in [Attempts -> {"none", "open", "normal", "interrupted", "failed"}]
    /\ Past("u0", 13) => stream["u0"] = "normal"
    /\ Past("r1", 15) => stream["r1"] = Outcome("r1")

Lineages == lineage = [a \in Attempts |-> IF Past(a, 1) THEN [prepared |-> TRUE, parent |-> ParentOf(a)] ELSE NotPrepared]

(* A manifest says completed only at the end of an attempt that succeeded.  *)
Generated ==
    \A a \in Attempts : \A i \in DOMAIN made[a] : made[a][i].status = "completed" =>
        /\ a # "r0" /\ Past(a, FinalStep[a] - 1)
        /\ Id("checkpoint", N) \in made[a][i].refs
        /\ a = "r1" => report = "pass"

(* A finished attempt is sealed under the manifest that the gate made.      *)
FromGate(a, i) == made[a][i].status = TerminalStatus(a) /\ made[a][i].refs = GateRecords(a)
Finished(a) == a \in sealed /\ \E i \in DOMAIN made[a] : Manifests(a) = {ManifestId(i)} /\ FromGate(a, i)

Finishes == \A a \in Attempts : Before(a, cur) \/ phase = "returned" => Finished(a)

(* A finalization under way is that of the step the gate stands at, or the  *)
(* operator called it after the gate was over.                              *)
Finalizes ==
    /\ fin.stage = "none" => fin = NoFin
    /\ fin.stage # "none" =>
          /\ fin.by \in {"gate", "operator"}
          /\ fin.by = "operator" => phase = "over"
          /\ fin.by = "gate" =>
                /\ phase = "running" /\ fin.a = cur /\ pc = FinalStep[cur]
                /\ FromGate(cur, fin.id) /\ fin.seal = TRUE
    /\ fin.stage \in {"unmark", "check"} /\ fin.seal = TRUE =>
          fin.a \in sealed /\ Manifest \in Registered(fin.a)

Returns ==
    /\ passed \in {"none", "yes", "no"}
    /\ passed = "yes" => phase = "returned" /\ report = "pass"
----------------------------------------------------------------------------
(* The sizes of a gate that was built, and what depends on cfg alone.       *)

LEMMA Sizes ==
    ASSUME cfg \in Configs
    PROVE  /\ TokensPerUpdate \in Nat /\ TokensPerUpdate > 0 /\ N \in Nat /\ K \in Nat
           /\ cfg.length \in Nat /\ cfg.length > 0 /\ Window \in Nat /\ cfg.mismatch \in BOOLEAN
           /\ Builds => 0 < K /\ K < N
<1>1. /\ cfg.batch \in Nat /\ cfg.seq \in Nat /\ cfg.tokens \in Nat /\ cfg.interval \in Nat
      /\ cfg.batch > 0 /\ cfg.seq > 0 /\ cfg.length \in Nat /\ cfg.length > 0
      /\ Window \in Nat /\ cfg.mismatch \in BOOLEAN
  BY GateConstants
<1>2. TokensPerUpdate \in Nat /\ TokensPerUpdate > 0
  BY <1>1 DEF TokensPerUpdate
<1>3. N \in Nat /\ K \in Nat
  BY <1>1, <1>2 DEF N, K
<1>. QED  BY <1>1, <1>2, <1>3 DEF Builds

LEMMA CfgAlone ==
    ASSUME cfg' = cfg
    PROVE  /\ N' = N /\ K' = K /\ TokensPerUpdate' = TokensPerUpdate
           /\ Builds' = Builds /\ ValidationFits' = ValidationFits /\ HeldOut' = HeldOut
           /\ \A a : Off(a)' = Off(a)
           /\ \A r : LossOf(r)' = LossOf(r) /\ Updated(r)' = Updated(r)
           /\ \A r, n : Reached(r, n)' = Reached(r, n)
           /\ \A r, n, off : After(r, n, off)' = After(r, n, off)
           /\ \A r, l : Extracted(r, l)' = Extracted(r, l)
<1>1. /\ TokensPerUpdate' = TokensPerUpdate /\ N' = N /\ K' = K
      /\ Builds' = Builds /\ ValidationFits' = ValidationFits /\ HeldOut' = HeldOut
  BY DEF TokensPerUpdate, N, K, Builds, ValidationFits, HeldOut
<1>2. \A c : NextBatch(c)' = NextBatch(c) /\ Advanced(c)' = Advanced(c)
  BY <1>1 DEF NextBatch, Advanced
<1>3. \A r : LossOf(r)' = LossOf(r) /\ Updated(r)' = Updated(r)
  BY <1>1, <1>2 DEF LossOf, Updated, Gradient
<1>4. \A r, l : Extracted(r, l)' = Extracted(r, l)
  BY <1>2 DEF Extracted
<1>5. \A r, n : Reached(r, n)' = Reached(r, n)
  BY <1>3 DEF Reached
<1>6. \A r, n : OnTrack(r, n)' = OnTrack(r, n)
  BY <1>1 DEF OnTrack
<1>7. \A r, n, off : After(r, n, off)' = After(r, n, off)
  BY <1>5, <1>6 DEF After
<1>8. \A a : Off(a)' = Off(a)
  BY DEF Off
<1>. QED  BY <1>1, <1>3, <1>4, <1>5, <1>7, <1>8

----------------------------------------------------------------------------
(* Training is a function of the number of updates.                         *)

(* Every set of naturals that is not empty has a least member.              *)
LEMMA Least ==
    ASSUME NEW S \in SUBSET Nat, S # {}
    PROVE  \E n \in S : \A m \in S : n <= m
<1>1. IsWellFoundedOn(OpToRel(<, Nat), Nat)
  BY NatLessThanWellFounded
<1>2. PICK n \in S : \A m \in S : ~ (<<m, n>> \in OpToRel(<, Nat))
  BY <1>1, WFMin
<1>3. \A m \in S : ~ (m < n)
  BY <1>2 DEF OpToRel
<1>. QED  BY <1>3

(* Two states after n updates are equal: the least index at which their     *)
(* histories differ would have a predecessor at which they agree.           *)
LEMMA Determined ==
    ASSUME NEW n \in Nat, NEW r, NEW s, Reached(r, n), Reached(s, n)
    PROVE  r = s
<1>1. PICK g : g[0] = Fresh /\ g[n] = r /\ \A i \in 0 .. n - 1 : g[i + 1] = Updated(g[i])
  BY DEF Reached
<1>2. PICK h : h[0] = Fresh /\ h[n] = s /\ \A i \in 0 .. n - 1 : h[i + 1] = Updated(h[i])
  BY DEF Reached
<1>. DEFINE Apart == {i \in 0 .. n : g[i] # h[i]}
<1>3. CASE Apart = {}
  BY <1>1, <1>2, <1>3
<1>4. CASE Apart # {}
  <2>0. Apart \in SUBSET Nat
    OBVIOUS
  <2>1. PICK i \in Apart : \A j \in Apart : i <= j
    BY <1>4, <2>0, Least
  <2>2. i # 0 /\ i - 1 \in 0 .. n - 1 /\ i - 1 \notin Apart
    BY <1>1, <1>2, <2>1
  <2>3. g[i - 1] = h[i - 1]
    BY <2>2
  <2>4. g[i] = Updated(g[i - 1]) /\ h[i] = Updated(h[i - 1])
    BY <1>1, <1>2, <2>2
  <2>. QED  BY <2>1, <2>3, <2>4
<1>. QED  BY <1>3, <1>4

(* One update more.                                                         *)
LEMMA ReachedNext ==
    ASSUME NEW n \in Nat, NEW r, Reached(r, n)
    PROVE  Reached(Updated(r), n + 1)
<1>1. PICK h : h[0] = Fresh /\ h[n] = r /\ \A i \in 0 .. n - 1 : h[i + 1] = Updated(h[i])
  BY DEF Reached
<1>. DEFINE g == [i \in 0 .. n + 1 |-> IF i = n + 1 THEN Updated(r) ELSE h[i]]
<1>2. g[0] = Fresh /\ g[n + 1] = Updated(r) /\ g[n] = r
  BY <1>1
<1>3. ASSUME NEW i \in 0 .. n PROVE g[i + 1] = Updated(g[i])
  BY <1>1
<1>. HIDE DEF g
<1>. QED  BY <1>2, <1>3 DEF Reached

LEMMA ReachedFresh == Reached(Fresh, 0)
<1>. DEFINE h == [i \in {0} |-> Fresh]
<1>1. h[0] = Fresh
  OBVIOUS
<1>. HIDE DEF h
<1>. QED  BY <1>1 DEF Reached

(* The fields of a runtime after an update.                                 *)
LEMMA UpdatedShape ==
    ASSUME NEW r, Shaped(r)
    PROVE  /\ Shaped(Updated(r))
           /\ Updated(r).slots = Append(r.slots, Gradient(r))
           /\ Len(Updated(r).params) = Len(r.params) + 1
           /\ Updated(r).counters.update = r.counters.update + 1
           /\ Updated(r).cursor = Advanced(r.cursor)
<1>. DEFINE slots == Append(r.slots, Gradient(r))
            p == [step |-> r.steps + 1, slots |-> slots]
            u == Updated(r)
<1>1. r = [f \in Parts |-> r[f]]
  BY DEF Shaped
<1>2. /\ u = [f \in Parts |-> u[f]]
      /\ u.slots = slots /\ u.params = Append(r.params, p) /\ u.cursor = Advanced(r.cursor)
      /\ u.counters.update = r.counters.update + 1
  BY <1>1 DEF Updated, Parts
<1>3. /\ slots \in Seq(ToSet(slots))
      /\ Append(r.params, p) \in Seq(ToSet(Append(r.params, p)))
      /\ Len(Append(r.params, p)) = Len(r.params) + 1
  BY Appending, AppendProperties DEF Shaped
<1>. HIDE DEF u, slots, p
<1>4. Shaped(u)
  BY <1>2, <1>3 DEF Shaped
<1>. QED  BY <1>2, <1>3, <1>4 DEF u, slots, p

LEMMA Remainders ==
    ASSUME NEW n \in Nat, NEW a \in Nat, a < n
    PROVE  a % n = a
  OBVIOUS

LEMMA Products ==
    ASSUME NEW t \in Nat, NEW n \in Nat, NEW m \in Nat, n < m
    PROVE  n * t \in Nat /\ m * t \in Nat /\ n * t + t <= m * t /\ (n + 1) * t = n * t + t
<1>1. n * t \in Nat /\ m * t \in Nat /\ (n + 1) * t = n * t + t
  OBVIOUS
<1>2. PICK d \in Nat : m = (n + 1) + d
  <2>1. m - (n + 1) \in Nat /\ m = (n + 1) + (m - (n + 1))
    OBVIOUS
  <2>. QED  BY <2>1
<1>3. m * t = (n + 1) * t + d * t /\ d * t \in Nat
  BY <1>2
<1>. QED  BY <1>1, <1>3

(* A batch of a corpus that fits does not wrap.                             *)
LEMMA OnTrackNext ==
    ASSUME cfg \in Configs, NEW r, Shaped(r), NEW n \in Nat, n < N, OnTrack(r, n)
    PROVE  OnTrack(Updated(r), n + 1)
<1>. DEFINE T == TokensPerUpdate
<1>1. SUFFICES ASSUME ValidationFits
               PROVE  /\ n + 1 < N => Updated(r).cursor.position = (n + 1) * T
                      /\ Trained(Updated(r)) \subseteq 0 .. N * T - 1
  BY DEF OnTrack
<1>2. T \in Nat /\ T > 0 /\ N \in Nat /\ cfg.length \in Nat /\ Window \in Nat
  BY Sizes
<1>3. /\ n * T \in Nat /\ N * T \in Nat /\ n * T + T <= N * T /\ (n + 1) * T = n * T + T
  BY <1>2, Products
<1>4. N * T + Window <= cfg.length
  BY <1>1 DEF ValidationFits
<1>5. r.cursor.position = n * T /\ Trained(r) \subseteq 0 .. N * T - 1
  BY <1>1 DEF OnTrack
<1>6. ASSUME NEW i \in 1 .. T
      PROVE  NextBatch(r.cursor)[i] \in 0 .. N * T - 1
  <2>. DEFINE a == n * T + i - 1
  <2>1. a \in Nat /\ a < N * T /\ a < cfg.length
    BY <1>2, <1>3, <1>4
  <2>2. NextBatch(r.cursor)[i] = a % cfg.length
    BY <1>5 DEF NextBatch
  <2>3. a % cfg.length = a
    BY <1>2, <2>1, Remainders
  <2>. QED  BY <1>2, <1>3, <2>1, <2>2, <2>3
<1>7. Positions(Gradient(r).batch) \subseteq 0 .. N * T - 1
  <2>1. Gradient(r).batch = NextBatch(r.cursor) /\ DOMAIN NextBatch(r.cursor) = 1 .. T
    BY DEF Gradient, NextBatch
  <2>. QED  BY <1>6, <2>1 DEF Positions
<1>8. Trained(Updated(r)) \subseteq Trained(r) \cup Positions(Gradient(r).batch)
  <2>1. Updated(r).slots = Append(r.slots, Gradient(r)) /\ r.slots \in Seq(ToSet(r.slots))
    BY UpdatedShape DEF Shaped
  <2>2. ASSUME NEW p \in Trained(Updated(r)), p \notin Positions(Gradient(r).batch)
        PROVE  p \in Trained(r)
    <3>1. PICK i \in DOMAIN Updated(r).slots : p \in Positions(Updated(r).slots[i].batch)
      BY DEF Trained
    <3>2. Updated(r).slots[i] \in ToSet(r.slots) \cup {Gradient(r)}
      BY <2>1, <3>1, Appending DEF ToSet
    <3>3. Updated(r).slots[i] \in ToSet(r.slots)
      BY <2>2, <3>1, <3>2
    <3>. QED  BY <3>1, <3>3 DEF Trained, ToSet
  <2>. QED  BY <2>2
<1>9. ASSUME n + 1 < N PROVE Updated(r).cursor.position = (n + 1) * T
  <2>1. (n + 1) * T + T <= N * T /\ (n + 1) * T \in Nat
    BY <1>2, <1>9, Products
  <2>2. (n + 1) * T < cfg.length
    BY <1>2, <1>3, <1>4, <2>1
  <2>3. Updated(r).cursor.position = (n * T + T) % cfg.length
    <3>1. Updated(r).cursor = Advanced(r.cursor)
      BY UpdatedShape
    <3>. QED  BY <1>5, <3>1 DEF Advanced
  <2>. QED  BY <1>2, <1>3, <2>1, <2>2, <2>3, Remainders
<1>. QED  BY <1>5, <1>7, <1>8, <1>9

LEMMA AfterNext ==
    ASSUME cfg \in Configs, NEW r, NEW n \in Nat, n < N, NEW off \in BOOLEAN, After(r, n, off)
    PROVE  After(Updated(r), n + 1, off)
<1>1. Shaped(r) /\ OnTrack(r, n) /\ r.counters.update = n
  BY DEF After
<1>2. Shaped(Updated(r)) /\ OnTrack(Updated(r), n + 1)
  BY <1>1, UpdatedShape, OnTrackNext
<1>3. /\ Updated(r).counters.update = n + 1
      /\ Len(Updated(r).params) = (n + 1) + (IF off THEN 1 ELSE 0)
  BY <1>1, UpdatedShape DEF After
<1>4. ~off => Reached(Updated(r), n + 1)
  BY ReachedNext DEF After
<1>. QED  BY <1>2, <1>3, <1>4 DEF After

LEMMA AfterNone ==
    ASSUME cfg \in Configs
    PROVE  After(Fresh, 0, FALSE)
<1>1. <<>> \in Seq(ToSet(<<>>)) /\ Len(<<>>) = 0 /\ DOMAIN <<>> = {}
  BY EmptySeq
<1>2. Shaped(Fresh) /\ Fresh.counters.update = 0 /\ Len(Fresh.params) = 0
  BY <1>1 DEF Shaped, Parts, Fresh
<1>3. Trained(Fresh) = {}
  BY <1>1 DEF Trained, Fresh
<1>4. Fresh.cursor.position = 0 * TokensPerUpdate
  BY Sizes DEF Fresh, Start
<1>5. OnTrack(Fresh, 0)
  BY <1>3, <1>4 DEF OnTrack
<1>. QED  BY <1>2, <1>5, ReachedFresh DEF After

(* A perturbed runtime has a parameter more than any that was trained.      *)
LEMMA AfterPerturbation ==
    ASSUME NEW r, NEW n \in Nat, After(r, n, FALSE)
    PROVE  After(Perturbed(r), n, TRUE)
<1>. DEFINE q == [step |-> 0, slots |-> <<>>]
            u == Perturbed(r)
<1>1. r = [f \in Parts |-> r[f]] /\ r.params \in Seq(ToSet(r.params))
  BY DEF After, Shaped
<1>2. /\ u = [f \in Parts |-> u[f]] /\ u.params = Append(r.params, q)
      /\ u.slots = r.slots /\ u.cursor = r.cursor /\ u.counters = r.counters
  BY <1>1 DEF Perturbed, Parts
<1>3. /\ Append(r.params, q) \in Seq(ToSet(Append(r.params, q)))
      /\ Len(Append(r.params, q)) = Len(r.params) + 1
  BY <1>1, Appending, AppendProperties
<1>. HIDE DEF u, q
<1>4. Shaped(u)
  BY <1>2, <1>3 DEF After, Shaped
<1>5. OnTrack(u, n)
  BY <1>2 DEF After, OnTrack, Trained
<1>6. After(u, n, TRUE)
  BY <1>2, <1>3, <1>4, <1>5 DEF After
<1>. QED  BY <1>6 DEF u

(* A restored runtime is the checkpoint's.                                  *)
LEMMA RestoredIsSaved ==
    ASSUME NEW r, NEW s, Shaped(r), Shaped(s)
    PROVE  Restored(r, s) = s
<1>. DEFINE u == Restored(r, s)
<1>1. r = [f \in Parts |-> r[f]] /\ s = [f \in Parts |-> s[f]]
  BY DEF Shaped
<1>2. u = [f \in Parts |-> u[f]]
  BY <1>1 DEF Restored, Parts
<1>3. \A f \in Parts : u[f] = s[f]
  BY <1>1 DEF Restored, Parts
<1>. HIDE DEF u
<1>4. u = s
  BY <1>1, <1>2, <1>3
<1>. QED  BY <1>4 DEF u

(* Two runtimes after the same updates compare equal, unless one of them    *)
(* was perturbed.                                                           *)
LEMMA Comparison ==
    ASSUME NEW r, NEW s, NEW n \in Nat, After(r, n, FALSE)
    PROVE  /\ After(s, n, TRUE) => Differences(Extracted(r, LossOf(r)), Extracted(s, LossOf(s))) # {}
           /\ After(s, n, FALSE) => r = s /\ Differences(Extracted(r, LossOf(r)), Extracted(s, LossOf(s))) = {}
<1>1. ASSUME After(s, n, FALSE)
      PROVE  r = s /\ Differences(Extracted(r, LossOf(r)), Extracted(s, LossOf(s))) = {}
  <2>1. r = s
    BY <1>1, Determined DEF After
  <2>. QED  BY <2>1 DEF Differences
<1>2. ASSUME After(s, n, TRUE)
      PROVE  Differences(Extracted(r, LossOf(r)), Extracted(s, LossOf(s))) # {}
  <2>1. Len(r.params) # Len(s.params)
    BY <1>2 DEF After
  <2>2. "params" \in Differences(Extracted(r, LossOf(r)), Extracted(s, LossOf(s)))
    BY <2>1 DEF Differences, Extracted
  <2>. QED  BY <2>2
<1>. QED  BY <1>1, <1>2

(* No position of the validation window is among those that were trained.   *)
LEMMA HeldOutApart ==
    ASSUME cfg \in Configs, ValidationFits, NEW r, NEW n, After(r, n, TRUE) \/ After(r, n, FALSE)
    PROVE  Trained(r) \cap HeldOut = {}
<1>1. Trained(r) \subseteq 0 .. N * TokensPerUpdate - 1
  BY DEF After, OnTrack
<1>2. N * TokensPerUpdate \in Nat
  <2>1. N \in Nat /\ TokensPerUpdate \in Nat
    BY Sizes
  <2>. QED  BY <2>1
<1>3. ASSUME NEW p \in Trained(r) \cap HeldOut PROVE FALSE
  BY <1>1, <1>2, <1>3, Sizes DEF HeldOut, ValidationFits
<1>. QED  BY <1>3

----------------------------------------------------------------------------
(* Where a step of the scripts is taken.                                    *)

LEMMA Where ==
    ASSUME cur \in Attempts, pc \in 1 .. FinalStep[cur], NEW step, At(step)
    PROVE  /\ phase = "running" /\ fin = NoFin
           /\ step = "finalize" => pc = FinalStep[cur]
           /\ step # "finalize" => pc < FinalStep[cur]
           /\ step = "prepare" => pc = 1
           /\ step \in {"resolved_configuration", "provenance"} => pc \in {2, 3}
           /\ step = "open" => pc = 4
           /\ step = "runtime" => pc = 5
           /\ step = "load" => cur = "r1" /\ pc = 6
           /\ step = "restore" => cur = "r1" /\ pc = 7
           /\ step = "perturb" => cur = "r1" /\ pc = 8
           /\ step = "validate" => (cur = "u0" /\ pc = 6) \/ (cur # "r0" /\ pc = 10)
           /\ step = "train_K" => (cur = "u0" /\ pc = 7) \/ (cur = "r0" /\ pc = 6)
           /\ step = "train_N" => cur # "r0" /\ pc = 9
           /\ step = "save" => \/ cur = "u0" /\ pc = 8
                               \/ cur = "r0" /\ pc = 7
                               \/ cur # "r0" /\ pc = 11
           /\ step = "sample" => cur # "r0" /\ pc = 12
           /\ step = "close" => \/ cur = "u0" /\ pc = 13
                                \/ cur = "r0" /\ pc = 8
                                \/ cur = "r1" /\ pc = 15
           /\ step = "register" => \/ cur = "u0" /\ pc = 14
                                   \/ cur = "r0" /\ pc = 9
                                   \/ cur = "r1" /\ pc = 16
           /\ step = "extract" => (cur = "u0" /\ pc = 15) \/ (cur = "r1" /\ pc = 13)
           /\ step = "compare" => cur = "r1" /\ pc = 14
           /\ step = "report" => cur = "r1" /\ pc = 17
<1>0. phase = "running" /\ fin = NoFin /\ step = Script(cur)[pc]
  BY DEF At
<1>. HIDE DEF At
<1>1. CASE cur = "u0"
  <2>1. FinalStep[cur] = 16 /\ pc \in 1 .. 16
    BY <1>1 DEF FinalStep
  <2>2. step = <<"prepare", "resolved_configuration", "provenance", "open", "runtime",
             "validate", "train_K", "save", "train_N", "validate", "save", "sample",
             "close", "register", "extract", "finalize">>[pc]
    <3>1. Script(cur) = <<"prepare", "resolved_configuration", "provenance", "open", "runtime",
             "validate", "train_K", "save", "train_N", "validate", "save", "sample",
             "close", "register", "extract", "finalize">>
      BY <1>1 DEF Script
    <3>. QED  BY <1>0, <3>1
  <2>3. (step = "finalize" => pc = FinalStep[cur]) /\ (step # "finalize" => pc < FinalStep[cur])
    BY <2>1, <2>2
  <2>4. /\ step = "prepare" => pc = 1
        /\ step \in {"resolved_configuration", "provenance"} => pc \in {2, 3}
        /\ step = "open" => pc = 4
        /\ step = "runtime" => pc = 5
    BY <2>1, <2>2
  <2>5. step \notin {"load", "restore", "perturb", "compare", "report"}
    BY <2>1, <2>2
  <2>. QED  BY <1>0, <1>1, <2>1, <2>2
<1>2. CASE cur = "r0"
  <2>1. FinalStep[cur] = 10 /\ pc \in 1 .. 10
    BY <1>2 DEF FinalStep
  <2>2. step = <<"prepare", "resolved_configuration", "provenance", "open", "runtime",
             "train_K", "save", "close", "register", "finalize">>[pc]
    <3>1. Script(cur) = <<"prepare", "resolved_configuration", "provenance", "open", "runtime",
             "train_K", "save", "close", "register", "finalize">>
      BY <1>2 DEF Script
    <3>. QED  BY <1>0, <3>1
  <2>. QED  BY <1>0, <1>2, <2>1, <2>2
<1>3. CASE cur = "r1"
  <2>1. FinalStep[cur] = 18 /\ pc \in 1 .. 18
    BY <1>3 DEF FinalStep
  <2>2. step = <<"prepare", "resolved_configuration", "provenance", "open", "runtime",
             "load", "restore", "perturb", "train_N", "validate", "save", "sample",
             "extract", "compare", "close", "register", "report", "finalize">>[pc]
    <3>1. Script(cur) = <<"prepare", "resolved_configuration", "provenance", "open", "runtime",
             "load", "restore", "perturb", "train_N", "validate", "save", "sample",
             "extract", "compare", "close", "register", "report", "finalize">>
      BY <1>3 DEF Script
    <3>. QED  BY <1>0, <3>1
  <2>. QED  BY <1>0, <1>3, <2>1, <2>2
<1>. QED  BY <1>1, <1>2, <1>3 DEF Attempts
----------------------------------------------------------------------------
(* What only grows.                                                         *)
Grows ==
    /\ cfg' = cfg /\ sealed \subseteq sealed'
    /\ \A i \in DOMAIN saved : i \in DOMAIN saved' /\ saved'[i] = saved[i]
    /\ \A a \in Attempts :
          /\ Registered(a) \subseteq Registered(a)'
          /\ \A i \in DOMAIN made[a] : i \in DOMAIN made'[a] /\ made'[a][i] = made[a][i]

LEMMA SavedGrows ==
    ASSUME saved \in Seq(ToSet(saved)), Next
    PROVE  \A i \in DOMAIN saved : i \in DOMAIN saved' /\ saved'[i] = saved[i]
<1>. USE DEF store
<1>1. CASE Save
  <2>1. PICK e : saved' = saved \/ saved' = Append(saved, e)
    BY <1>1 DEF Save
  <2>. QED  BY <2>1, Appending
<1>2. CASE \/ Build \/ Prepare \/ PublishRecord \/ OpenTelemetry \/ NewRuntime \/ Validate
           \/ Train \/ PublishSample \/ CloseTelemetry \/ RegisterTelemetry
           \/ Extract \/ Load \/ Restore \/ ForceMismatch \/ Compare \/ PublishReport
           \/ Interrupt \/ FinalizeManifest
  BY <1>2 DEF Build, Prepare, PublishRecord, OpenTelemetry, NewRuntime, Validate, Train,
              PublishSample, CloseTelemetry, RegisterTelemetry, Extract, Load, Restore,
              ForceMismatch, Compare, PublishReport, Interrupt, FinalizeManifest
<1>3. CASE \/ FinVerify \/ FinPublish \/ FinRename \/ FinAppend \/ FinComplete
           \/ FinMark \/ FinUnmark \/ FinCheck \/ FinInterrupted
           \/ \E a \in Attempts : Refinalize(a) \/ Reconcile(a) \/ LoseContent(a)
  BY <1>3 DEF FinVerify, FinPublish, FinRename, FinAppend, FinComplete, FinMark, FinUnmark,
              FinCheck, FinInterrupted, Refinalize, Reconcile, LoseContent
<1>. QED  BY <1>1, <1>2, <1>3 DEF Next

LEMMA CfgKept ==
    ASSUME Next
    PROVE  cfg' = cfg
<1>. USE DEF Proceed, Raise, Publish, Continue, GiveUp
<1>1. CASE \/ Build \/ Prepare \/ PublishRecord \/ OpenTelemetry \/ NewRuntime \/ Validate
           \/ Train \/ Save \/ PublishSample \/ CloseTelemetry \/ RegisterTelemetry
  BY <1>1 DEF Build, Prepare, PublishRecord, OpenTelemetry, NewRuntime, Validate, Train, Save,
              PublishSample, CloseTelemetry, RegisterTelemetry
<1>2. CASE \/ Extract \/ Load \/ Restore \/ ForceMismatch \/ Compare \/ PublishReport
           \/ Interrupt \/ FinalizeManifest
  BY <1>2 DEF Extract, Load, Restore, ForceMismatch, Compare, PublishReport, Interrupt,
              FinalizeManifest
<1>3. CASE \/ FinVerify \/ FinPublish \/ FinRename \/ FinAppend \/ FinComplete
           \/ FinMark \/ FinUnmark \/ FinCheck \/ FinInterrupted
           \/ \E a \in Attempts : Refinalize(a) \/ Reconcile(a) \/ LoseContent(a)
  BY <1>3 DEF FinVerify, FinPublish, FinRename, FinAppend, FinComplete, FinMark, FinUnmark,
              FinCheck, FinInterrupted, Refinalize, Reconcile, LoseContent
<1>. QED  BY <1>1, <1>2, <1>3 DEF Next

LEMMA SealedGrows ==
    ASSUME Next
    PROVE  sealed \subseteq sealed'
<1>. USE DEF store
<1>1. CASE \/ Build \/ Prepare \/ PublishRecord \/ OpenTelemetry \/ NewRuntime \/ Validate
           \/ Train \/ Save \/ PublishSample \/ CloseTelemetry \/ RegisterTelemetry
           \/ Extract \/ Load \/ Restore \/ ForceMismatch \/ Compare \/ PublishReport
           \/ Interrupt \/ FinalizeManifest
  BY <1>1 DEF Build, Prepare, PublishRecord, OpenTelemetry, NewRuntime, Validate, Train, Save,
              PublishSample, CloseTelemetry, RegisterTelemetry, Extract, Load, Restore,
              ForceMismatch, Compare, PublishReport, Interrupt, FinalizeManifest
<1>2. CASE \/ FinVerify \/ FinPublish \/ FinRename \/ FinAppend \/ FinComplete
           \/ FinMark \/ FinUnmark \/ FinCheck \/ FinInterrupted
           \/ \E a \in Attempts : Refinalize(a) \/ Reconcile(a) \/ LoseContent(a)
  BY <1>2 DEF FinVerify, FinPublish, FinRename, FinAppend, FinComplete, FinMark, FinUnmark,
              FinCheck, FinInterrupted, Refinalize, Reconcile, LoseContent
<1>. QED  BY <1>1, <1>2 DEF Next

LEMMA MadeOnlyByGenerating ==
    ASSUME Next, ~FinalizeManifest, ~(\E a \in Attempts : Refinalize(a))
    PROVE  made' = made
<1>. USE DEF store
<1>1. CASE \/ Build \/ Prepare \/ PublishRecord \/ OpenTelemetry \/ NewRuntime \/ Validate
           \/ Train \/ Save \/ PublishSample \/ CloseTelemetry \/ RegisterTelemetry
           \/ Extract \/ Load \/ Restore \/ ForceMismatch \/ Compare \/ PublishReport
           \/ Interrupt
  BY <1>1 DEF Build, Prepare, PublishRecord, OpenTelemetry, NewRuntime, Validate, Train, Save,
              PublishSample, CloseTelemetry, RegisterTelemetry, Extract, Load, Restore,
              ForceMismatch, Compare, PublishReport, Interrupt
<1>2. CASE \/ FinVerify \/ FinPublish \/ FinRename \/ FinAppend \/ FinComplete
           \/ FinMark \/ FinUnmark \/ FinCheck \/ FinInterrupted
           \/ \E a \in Attempts : Reconcile(a) \/ LoseContent(a)
  BY <1>2 DEF FinVerify, FinPublish, FinRename, FinAppend, FinComplete, FinMark, FinUnmark,
              FinCheck, FinInterrupted, Reconcile, LoseContent
<1>. QED  BY <1>1, <1>2 DEF Next

(* A step puts one artifact in one registry, or generates a manifest.       *)
LEMMA MadeGrows ==
    ASSUME Inv, Next
    PROVE  \A a \in Attempts : \A i \in DOMAIN made[a] :
               i \in DOMAIN made'[a] /\ made'[a][i] = made[a][i]
<1>. USE DEF store
<1>1. ASSUME NEW c \in Attempts, NEW m, NEW by, NEW seal, Generate(c, m, by, seal)
      PROVE  \A a \in Attempts : \A i \in DOMAIN made[a] :
                 i \in DOMAIN made'[a] /\ made'[a][i] = made[a][i]
  <2>1. DOMAIN made = Attempts /\ made[c] \in Seq(ToSet(made[c]))
    BY DEF Inv, Shape
  <2>2. made' = made \/ made' = [made EXCEPT ![c] = Append(@, m)]
    BY <1>1 DEF Generate
  <2>. QED  BY <2>1, <2>2, Appending
<1>2. CASE FinalizeManifest \/ \E a \in Attempts : Refinalize(a)
  <2>1. cur \in Attempts
    BY DEF Inv, Shape
  <2>. QED  BY <1>1, <1>2, <2>1 DEF FinalizeManifest, Refinalize
<1>. QED  BY <1>2, MadeOnlyByGenerating

(* What a step puts into a registry or on the disk.                         *)
Adds(c, x) ==
    /\ reg' \in {reg, Indexed(c, x)}
    /\ \A a \in Attempts :
          bundles'[a] \subseteq bundles[a] \cup (IF a = c THEN {x} ELSE {})

LEMMA PublishAdds ==
    ASSUME Inv, NEW x, Publish(x)
    PROVE  Adds(cur, x)
<1>1. cur \in Attempts /\ DOMAIN bundles = Attempts
  BY DEF Inv, Shape
<1>. QED  BY <1>1 DEF Publish, Adds

LEMMA Additions ==
    ASSUME Inv, Next, ~Save
    PROVE  \E c \in Attempts : \E x : Adds(c, x) /\ (x.kind # "checkpoint" \/ x \in bundles[c])
<1>1. cur \in Attempts
  BY DEF Inv, Shape
<1>2. /\ Quiet \/ (reg' = reg /\ bundles' = bundles) => Adds(cur, Id("report", 0))
      /\ Id("report", 0).kind # "checkpoint"
  BY DEF Quiet, Adds, Id
<1>3. CASE \/ Build \/ Prepare \/ OpenTelemetry \/ NewRuntime \/ Validate \/ Train
           \/ CloseTelemetry \/ Extract \/ Load \/ Restore \/ ForceMismatch \/ Compare
           \/ Interrupt \/ FinCheck \/ FinInterrupted
           \/ \E a \in Attempts : LoseContent(a)
  BY <1>1, <1>2, <1>3, QuietSteps
<1>4. CASE PublishRecord \/ PublishSample \/ RegisterTelemetry \/ PublishReport
  <2>1. \E kind : kind # "checkpoint" /\ Publish(Id(kind, 0))
    BY <1>4 DEF PublishRecord, PublishSample, RegisterTelemetry, PublishReport
  <2>2. PICK kind : kind # "checkpoint" /\ Publish(Id(kind, 0))
    BY <2>1
  <2>3. Id(kind, 0).kind = kind
    BY DEF Id
  <2>. QED  BY <1>1, <2>2, <2>3, PublishAdds
<1>5. CASE \E a \in Attempts : Reconcile(a)
  <2>1. PICK a \in Attempts : Reconcile(a)
    BY <1>5
  <2>2. PICK x \in bundles[a] : reg' = Indexed(a, x) /\ bundles' = bundles
    BY <2>1 DEF Reconcile
  <2>. QED  BY <2>2 DEF Adds
<1>6. CASE FinalizeManifest \/ \E a \in Attempts : Refinalize(a)
  <2>1. reg' = reg /\ bundles' = bundles
    BY <1>6 DEF FinalizeManifest, Refinalize
  <2>. QED  BY <1>1, <1>2, <2>1
<1>7. CASE FinVerify \/ FinPublish \/ FinComplete \/ FinMark \/ FinUnmark
  <2>1. reg' = reg /\ bundles' = bundles
    BY <1>7 DEF FinVerify, FinPublish, FinComplete, FinMark, FinUnmark, store
  <2>. QED  BY <1>1, <1>2, <2>1
<1>8. CASE FinRename \/ FinAppend
  <2>1. fin.a \in Attempts /\ DOMAIN bundles = Attempts
    BY <1>8, Underway DEF FinRename, FinAppend
  <2>2. Adds(fin.a, Manifest)
    BY <1>8, <2>1 DEF FinRename, FinAppend, Adds
  <2>3. Manifest.kind # "checkpoint"
    BY DEF Manifest, Id
  <2>. QED  BY <2>1, <2>2, <2>3
<1>. QED  BY <1>3, <1>4, <1>5, <1>6, <1>7, <1>8 DEF Next

LEMMA RegisteredGrows ==
    ASSUME Inv, NEW c \in Attempts, NEW x, Adds(c, x)
    PROVE  /\ \A a \in Attempts : Registered(a) \subseteq Registered(a)'
           /\ \A a \in Attempts \ {c} : Registered(a)' = Registered(a)
           /\ Registered(c)' \subseteq Registered(c) \cup {x}
<1>1. Shape /\ reg' \in {reg, Indexed(c, x)}
  BY DEF Inv, Adds
<1>2. /\ \A a \in Attempts \ {c} : reg'[a] = reg[a]
      /\ Registered(c)' = Registered(c) \/ Registered(c)' = Registered(c) \cup {x}
  BY <1>1, Indexing
<1>. QED  BY <1>2 DEF Registered

(* No step takes back a checkpoint, a registration, a manifest or a seal.   *)
LEMMA Growing ==
    ASSUME Inv, saved \in Seq(ToSet(saved)), Next
    PROVE  Grows
<1>1. \A a \in Attempts : Registered(a) \subseteq Registered(a)'
  <2>1. CASE Save
    <3>1. cur \in Attempts /\ Adds(cur, Id("checkpoint", rt.counters.update))
      BY <2>1, PublishAdds DEF Save, Inv, Shape
    <3>. QED  BY <3>1, RegisteredGrows
  <2>2. CASE ~Save
    <3>1. PICK c \in Attempts : \E x : Adds(c, x)
      BY <2>2, Additions
    <3>. QED  BY <3>1, RegisteredGrows
  <2>. QED  BY <2>1, <2>2
<1>. QED  BY <1>1, SavedGrows, CfgKept, SealedGrows, MadeGrows DEF Grows
----------------------------------------------------------------------------
(* Checkpoints.                                                             *)

LEMMA IsTrainedKept ==
    ASSUME cfg' = cfg
    PROVE  \A c : IsTrained(c)' = IsTrained(c)
  BY CfgAlone DEF IsTrained

LEMMA IsSavedKept ==
    ASSUME Grows
    PROVE  \A a, x : IsSaved(a, x) => IsSaved(a, x)'
  BY DEF Grows, IsSaved, CheckpointAt

LEMMA OthersKeepSaves ==
    ASSUME Inv, Saves, Next, ~Save, Grows
    PROVE  Saves'
<1>. USE DEF store
<1>1. saved' = saved
  <2>1. CASE \/ Build \/ Prepare \/ PublishRecord \/ OpenTelemetry \/ NewRuntime \/ Validate
             \/ Train \/ PublishSample \/ CloseTelemetry \/ RegisterTelemetry
             \/ Extract \/ Load \/ Restore \/ ForceMismatch \/ Compare \/ PublishReport
             \/ Interrupt \/ FinalizeManifest
    BY <2>1 DEF Build, Prepare, PublishRecord, OpenTelemetry, NewRuntime, Validate, Train,
                PublishSample, CloseTelemetry, RegisterTelemetry, Extract, Load, Restore,
                ForceMismatch, Compare, PublishReport, Interrupt, FinalizeManifest
  <2>2. CASE \/ FinVerify \/ FinPublish \/ FinRename \/ FinAppend \/ FinComplete
             \/ FinMark \/ FinUnmark \/ FinCheck \/ FinInterrupted
             \/ \E a \in Attempts : Refinalize(a) \/ Reconcile(a) \/ LoseContent(a)
    BY <2>2 DEF FinVerify, FinPublish, FinRename, FinAppend, FinComplete, FinMark, FinUnmark,
                FinCheck, FinInterrupted, Refinalize, Reconcile, LoseContent
  <2>. QED  BY <2>1, <2>2 DEF Next
<1>2. \A i \in DOMAIN saved' : IsTrained(saved[i])'
  BY <1>1, IsTrainedKept DEF Saves, Grows
<1>3. ASSUME NEW a \in Attempts, NEW x \in bundles'[a] \cup Registered(a)', x.kind = "checkpoint"
      PROVE  IsSaved(a, x)'
  <2>1. PICK c, y : c \in Attempts /\ Adds(c, y) /\ (y.kind # "checkpoint" \/ y \in bundles[c])
    BY Additions
  <2>2. x \in bundles[a] \cup Registered(a)
    BY <1>3, <2>1, RegisteredGrows DEF Adds
  <2>. QED  BY <1>3, <2>2, IsSavedKept DEF Saves
<1>. QED  BY <1>1, <1>2, <1>3 DEF Saves

(* A checkpoint is what the runtime is after the updates done.              *)
LEMMA SaveSaves ==
    ASSUME Inv, Placed, Trains, Saves, Save, Grows
    PROVE  /\ Saves'
           /\ Proceed /\ pc = 11 => KeepsLast'
<1>. DEFINE x == Id("checkpoint", rt.counters.update)
            e == [a |-> cur, x |-> x, rt |-> rt]
<1>1. /\ cur \in Attempts /\ cfg \in Configs /\ pc \in 1 .. FinalStep[cur] /\ DOMAIN bundles = Attempts
  BY DEF Inv, Shape, Placed
<1>2. /\ At("save") /\ phase = "running" /\ loop = 0
      /\ \/ cur = "u0" /\ pc = 8
         \/ cur = "r0" /\ pc = 7
         \/ cur # "r0" /\ pc = 11
  BY <1>1, Where DEF Save, Placed, Looping
<1>3. IsTrained(e)
  <2>1. Builds /\ ValidationFits
    BY <1>1, <1>2 DEF Placed, Past, Before, Attempts
  <2>2. Updates \in 0 .. N /\ After(rt, Updates, Off(cur))
    <3>1. After(rt, Updates + loop, Off(cur) /\ pc > 8) /\ Updates \in 0 .. N
      BY <1>1, <1>2, <2>1, Sizes DEF Trains, Updates
    <3>2. Off(cur) /\ pc > 8 <=> Off(cur)
      BY <1>2 DEF Off
    <3>3. (Off(cur) /\ pc > 8) = Off(cur) /\ Updates + loop = Updates
      BY <1>2, <3>1, <3>2 DEF Off
    <3>. QED  BY <3>1, <3>3
  <2>3. rt.counters.update = Updates
    BY <2>2 DEF After
  <2>. QED  BY <1>1, <2>1, <2>2, <2>3 DEF IsTrained
<1>4. /\ x \in bundles'[cur] => saved' = Append(saved, e)
      /\ x \notin bundles'[cur] => saved' = saved
      /\ Adds(cur, x) /\ (Proceed => x \in bundles'[cur])
  <2>1. Publish(x)
    BY DEF Save
  <2>2. Proceed => x \in bundles'[cur]
    BY <1>1, <1>2, <2>1 DEF Publish, Proceed, Raise
  <2>. QED  BY <2>1, <2>2, PublishAdds DEF Save
<1>. HIDE DEF x, e
<1>5. saved' \in Seq(ToSet(saved')) /\ \A i \in DOMAIN saved' : saved'[i] \in ToSet(saved) \cup {e}
  BY <1>4, Appending DEF Saves, ToSet
<1>6. \A i \in DOMAIN saved' : IsTrained(saved[i])'
  <2>1. \A c \in ToSet(saved) \cup {e} : IsTrained(c)
    BY <1>3 DEF Saves, ToSet
  <2>2. \A c : IsTrained(c) => IsTrained(c)'
    BY IsTrainedKept DEF Grows
  <2>3. ASSUME NEW i \in DOMAIN saved' PROVE IsTrained(saved[i])'
    <3>1. PICK c \in ToSet(saved) \cup {e} : c = saved'[i]
      BY <1>5
    <3>. QED  BY <2>1, <2>2, <3>1
  <2>. QED  BY <2>3
<1>7. ASSUME x \in bundles'[cur]
      PROVE  \E i \in DOMAIN saved' : saved'[i].a = cur /\ saved'[i].x = x /\ saved'[i].rt = rt
  <2>1. saved' = Append(saved, e) /\ saved \in Seq(ToSet(saved))
    BY <1>4, <1>7 DEF Saves
  <2>2. e \in ToSet(saved')
    BY <2>1, Appending
  <2>3. e.a = cur /\ e.x = x /\ e.rt = rt
    BY DEF e
  <2>. QED  BY <2>2, <2>3 DEF ToSet
<1>8. ASSUME NEW a \in Attempts, NEW y \in bundles'[a] \cup Registered(a)', y.kind = "checkpoint"
      PROVE  IsSaved(a, y)'
  <2>1. CASE y \in bundles[a] \cup Registered(a)
    BY <1>8, <2>1, IsSavedKept DEF Saves
  <2>2. CASE a = cur /\ y = x /\ x \in bundles'[cur]
    BY <1>7, <2>2 DEF IsSaved, CheckpointAt
  <2>3. reg' = reg \/ x \in bundles'[cur]
    BY <1>1, <1>2 DEF Save, Publish, x
  <2>4. y \in bundles[a] \cup Registered(a) \/ (a = cur /\ y = x)
    BY <1>1, <1>4, <1>8, RegisteredGrows DEF Adds
  <2>5. reg' = reg => Registered(a)' = Registered(a)
    BY DEF Registered
  <2>. QED  BY <1>8, <2>1, <2>2, <2>3, <2>4, <2>5
<1>9. ASSUME Proceed, pc = 11 PROVE KeepsLast'
  <2>1. cur' = cur /\ N' = N /\ rt' = rt
    BY <1>9, CfgAlone DEF Proceed, Save, run
  <2>2. rt.counters.update = N
    <3>1. Updates = N /\ After(rt, Updates + loop, Off(cur) /\ pc > 8)
      BY <1>2, <1>9 DEF Updates, Trains
    <3>. QED  BY <1>1, <1>2, <3>1, Sizes DEF After
  <2>3. x = Id("checkpoint", N)
    BY <2>2 DEF x
  <2>4. PICK i \in DOMAIN saved' : saved'[i].a = cur /\ saved'[i].x = x /\ saved'[i].rt = rt
    BY <1>4, <1>7, <1>9
  <2>. QED  BY <2>1, <2>3, <2>4 DEF KeepsLast, CheckpointAt
<1>. QED  BY <1>5, <1>6, <1>8, <1>9 DEF Saves
----------------------------------------------------------------------------
(* Steps that leave the script where it is: what raises, the finalizations, *)
(* the operator and the losses.                                             *)
Pauses ==
    /\ UNCHANGED <<cur, pc, rt, loss, comp, report, loop, lineage, stream, passed>>
    /\ \/ phase' = phase
       \/ phase # "returned" /\ phase' = "over"
       \/ phase = "building" /\ phase' = "running" /\ Builds

(* The steps of a script that are taken to their end.                       *)
Proceeds ==
    /\ phase = "running" /\ fin = NoFin
    /\ Proceed /\ UNCHANGED made

LEMMA PausesKeep ==
    ASSUME Placed, Trains, KeepsLast, Compares, Reports, Streams, Lineages, Returns, Grows, Pauses
    PROVE  (Placed /\ Trains /\ KeepsLast /\ Compares /\ Reports /\ Streams /\ Lineages /\ Returns)'
<1>1. cfg' = cfg
  BY DEF Grows
<1>2. /\ Updates' = Updates /\ Rounds' = Rounds /\ Looping' = Looping /\ N' = N /\ K' = K
      /\ Builds' = Builds /\ ValidationFits' = ValidationFits /\ FinalStep[cur]' = FinalStep[cur]
      /\ \A a : \A n : Past(a, n)' = Past(a, n)
      /\ \A a : ParentOf(a)' = ParentOf(a) /\ Outcome(a)' = Outcome(a)
  BY <1>1, CfgAlone DEF Pauses, Updates, Rounds, Looping, Past, Before, ParentOf, Outcome
<1>3. Placed'
  BY <1>1, <1>2 DEF Placed, Pauses
<1>4. Trains'
  <2>1. (Off(cur) /\ pc > 8)' = (Off(cur) /\ pc > 8)
    BY <1>1 DEF Off, Pauses
  <2>. QED  BY <1>1, <1>2, <2>1, CfgAlone DEF Trains, Pauses
<1>5. KeepsLast'
  BY <1>2 DEF KeepsLast, CheckpointAt, Pauses, Grows
<1>6. Compares'
  <2>1. \A a \in Attempts : Compared(a) => Compared(a)'
    BY <1>1, <1>2, CfgAlone DEF Compared, CheckpointAt, Pauses, Grows
  <2>. QED  BY <1>2, <2>1 DEF Compares, Pauses, Attempts
<1>7. Reports'
  BY <1>2 DEF Reports, Pauses
<1>8. Streams' /\ Lineages'
  BY <1>2 DEF Streams, Lineages, Pauses
<1>9. Returns'
  BY DEF Returns, Pauses
<1>. QED  BY <1>3, <1>4, <1>5, <1>6, <1>7, <1>8, <1>9

(* A finalization that the gate started has ended: the next attempt begins, *)
(* or the gate returns.                                                     *)
Ends ==
    /\ FinCheck /\ fin.by = "gate" /\ Manifest \in bundles[fin.a] /\ fin' = NoFin
    /\ UNCHANGED <<rt, loss, comp, report, loop, lineage, stream, saved, made, bundles, reg, sealed>>
    /\ IF cur = "r1"
       THEN phase' = "returned" /\ passed' = (IF Passes THEN "yes" ELSE "no") /\ UNCHANGED <<cur, pc>>
       ELSE cur' = Successor[cur] /\ pc' = 1 /\ UNCHANGED <<phase, passed>>

LEMMA GiveUpPauses ==
    ASSUME Finalizes, fin # NoFin, GiveUp,
           UNCHANGED <<rt, loss, comp, report, loop, lineage, stream>>
    PROVE  Pauses
  BY DEF Finalizes, GiveUp, Pauses

LEMMA FinalizationPauses ==
    ASSUME Inv, Finalizes,
           \/ FinVerify \/ FinPublish \/ FinRename \/ FinAppend \/ FinComplete
           \/ FinMark \/ FinUnmark \/ FinCheck \/ FinInterrupted
    PROVE  Pauses \/ Ends
<1>0. \A stage : Finalizing(stage) /\ stage # "none" => fin # NoFin
  BY DEF Finalizing, NoFin
<1>1. ASSUME \E stage : Continue(stage), UNCHANGED <<rt, loss, comp, report, loop, lineage, stream>>
      PROVE  Pauses
  BY <1>1 DEF Continue, Pauses
<1>. USE DEF run, store
<1>2. CASE FinVerify
  BY <1>0, <1>1, <1>2, GiveUpPauses DEF FinVerify
<1>3. CASE FinPublish
  BY <1>0, <1>1, <1>3, GiveUpPauses DEF FinPublish
<1>4. CASE FinRename \/ FinAppend \/ FinUnmark
  BY <1>1, <1>4 DEF FinRename, FinAppend, FinUnmark
<1>5. CASE FinComplete
  BY <1>0, <1>1, <1>5, GiveUpPauses DEF FinComplete
<1>6. CASE FinMark
  BY <1>0, <1>1, <1>6, GiveUpPauses DEF FinMark
<1>7. CASE FinInterrupted
  BY <1>7, GiveUpPauses DEF FinInterrupted
<1>8. CASE FinCheck
  <2>1. CASE GiveUp
    BY <1>0, <1>8, <2>1, GiveUpPauses DEF FinCheck
  <2>2. CASE ~GiveUp /\ fin.by = "operator"
    BY <1>8, <2>2 DEF FinCheck, Pauses
  <2>3. CASE ~GiveUp /\ fin.by = "gate"
    BY <1>8, <2>3 DEF FinCheck, Ends
  <2>. QED  BY <1>0, <1>8, <2>1, <2>2, <2>3 DEF FinCheck, Finalizes, Finalizing
<1>. QED  BY <1>2, <1>3, <1>4, <1>5, <1>6, <1>7, <1>8

(* Every step pauses the script, takes a step of it, or ends an attempt.    *)
LEMMA Kinds ==
    ASSUME Inv, Finalizes, Next
    PROVE  Pauses \/ Proceeds \/ Ends \/ Train
<1>. USE DEF run, store, Proceed, Raise
<1>1. CASE Build
  BY <1>1 DEF Build, Pauses
<1>2. CASE \/ Prepare \/ OpenTelemetry \/ NewRuntime \/ CloseTelemetry \/ Extract
           \/ ForceMismatch \/ Compare
  BY <1>2 DEF Prepare, OpenTelemetry, NewRuntime, CloseTelemetry, Extract, ForceMismatch,
              Compare, At, Proceeds
<1>3. CASE PublishRecord \/ Save \/ PublishSample \/ RegisterTelemetry \/ PublishReport
  <2>1. /\ phase = "running" /\ fin = NoFin /\ UNCHANGED <<run, lineage, stream, made>>
        /\ \E x : Publish(x)
    BY <1>3 DEF PublishRecord, Save, PublishSample, RegisterTelemetry, PublishReport, At
  <2>2. Proceed \/ Raise
    BY <2>1 DEF Publish
  <2>3. CASE Proceed
    BY <2>1, <2>3 DEF Proceeds
  <2>4. CASE Raise
    BY <2>1, <2>4 DEF Pauses
  <2>. QED  BY <2>2, <2>3, <2>4
<1>4. CASE Validate
  BY <1>4 DEF Validate, At, Proceeds, Pauses
<1>5. CASE Load \/ Restore
  BY <1>5 DEF Load, Restore, At, Proceeds, Pauses
<1>6. CASE Interrupt
  BY <1>6 DEF Interrupt, Pauses
<1>7. CASE FinalizeManifest \/ \E a \in Attempts : Refinalize(a) \/ Reconcile(a) \/ LoseContent(a)
  BY <1>7 DEF FinalizeManifest, Refinalize, Reconcile, LoseContent, Pauses
<1>8. CASE \/ FinVerify \/ FinPublish \/ FinRename \/ FinAppend \/ FinComplete
           \/ FinMark \/ FinUnmark \/ FinCheck \/ FinInterrupted
  BY <1>8, FinalizationPauses
<1>. QED  BY <1>1, <1>2, <1>3, <1>4, <1>5, <1>6, <1>7, <1>8 DEF Next
----------------------------------------------------------------------------
(* The steps of the scripts.                                                *)

LEMMA ProceedPast ==
    ASSUME Placed, Proceeds
    PROVE  \A a : \A n \in Nat : Past(a, n)' <=> Past(a, n) \/ (cur = a /\ pc = n)
  BY DEF Placed, Proceeds, Proceed, Past, Before

(* What a step leaves alone stays as the script wants it, if the step is    *)
(* not the one the script gives for it.                                     *)
LEMMA ProceedKeeps ==
    ASSUME Inv, Placed, Grows, Proceeds, pc < FinalStep[cur]
    PROVE  /\ loop' = 0 /\ (cur = "u0" /\ pc = 6 => ValidationFits) => Placed'
           /\ Trains /\ UNCHANGED <<rt, loss, loop>> /\ pc # 5 /\ ~(pc = 10 /\ cur # "r0")
                /\ ~(cur = "r0" /\ pc = 6) /\ ~(cur = "u0" /\ pc = 7) /\ ~(cur = "r1" /\ pc = 7)
                /\ ~(cur = "r1" /\ pc = 8 /\ cfg.mismatch) /\ ~(cur # "r0" /\ pc = 9)
                => Trains'
           /\ KeepsLast /\ rt' = rt /\ ~(cur # "r0" /\ pc = 11) => KeepsLast'
           /\ Compares /\ comp' = comp /\ ~(cur = "u0" /\ pc = 15) /\ ~(cur = "r1" /\ pc = 13)
                => Compares'
           /\ Reports /\ UNCHANGED <<report, comp>> /\ ~(cur = "r1" /\ pc = 14) => Reports'
           /\ Streams /\ UNCHANGED <<stream, report>>
                /\ ~(cur = "u0" /\ pc = 13) /\ ~(cur = "r1" /\ pc = 15) => Streams'
           /\ Lineages /\ lineage' = lineage /\ pc # 1 => Lineages'
<1>1. /\ cfg' = cfg /\ cur' = cur /\ pc' = pc + 1 /\ phase' = "running" /\ pc \in Nat /\ pc > 0
      /\ cur \in Attempts /\ phase = "running" /\ FinalStep[cur] \in Nat
  BY DEF Grows, Proceeds, Proceed, Placed, Inv, Shape, FinalStep, Attempts
<1>2. /\ N' = N /\ K' = K /\ Builds' = Builds /\ ValidationFits' = ValidationFits
      /\ \A a : ParentOf(a)' = ParentOf(a)
  BY <1>1, CfgAlone DEF ParentOf
<1>3. \A a : \A n \in Nat : Past(a, n)' <=> Past(a, n) \/ (cur = a /\ pc = n)
  BY ProceedPast
<1>4. ASSUME loop' = 0, cur = "u0" /\ pc = 6 => ValidationFits PROVE Placed'
  BY <1>1, <1>2, <1>3, <1>4 DEF Placed
<1>5. ASSUME Trains, UNCHANGED <<rt, loss, loop>>, pc # 5, ~(pc = 10 /\ cur # "r0"),
             ~(cur = "r0" /\ pc = 6), ~(cur = "u0" /\ pc = 7), ~(cur = "r1" /\ pc = 7),
             ~(cur = "r1" /\ pc = 8 /\ cfg.mismatch), ~(cur # "r0" /\ pc = 9)
      PROVE  Trains'
  <2>1. Updates' = Updates \/ ~(pc' > 5)
    BY <1>1, <1>2, <1>5 DEF Updates, Attempts
  <2>2. (Off(cur) /\ pc > 8)' = (Off(cur) /\ pc > 8) \/ ~(pc' > 5)
    BY <1>1, <1>5 DEF Off
  <2>3. pc' > 5 => After(rt, Updates + loop, Off(cur) /\ pc > 8)'
    BY <1>1, <1>5, <2>1, <2>2, CfgAlone DEF Trains
  <2>. QED  BY <1>1, <1>5, <2>3, CfgAlone DEF Trains
<1>6. ASSUME KeepsLast, rt' = rt, ~(cur # "r0" /\ pc = 11) PROVE KeepsLast'
  BY <1>1, <1>2, <1>6 DEF KeepsLast, CheckpointAt, Grows
<1>7. ASSUME Compares, comp' = comp, ~(cur = "u0" /\ pc = 15), ~(cur = "r1" /\ pc = 13)
      PROVE  Compares'
  <2>1. \A a \in Attempts : Compared(a) => Compared(a)'
    BY <1>1, <1>2, <1>7, CfgAlone DEF Compared, CheckpointAt, Grows
  <2>. QED  BY <1>3, <1>7, <2>1 DEF Compares, Attempts
<1>8. ASSUME Reports, UNCHANGED <<report, comp>>, ~(cur = "r1" /\ pc = 14) PROVE Reports'
  BY <1>3, <1>8 DEF Reports
<1>9. ASSUME Streams, UNCHANGED <<stream, report>>,
             ~(cur = "u0" /\ pc = 13), ~(cur = "r1" /\ pc = 15)
      PROVE  Streams'
  BY <1>3, <1>9 DEF Streams, Outcome
<1>10. ASSUME Lineages, lineage' = lineage, pc # 1 PROVE Lineages'
  <2>1. \A a \in Attempts : Past(a, 1)' <=> Past(a, 1)
    BY <1>3, <1>10
  <2>. QED  BY <1>2, <1>10, <2>1 DEF Lineages
<1>. QED  BY <1>4, <1>5, <1>6, <1>7, <1>8, <1>9, <1>10

(* What the script and the training under way have come to.                 *)
Scripted ==
    Placed /\ Trains /\ KeepsLast /\ Compares /\ Reports /\ Streams /\ Lineages

(* The checkpoint r1 resumes from is the state of r0 after K updates.       *)
LEMMA ParentIsSaved ==
    ASSUME Inv, Placed, Saves, Lineages, Finishes, cur = "r1", pc > 1
    PROVE  /\ lineage["r1"].prepared /\ lineage["r1"].parent = <<[a |-> "r0", x |-> Id("checkpoint", K)]>>
           /\ Builds /\ Finished("r0") /\ Id("checkpoint", K) \in Registered("r0")
           /\ Content("r0", Id("checkpoint", K)) \in DOMAIN saved
           /\ After(saved[Content("r0", Id("checkpoint", K))].rt, K, FALSE)
<1>. DEFINE x == Id("checkpoint", K)
            j == Content("r0", x)
<1>1. lineage["r1"].prepared /\ lineage["r1"].parent = <<[a |-> "r0", x |-> x]>>
  BY DEF Lineages, Past, ParentOf, Attempts
<1>2. Builds /\ K \in Nat
  BY Sizes DEF Placed, Past, Before
<1>3. Finished("r0")
  BY DEF Finishes, Before, Attempts
<1>4. x \in Registered("r0")
  <2>1. PICK i \in DOMAIN made["r0"] : Manifests("r0") = {ManifestId(i)} /\ FromGate("r0", i)
    BY <1>3 DEF Finished
  <2>2. x \in made["r0"][i].refs
    BY <2>1 DEF FromGate, GateRecords
  <2>3. CoverageHolds("r0", made["r0"][i])
    <3>1. PICK k \in DOMAIN made["r0"] :
             Manifests("r0") = {ManifestId(k)} /\ CoverageHolds("r0", made["r0"][k])
      BY <1>3 DEF Inv, Sound, Ended, Finished, Attempts
    <3>2. ManifestId(i) = ManifestId(k)
      BY <2>1, <3>1
    <3>. QED  BY <3>1, <3>2, Injective
  <2>. QED  BY <2>2, <2>3 DEF CoverageHolds
<1>5. j \in DOMAIN saved /\ saved[j].a = "r0" /\ saved[j].x = x
  <2>1. IsSaved("r0", x)
    <3>1. x.kind = "checkpoint"
      BY DEF Id
    <3>. QED  BY <1>4, <3>1 DEF Saves, Attempts
  <2>2. \E i \in DOMAIN saved : saved[i].a = "r0" /\ saved[i].x = x
    BY <2>1 DEF IsSaved, CheckpointAt
  <2>. QED  BY <2>2 DEF Content
<1>6. After(saved[j].rt, K, FALSE)
  <2>1. PICK n \in 0 .. N : saved[j].x = Id("checkpoint", n) /\ After(saved[j].rt, n, Off("r0"))
    BY <1>5 DEF Saves, IsTrained
  <2>2. n = K /\ ~Off("r0") /\ Off("r0") \in BOOLEAN
    BY <1>5, <2>1 DEF Id, Off
  <2>. QED  BY <2>1, <2>2
<1>. QED  BY <1>1, <1>2, <1>3, <1>4, <1>5, <1>6

LEMMA PlainSteps ==
    ASSUME Inv, Scripted, Grows, Proceeds, PublishRecord \/ PublishSample \/ RegisterTelemetry \/ PublishReport \/ Load
    PROVE  Scripted'
<1>1. UNCHANGED <<rt, loss, comp, report, loop, lineage, stream>>
  BY DEF PublishRecord, PublishSample, RegisterTelemetry, PublishReport, Load, run, store
<1>2. cur \in Attempts /\ pc \in 1 .. FinalStep[cur]
  BY DEF Inv, Shape, Scripted, Placed
<1>3. \/ pc \in {2, 3} \/ (cur # "r0" /\ pc = 12) \/ pc \in {14, 16, 17}
      \/ (cur = "r0" /\ pc = 9) \/ (cur = "r1" /\ pc = 6)
  BY <1>2, Where DEF PublishRecord, PublishSample, RegisterTelemetry, PublishReport, Load
<1>4. ~(cur = "r1" /\ pc = 14) /\ pc < FinalStep[cur]
  BY <1>2, Where DEF PublishRecord, PublishSample, RegisterTelemetry, PublishReport, Load
<1>5. loop = 0
  BY <1>3, <1>4 DEF Scripted, Placed, Looping
<1>. QED  BY <1>1, <1>2, <1>3, <1>4, <1>5, ProceedKeeps DEF Scripted

(* The place of a step and what is known there.                             *)
LEMMA Standing ==
    ASSUME Inv, Scripted, Grows, Proceeds
    PROVE  /\ cur \in Attempts /\ pc \in 1 .. FinalStep[cur] /\ cfg \in Configs /\ cfg' = cfg
           /\ cur' = cur /\ pc' = pc + 1 /\ phase = "running" /\ Builds
           /\ Past("u0", 6) => ValidationFits
  BY DEF Inv, Shape, Scripted, Placed, Grows, Proceeds, Proceed

LEMMA PrepareStep ==
    ASSUME Inv, Scripted, Grows, Proceeds, Prepare
    PROVE  Scripted'
<1>1. /\ cur \in Attempts /\ pc = 1 /\ pc < FinalStep[cur] /\ loop = 0 /\ cfg' = cfg /\ cur' = cur
      /\ pc' = 2
  BY Standing, Where DEF Prepare, Scripted, Placed, Looping
<1>2. UNCHANGED <<rt, loss, comp, report, loop, stream>>
  BY DEF Prepare, run, store
<1>3. Lineages'
  <2>1. lineage' = [lineage EXCEPT ![cur] = [prepared |-> TRUE, parent |-> ParentOf(cur)]]
    BY DEF Prepare
  <2>2. \A a : ParentOf(a)' = ParentOf(a)
    BY <1>1, CfgAlone DEF ParentOf
  <2>3. \A a \in Attempts : Past(a, 1)' <=> Past(a, 1) \/ a = cur
    BY <1>1, ProceedPast DEF Scripted
  <2>. QED  BY <1>1, <2>1, <2>2, <2>3 DEF Scripted, Lineages
<1>. QED  BY <1>1, <1>2, <1>3, ProceedKeeps DEF Scripted

LEMMA OpenStep ==
    ASSUME Inv, Scripted, Grows, Proceeds, OpenTelemetry
    PROVE  Scripted'
<1>1. /\ cur \in Attempts /\ pc = 4 /\ pc < FinalStep[cur] /\ loop = 0 /\ cur' = cur
  BY Standing, Where DEF OpenTelemetry, Scripted, Placed, Looping
<1>2. UNCHANGED <<rt, loss, comp, report, loop, lineage>>
  BY DEF OpenTelemetry, run
<1>3. Streams'
  <2>1. stream' = [stream EXCEPT ![cur] = "open"]
    BY DEF OpenTelemetry
  <2>2. \A a \in Attempts : Past(a, 13)' => Past(a, 13) /\ a # cur
    BY <1>1, ProceedPast DEF Scripted, Past, Before, Attempts
  <2>3. Past("r1", 15)' => Past("r1", 15) /\ "r1" # cur
    BY <1>1, ProceedPast DEF Scripted, Past, Before, Attempts
  <2>. QED  BY <1>1, <1>2, <2>1, <2>2, <2>3 DEF Scripted, Streams, Attempts, Outcome
<1>. QED  BY <1>1, <1>2, <1>3, ProceedKeeps DEF Scripted

LEMMA RuntimeStep ==
    ASSUME Inv, Scripted, Grows, Proceeds, NewRuntime
    PROVE  Scripted'
<1>1. /\ cur \in Attempts /\ pc = 5 /\ pc < FinalStep[cur] /\ loop = 0 /\ cfg \in Configs
      /\ cfg' = cfg /\ cur' = cur /\ pc' = 6
  BY Standing, Where DEF NewRuntime, Scripted, Placed, Looping
<1>2. UNCHANGED <<comp, report, loop, lineage, stream>> /\ rt' = Fresh
  BY DEF NewRuntime, store
<1>3. Trains'
  <2>1. After(Fresh, 0, FALSE)'
    BY <1>1, AfterNone, CfgAlone
  <2>2. Updates' = 0 /\ loop' = 0 /\ ~(pc' > 8) /\ ~(pc' > 10)
    BY <1>1, <1>2 DEF Updates, Attempts
  <2>3. Fresh' = Fresh
    BY DEF Fresh, Start
  <2>4. (Updates + loop)' = 0 /\ (Off(cur) /\ pc > 8)' = FALSE
    BY <2>2
  <2>. QED  BY <1>2, <2>1, <2>2, <2>3, <2>4 DEF Trains
<1>4. KeepsLast'
  BY <1>1 DEF KeepsLast
<1>. QED  BY <1>1, <1>2, <1>3, <1>4, ProceedKeeps DEF Scripted

LEMMA ValidateStep ==
    ASSUME Inv, Scripted, Grows, Proceeds, Validate
    PROVE  Scripted'
<1>1. /\ cur \in Attempts /\ pc < FinalStep[cur] /\ loop = 0 /\ cfg' = cfg /\ cur' = cur /\ pc' = pc + 1
      /\ (cur = "u0" /\ pc = 6) \/ (cur # "r0" /\ pc = 10)
  BY Standing, Where DEF Validate, Scripted, Placed, Looping
<1>2. /\ UNCHANGED <<rt, comp, report, loop, lineage, stream>>
      /\ ValidationFits /\ loss' = LossOf(rt)
  BY DEF Validate, store, Proceeds, Proceed, Raise
<1>3. Trains'
  <2>1. Updates' = Updates
    BY <1>1, CfgAlone DEF Updates, Attempts
  <2>2. (Off(cur) /\ pc > 8)' = (Off(cur) /\ pc > 8)
    BY <1>1 DEF Off
  <2>3. After(rt, Updates + loop, Off(cur) /\ pc > 8)'
    BY <1>1, <1>2, <2>1, <2>2, CfgAlone DEF Scripted, Trains
  <2>4. loss' = LossOf(rt)'
    BY <1>1, <1>2, CfgAlone
  <2>. QED  BY <2>3, <2>4 DEF Trains
<1>. QED  BY <1>1, <1>2, <1>3, ProceedKeeps DEF Scripted

LEMMA SaveStep ==
    ASSUME Inv, Scripted, Saves, Grows, Proceeds, Save
    PROVE  Scripted'
<1>1. /\ cur \in Attempts /\ pc < FinalStep[cur] /\ loop = 0
      /\ (cur = "u0" /\ pc = 8) \/ (cur = "r0" /\ pc = 7) \/ (cur # "r0" /\ pc = 11)
  BY Standing, Where DEF Save, Scripted, Placed, Looping
<1>2. UNCHANGED <<rt, loss, comp, report, loop, lineage, stream>>
  BY DEF Save, run
<1>3. KeepsLast'
  <2>1. CASE pc = 11
    BY <2>1, SaveSaves DEF Scripted, Proceeds
  <2>2. CASE pc # 11
    BY <1>1, <1>2, <2>2, ProceedKeeps DEF Scripted
  <2>. QED  BY <2>1, <2>2
<1>. QED  BY <1>1, <1>2, <1>3, ProceedKeeps DEF Scripted

LEMMA CloseStep ==
    ASSUME Inv, Scripted, Grows, Proceeds, CloseTelemetry
    PROVE  Scripted'
<1>1. /\ cur \in Attempts /\ pc < FinalStep[cur] /\ loop = 0 /\ cur' = cur
      /\ \/ cur = "u0" /\ pc = 13
         \/ cur = "r0" /\ pc = 8
         \/ cur = "r1" /\ pc = 15
  BY Standing, Where DEF CloseTelemetry, Scripted, Placed, Looping
<1>2. UNCHANGED <<rt, loss, comp, report, loop, lineage>>
  BY DEF CloseTelemetry, run
<1>3. Streams'
  <2>1. stream' = [stream EXCEPT ![cur] = Outcome(cur)]
    BY DEF CloseTelemetry
  <2>2. /\ Past("u0", 13)' => Past("u0", 13) \/ cur = "u0"
        /\ Past("r1", 15)' => Past("r1", 15) \/ cur = "r1"
    BY <1>1, ProceedPast DEF Scripted
  <2>3. cur = "r0" => ~Past("r1", 15)
    BY DEF Past, Before
  <2>4. Outcome("r1")' = Outcome("r1") /\ Outcome("u0") = "normal" /\ Outcome("r0") = "interrupted"
        /\ Outcome("r1") \in {"normal", "failed"}
    BY <1>2 DEF Outcome
  <2>. QED  BY <1>1, <2>1, <2>2, <2>3, <2>4 DEF Scripted, Streams, Attempts
<1>. QED  BY <1>1, <1>2, <1>3, ProceedKeeps DEF Scripted

LEMMA TrainStep ==
    ASSUME Inv, Scripted, Grows, Train
    PROVE  Scripted' /\ phase' = phase /\ pc' >= pc /\ cur' = cur
<1>. DEFINE off == Off(cur) /\ pc > 8
<1>0. /\ cur \in Attempts /\ cfg \in Configs /\ pc \in 1 .. FinalStep[cur] /\ pc \in Nat
  BY DEF Inv, Shape, Scripted, Placed, FinalStep, Attempts
<1>1. /\ pc < FinalStep[cur] /\ cfg' = cfg /\ phase = "running" /\ fin = NoFin
      /\ Looping
      /\ At("train_K") => Rounds = K
      /\ ~At("train_K") => Rounds = N - K
  <2>1. /\ At("train_K") => (cur = "u0" /\ pc = 7) \/ (cur = "r0" /\ pc = 6)
        /\ At("train_N") => cur # "r0" /\ pc = 9
        /\ pc < FinalStep[cur] /\ phase = "running" /\ fin = NoFin
    BY <1>0, Where DEF Train
  <2>. QED  BY <2>1 DEF Looping, Rounds, Grows, Train
<1>2. /\ Builds /\ 0 < K /\ K < N /\ K \in Nat /\ N \in Nat
      /\ N' = N /\ K' = K /\ ValidationFits' = ValidationFits
  BY <1>0, <1>1, Sizes, CfgAlone DEF Scripted, Placed
<1>3. loop < Rounds /\ loop \in Nat /\ Rounds \in Nat
  BY <1>0, <1>1, <1>2 DEF Scripted, Placed
<1>4. rt' = Updated(rt) /\ UNCHANGED <<loss, comp, report, lineage, stream, saved, made>>
  BY DEF Train, store
<1>5. PICK r, n, o : r = rt' /\ n = Updates + loop + 1 /\ o = off
  OBVIOUS
<1>8. n \in Nat /\ After(r, n, o)'
  <2>1. Updates + loop \in Nat /\ Updates + loop < N /\ off \in BOOLEAN
    BY <1>0, <1>1, <1>2, <1>3 DEF Updates, Looping, Rounds, Attempts, Off
  <2>2. After(rt, Updates + loop, off)
    BY <1>0, <1>1 DEF Scripted, Trains, Looping
  <2>3. After(Updated(rt), Updates + loop + 1, off)
    BY <1>0, <2>1, <2>2, AfterNext
  <2>4. After(r, n, o)
    BY <1>4, <1>5, <2>3
  <2>. QED  BY <1>1, <1>5, <2>1, <2>4, CfgAlone
<1>6. CASE loop + 1 < Rounds
  <2>1. loop' = loop + 1 /\ UNCHANGED <<phase, cur, pc>>
    BY <1>1, <1>6 DEF Train
  <2>2. Updates' = Updates /\ Rounds' = Rounds /\ Looping' = Looping /\ off' = off
    BY <1>1, <2>1, CfgAlone DEF Updates, Rounds, Looping, Off
  <2>3. /\ \A a, k : Past(a, k)' = Past(a, k)
        /\ Builds' = Builds /\ N' = N /\ \A a : ParentOf(a)' = ParentOf(a)
    BY <1>1, <2>1, CfgAlone DEF Past, ParentOf
  <2>4. Placed'
    BY <1>1, <1>2, <1>3, <1>6, <2>1, <2>2, <2>3 DEF Scripted, Placed
  <2>5. Trains'
    <3>0. (Updates + loop)' = n /\ off' = o /\ rt' = r
      BY <1>0, <1>1, <1>2, <1>3, <1>5, <2>1, <2>2 DEF Updates
    <3>1. After(rt, Updates + loop, off)'
      BY <1>8, <3>0
    <3>2. ~(cur' # "r0" /\ pc' > 10)
      BY <1>1, <2>1 DEF Looping
    <3>. QED  BY <3>1, <3>2 DEF Trains
  <2>6. KeepsLast'
    BY <1>1, <2>1 DEF Looping, KeepsLast
  <2>7. Compares'
    <3>1. \A a \in Attempts : Compared(a) => Compared(a)'
      BY <1>1, <1>4, <2>3, CfgAlone DEF Compared, CheckpointAt, Grows
    <3>. QED  BY <1>4, <2>3, <3>1 DEF Scripted, Compares, Attempts
  <2>8. Reports' /\ Streams' /\ Lineages'
    BY <1>4, <2>3 DEF Scripted, Reports, Streams, Lineages, Outcome
  <2>. QED  BY <1>0, <2>1, <2>4, <2>5, <2>6, <2>7, <2>8 DEF Scripted
<1>7. CASE ~(loop + 1 < Rounds)
  <2>1. loop' = 0 /\ Proceed
    BY <1>1, <1>7 DEF Train
  <2>2. Proceeds
    BY <1>1, <1>4, <2>1 DEF Proceeds
  <2>3. loop + 1 = Rounds /\ cur' = cur /\ pc' = pc + 1
    BY <1>3, <1>7, <2>1 DEF Proceed
  <2>4. Trains'
    <3>1. Updates + Rounds = Updates' /\ Updates \in Nat /\ Updates' \in Nat
      BY <1>0, <1>1, <1>2, <2>3 DEF Updates, Rounds, Looping, Attempts
    <3>2. off' = off
      BY <1>1, <2>3 DEF Off, Looping
    <3>3. Updates' + loop' = n
      <4>1. n = Updates + Rounds
        BY <1>3, <1>5, <2>3, <3>1
      <4>. QED  BY <2>1, <3>1, <4>1
    <3>4. After(rt, Updates + loop, off)'
      BY <1>5, <1>8, <3>2, <3>3
    <3>5. ~(cur' # "r0" /\ pc' > 10)
      BY <1>1, <2>3 DEF Looping
    <3>. QED  BY <3>4, <3>5 DEF Trains
  <2>5. KeepsLast'
    BY <1>1, <2>3 DEF Looping, KeepsLast
  <2>6. ~(cur = "u0" /\ pc = 6) /\ ~(cur = "u0" /\ pc = 15) /\ ~(cur = "r1" /\ pc = 13)
        /\ ~(cur = "r1" /\ pc = 14) /\ ~(cur = "u0" /\ pc = 13) /\ ~(cur = "r1" /\ pc = 15) /\ pc # 1
    BY <1>1 DEF Looping
  <2>7. Placed' /\ Compares' /\ Reports' /\ Streams' /\ Lineages'
    BY <1>1, <1>4, <2>1, <2>2, <2>6, ProceedKeeps DEF Scripted
  <2>. QED  BY <1>0, <2>1, <2>3, <2>4, <2>5, <2>7 DEF Scripted, Proceed
<1>. QED  BY <1>6, <1>7

LEMMA ExtractStep ==
    ASSUME Inv, Scripted, Grows, Proceeds, Extract
    PROVE  Scripted'
<1>1. /\ cur \in Attempts /\ pc < FinalStep[cur] /\ loop = 0 /\ cur' = cur /\ cfg' = cfg
      /\ (cur = "u0" /\ pc = 15) \/ (cur = "r1" /\ pc = 13)
  BY Standing, Where DEF Extract, Scripted, Placed, Looping
<1>2. /\ UNCHANGED <<rt, loss, report, loop, lineage, stream>>
      /\ comp' = [comp EXCEPT ![cur] = <<Extracted(rt, loss)>>]
  BY DEF Extract, store
<1>3. Compares'
  <2>1. PICK i \in DOMAIN saved : CheckpointAt(cur, Id("checkpoint", N), i) /\ saved[i].rt = rt
    BY <1>1 DEF Scripted, KeepsLast
  <2>2. DOMAIN comp = Attempts /\ loss = LossOf(rt)
    BY <1>1 DEF Scripted, Compares, Trains
  <2>3. comp'[cur] = <<Extracted(saved[i].rt, LossOf(saved[i].rt))>>
    BY <1>1, <1>2, <2>1, <2>2
  <2>4. Compared(cur)'
    BY <1>1, <2>1, <2>3, CfgAlone DEF Compared, CheckpointAt, Grows
  <2>5. \A a \in Attempts \ {cur} : comp'[a] = comp[a] /\ (Compared(a) => Compared(a)')
    BY <1>1, <1>2, <2>2, CfgAlone DEF Compared, CheckpointAt, Grows
  <2>6. /\ Past("u0", 15)' <=> Past("u0", 15) \/ cur = "u0"
        /\ Past("r1", 13)' <=> Past("r1", 13) \/ cur = "r1"
    BY <1>1, ProceedPast DEF Scripted
  <2>. QED  BY <1>1, <1>2, <2>2, <2>4, <2>5, <2>6 DEF Scripted, Compares, Attempts
<1>4. Reports'
  <2>1. ~Past("r1", 14) /\ ~Past("r1", 14)'
    BY <1>1, ProceedPast DEF Scripted, Past, Before
  <2>. QED  BY <1>2, <2>1 DEF Scripted, Reports
<1>. QED  BY <1>1, <1>2, <1>3, <1>4, ProceedKeeps DEF Scripted

LEMMA CompareStep ==
    ASSUME Inv, Scripted, Grows, Proceeds, Compare
    PROVE  Scripted'
<1>1. /\ cur = "r1" /\ pc = 14 /\ pc < FinalStep[cur] /\ loop = 0 /\ cur' = cur /\ cfg' = cfg
  BY Standing, Where DEF Compare, Scripted, Placed, Looping
<1>2. /\ UNCHANGED <<rt, loss, comp, loop, lineage, stream>>
      /\ report' = Decision(Differences(comp["u0"][1], comp["r1"][1]))
  BY DEF Compare, store
<1>3. Past("r1", 14)' /\ ~Past("r1", 15)' /\ Past("u0", 13)
  BY <1>1, ProceedPast DEF Scripted, Past, Before
<1>4. Reports'
  BY <1>2, <1>3 DEF Reports
<1>5. Streams'
  BY <1>2, <1>3 DEF Scripted, Streams
<1>. QED  BY <1>1, <1>2, <1>4, <1>5, ProceedKeeps DEF Scripted

LEMMA RestoreStep ==
    ASSUME Inv, Scripted, Saves, Finishes, Grows, Proceeds, Restore
    PROVE  Scripted'
<1>1. /\ cur = "r1" /\ pc = 7 /\ pc < FinalStep[cur] /\ loop = 0 /\ cur' = cur /\ cfg' = cfg /\ pc' = 8
  BY Standing, Where DEF Restore, Scripted, Placed, Looping
<1>2. UNCHANGED <<loss, comp, report, loop, lineage, stream>>
  BY DEF Restore, store
<1>. DEFINE s == saved[Content("r0", Id("checkpoint", K))].rt
<1>3. After(s, K, FALSE) /\ lineage["r1"].parent = <<[a |-> "r0", x |-> Id("checkpoint", K)]>>
  <2>1. Placed /\ Lineages /\ pc > 1
    BY <1>1 DEF Scripted
  <2>. QED  BY <1>1, <2>1, ParentIsSaved
<1>4. rt' = s
  <2>1. rt' = Restored(rt, s)
    <3>1. lineage[cur].parent[1].a = "r0" /\ lineage[cur].parent[1].x = Id("checkpoint", K)
      BY <1>1, <1>3
    <3>. QED  BY <3>1 DEF Restore, Proceeds, Proceed, Raise
  <2>2. Shaped(rt) /\ Shaped(s)
    BY <1>1, <1>3 DEF Scripted, Trains, After
  <2>. QED  BY <2>1, <2>2, RestoredIsSaved
<1>. HIDE DEF s
<1>5. Trains'
  <2>1. (Updates + loop)' = K /\ (Off(cur) /\ pc > 8)' = FALSE /\ ~(pc' > 10)
    <3>1. K' = K /\ K \in Nat
      BY <1>1, Standing, Sizes, CfgAlone
    <3>. QED  BY <1>1, <1>2, <3>1 DEF Updates
  <2>2. After(s, K, FALSE) => \A r, n : r = s /\ n = K => After(r, n, FALSE)'
    BY <1>1, CfgAlone
  <2>. QED  BY <1>3, <1>4, <2>1, <2>2 DEF Trains
<1>6. KeepsLast'
  BY <1>1 DEF KeepsLast
<1>. QED  BY <1>1, <1>2, <1>5, <1>6, ProceedKeeps DEF Scripted

LEMMA PerturbStep ==
    ASSUME Inv, Scripted, Grows, Proceeds, ForceMismatch
    PROVE  Scripted'
<1>1. /\ cur = "r1" /\ pc = 8 /\ pc < FinalStep[cur] /\ loop = 0 /\ cur' = cur /\ cfg' = cfg /\ pc' = 9
  BY Standing, Where DEF ForceMismatch, Scripted, Placed, Looping
<1>2. UNCHANGED <<loss, comp, report, loop, lineage, stream>>
  BY DEF ForceMismatch, store
<1>3. Trains'
  <2>1. K \in Nat /\ K' = K /\ cfg.mismatch \in BOOLEAN
    BY <1>1, Standing, Sizes, CfgAlone
  <2>2. After(rt, K, FALSE)
    <3>1. PICK n, off : n = Updates + loop /\ off = (Off(cur) /\ pc > 8)
      OBVIOUS
    <3>2. n = K
      BY <1>1, <2>1, <3>1 DEF Updates
    <3>4. ~(pc > 8)
      BY <1>1
    <3>5. off = FALSE
      BY <3>1, <3>4
    <3>3. After(rt, n, off)
      BY <1>1, <3>1 DEF Scripted, Trains
    <3>. QED  BY <3>2, <3>3, <3>5
  <2>3. PICK r : r = rt'
    OBVIOUS
  <2>4. After(r, K, cfg.mismatch)
    BY <2>1, <2>2, <2>3, AfterPerturbation DEF ForceMismatch
  <2>5. (Updates + loop)' = K /\ (Off(cur) /\ pc > 8)' = cfg.mismatch /\ ~(pc' > 10)
    BY <1>1, <1>2, <2>1 DEF Updates, Off
  <2>6. \A n, off : n = K /\ off = cfg.mismatch => After(r, n, off)'
    BY <1>1, <2>4, CfgAlone
  <2>. QED  BY <2>3, <2>5, <2>6 DEF Trains
<1>4. KeepsLast'
  BY <1>1 DEF KeepsLast
<1>. QED  BY <1>1, <1>2, <1>3, <1>4, ProceedKeeps DEF Scripted

LEMMA EndsStep ==
    ASSUME Inv, Scripted, Finalizes, Grows, Ends
    PROVE  Scripted' /\ \A a \in Attempts : \A n \in Nat : Past(a, n) => Past(a, n)'
<1>1. /\ cur \in Attempts /\ cfg' = cfg /\ cfg \in Configs /\ phase = "running"
      /\ pc = FinalStep[cur] /\ loop = 0
  <2>1. phase = "running" /\ pc = FinalStep[cur]
    BY DEF Finalizes, Ends, FinCheck, Finalizing
  <2>2. cur \in Attempts /\ ~Looping
    BY <2>1 DEF Inv, Shape, Looping, FinalStep, Attempts
  <2>. QED  BY <2>1, <2>2 DEF Scripted, Placed, Grows
<1>2. /\ N' = N /\ K' = K /\ Builds' = Builds /\ ValidationFits' = ValidationFits
      /\ \A a : ParentOf(a)' = ParentOf(a)
      /\ \A a : Outcome(a)' = Outcome(a)
  BY <1>1, CfgAlone DEF ParentOf, Outcome, Ends
<1>3. CASE cur = "r1"
  <2>1. UNCHANGED <<cur, pc>> /\ phase' = "returned" /\ pc = 18
    BY <1>1, <1>3 DEF Ends, FinalStep
  <2>2. /\ \A a : \A n : Past(a, n)' = Past(a, n)
        /\ Updates' = Updates /\ Looping' = Looping /\ Rounds' = Rounds
        /\ (Off(cur) /\ pc > 8)' = (Off(cur) /\ pc > 8)
    BY <1>1, <1>2, <2>1 DEF Past, Updates, Looping, Rounds, Off
  <2>3. Placed'
    BY <1>1, <1>2, <1>3, <2>1, <2>2 DEF Scripted, Placed, Ends
  <2>4. Trains' /\ KeepsLast'
    BY <1>1, <1>2, <2>1, <2>2, CfgAlone DEF Scripted, Trains, KeepsLast, CheckpointAt, Ends
  <2>5. Compares'
    <3>1. \A a \in Attempts : Compared(a) => Compared(a)'
      BY <1>1, <1>2, CfgAlone DEF Compared, CheckpointAt, Ends
    <3>. QED  BY <2>2, <3>1 DEF Scripted, Compares, Attempts, Ends
  <2>6. Reports' /\ Streams' /\ Lineages'
    BY <1>2, <2>2 DEF Scripted, Reports, Streams, Lineages, Ends
  <2>. QED  BY <2>2, <2>3, <2>4, <2>5, <2>6 DEF Scripted
<1>4. CASE cur # "r1"
  <2>1. /\ cur' = Successor[cur] /\ pc' = 1 /\ phase' = phase
        /\ (cur = "u0" /\ cur' = "r0" /\ pc = 16) \/ (cur = "r0" /\ cur' = "r1" /\ pc = 10)
    BY <1>1, <1>4 DEF Ends, Successor, FinalStep, Attempts
  <2>2. \A a \in Attempts : \A n \in Nat : Past(a, n) => Past(a, n)'
    BY <2>1 DEF Past, Before, Attempts
  <2>3. /\ Past("u0", 1) /\ \A n \in {6, 13, 15} : Past("u0", n)
        /\ \A n \in {1, 13, 14, 15} : ~Past("r1", n) /\ ~Past("r1", n)'
        /\ Past("r0", 1)' <=> Past("r0", 1)
    BY <2>1 DEF Past, Before
  <2>4. \A n \in {1, 6, 13, 15} : Past("u0", n)'
    BY <2>2, <2>3 DEF Attempts
  <2>5. Placed'
    BY <1>1, <1>2, <2>1, <2>3 DEF Scripted, Placed, Ends, FinalStep
  <2>6. Trains' /\ KeepsLast'
    BY <2>1 DEF Trains, KeepsLast
  <2>7. Compares'
    <3>1. Compared("u0") => Compared("u0")'
      BY <1>1, <1>2, CfgAlone DEF Compared, CheckpointAt, Ends
    <3>. QED  BY <2>3, <2>4, <3>1 DEF Scripted, Compares, Ends
  <2>8. Reports' /\ Streams'
    BY <1>2, <2>3, <2>4 DEF Scripted, Reports, Streams, Ends
  <2>9. Lineages'
    <3>1. \A a \in Attempts : Past(a, 1)' <=> Past(a, 1)
      BY <2>3, <2>4 DEF Attempts
    <3>. QED  BY <1>2, <3>1 DEF Scripted, Lineages, Ends
  <2>. QED  BY <2>2, <2>5, <2>6, <2>7, <2>8, <2>9 DEF Scripted
<1>. QED  BY <1>3, <1>4

(* Every step keeps the script, and none goes back.                         *)
LEMMA ScriptedKept ==
    ASSUME Inv, Scripted, Saves, Finishes, Finalizes, Returns, Grows, Next
    PROVE  Scripted' /\ \A a \in Attempts : \A n \in Nat : Past(a, n) => Past(a, n)'
<1>1. CASE Train
  <2>1. Scripted' /\ pc' >= pc /\ cur' = cur /\ pc \in Nat /\ pc' \in Nat
    <3>1. Scripted' /\ pc' >= pc /\ cur' = cur /\ cur \in Attempts
      BY <1>1, TrainStep DEF Inv, Shape
    <3>. QED  BY <3>1 DEF Scripted, Placed, FinalStep, Attempts
  <2>. QED  BY <2>1 DEF Past, Before
<1>2. CASE Ends
  BY <1>2, EndsStep
<1>3. CASE Pauses
  <2>1. Scripted'
    BY <1>3, PausesKeep DEF Scripted
  <2>. QED  BY <1>3, <2>1 DEF Pauses, Past, Before
<1>4. CASE Proceeds /\ ~Train
  <2>1. \A a \in Attempts : \A n \in Nat : Past(a, n) => Past(a, n)'
    BY <1>4, ProceedPast DEF Scripted
  <2>2. CASE PublishRecord \/ PublishSample \/ RegisterTelemetry \/ PublishReport \/ Load
    BY <1>4, <2>1, <2>2, PlainSteps
  <2>3. CASE Prepare \/ OpenTelemetry \/ NewRuntime \/ Validate
    BY <1>4, <2>1, <2>3, PrepareStep, OpenStep, RuntimeStep, ValidateStep
  <2>4. CASE Save \/ CloseTelemetry \/ Extract
    BY <1>4, <2>1, <2>4, SaveStep, CloseStep, ExtractStep
  <2>5. CASE Compare \/ Restore \/ ForceMismatch
    BY <1>4, <2>1, <2>5, CompareStep, RestoreStep, PerturbStep
  <2>6. ~Build /\ ~Interrupt /\ ~FinalizeManifest /\ ~(\E a \in Attempts : Refinalize(a) \/ Reconcile(a))
    <3>1. phase = "running" /\ phase' = "running" /\ pc' # pc
      BY <1>4 DEF Proceeds, Proceed, Scripted, Placed
    <3>2. ~Build /\ ~Interrupt
      BY <3>1 DEF Build, Interrupt, Raise
    <3>3. ~FinalizeManifest
      BY <3>1 DEF FinalizeManifest
    <3>4. ~(\E a \in Attempts : Refinalize(a) \/ Reconcile(a))
      BY <3>1 DEF Refinalize, Reconcile
    <3>. QED  BY <3>2, <3>3, <3>4
  <2>7. CASE \E a \in Attempts : LoseContent(a)
    BY <1>4, <2>7 DEF LoseContent, Proceeds, Proceed, Scripted, Placed
  <2>8. CASE \/ FinVerify \/ FinPublish \/ FinRename \/ FinAppend \/ FinComplete
             \/ FinMark \/ FinUnmark \/ FinCheck \/ FinInterrupted
    BY <1>2, <1>3, <2>8, FinalizationPauses
  <2>. QED  BY <1>4, <2>1, <2>2, <2>3, <2>4, <2>5, <2>6, <2>7, <2>8 DEF Next
<1>. QED  BY <1>1, <1>2, <1>3, <1>4, Kinds

----------------------------------------------------------------------------
(* What manifests say, and the attempts that have ended.                    *)

LEMMA ReportKept ==
    ASSUME Inv, Scripted, Next
    PROVE  report' = report \/ (cur = "r1" /\ pc = 14)
<1>. USE DEF run
<1>1. CASE Compare
  <2>1. cur \in Attempts /\ pc \in 1 .. FinalStep[cur]
    BY DEF Inv, Shape, Scripted, Placed
  <2>. QED  BY <1>1, <2>1, Where DEF Compare
<1>2. CASE \/ Build \/ Prepare \/ PublishRecord \/ OpenTelemetry \/ NewRuntime \/ Validate
           \/ Train \/ Save \/ PublishSample \/ CloseTelemetry \/ RegisterTelemetry
           \/ Extract \/ Load \/ Restore \/ ForceMismatch \/ PublishReport
           \/ Interrupt \/ FinalizeManifest
  BY <1>2 DEF Build, Prepare, PublishRecord, OpenTelemetry, NewRuntime, Validate, Train, Save,
              PublishSample, CloseTelemetry, RegisterTelemetry, Extract, Load, Restore,
              ForceMismatch, PublishReport, Interrupt, FinalizeManifest
<1>3. CASE \/ FinVerify \/ FinPublish \/ FinRename \/ FinAppend \/ FinComplete
           \/ FinMark \/ FinUnmark \/ FinCheck \/ FinInterrupted
           \/ \E a \in Attempts : Refinalize(a) \/ Reconcile(a) \/ LoseContent(a)
  BY <1>3 DEF FinVerify, FinPublish, FinRename, FinAppend, FinComplete, FinMark, FinUnmark,
              FinCheck, FinInterrupted, Refinalize, Reconcile, LoseContent
<1>. QED  BY <1>1, <1>2, <1>3 DEF Next

LEMMA FinishedKept ==
    ASSUME Inv, Inv', Grows, NEW a \in Attempts, Finished(a), report' = report \/ a # "r1"
    PROVE  Finished(a)'
<1>1. PICK i \in DOMAIN made[a] : Manifests(a) = {ManifestId(i)} /\ FromGate(a, i)
  BY DEF Finished
<1>2. i \in DOMAIN made'[a] /\ made'[a][i] = made[a][i] /\ a \in sealed'
  BY <1>1 DEF Grows, Finished
<1>3. ManifestId(i) \in Manifests(a)'
  BY <1>1 DEF Manifests, Grows
<1>4. Manifests(a)' = {ManifestId(i)}
  BY <1>2, <1>3 DEF Inv, Sound, Ended
<1>5. TerminalStatus(a)' = TerminalStatus(a) /\ GateRecords(a)' = GateRecords(a)
  <2>1. N' = N /\ K' = K
    BY CfgAlone DEF Grows
  <2>. QED  BY <2>1 DEF TerminalStatus, GateRecords
<1>6. FromGate(a, i)'
  BY <1>1, <1>2, <1>5 DEF FromGate
<1>. QED  BY <1>2, <1>4, <1>6 DEF Finished

(* A manifest that says completed is one the gate generated at the end of   *)
(* an attempt; the operator's are not, unless they are the same bytes.      *)
LEMMA GeneratedKept ==
    ASSUME Inv, Scripted, Generated, Grows, Next,
           \A a \in Attempts : \A n \in Nat : Past(a, n) => Past(a, n)'
    PROVE  Generated'
<1>. DEFINE Backs(a, m) ==
       m.status = "completed" =>
           /\ a # "r0" /\ Past(a, FinalStep[a] - 1)
           /\ Id("checkpoint", N) \in m.refs
           /\ a = "r1" => report = "pass"
<1>1. \A a \in Attempts : FinalStep[a] \in Nat /\ FinalStep[a] - 1 \in Nat /\ (a = "r1" => FinalStep[a] = 18)
  BY DEF FinalStep, Attempts
<1>2. ASSUME NEW a \in Attempts, NEW m, Backs(a, m) PROVE Backs(a, m)'
  <2>1. N' = N
    BY CfgAlone DEF Grows
  <2>2. Past("r1", 17) => report' = report
    BY ReportKept DEF Past, Before
  <2>. QED  BY <1>1, <1>2, <2>1, <2>2
<1>3. ASSUME NEW a \in Attempts, NEW m \in ToSet(made[a]) PROVE Backs(a, m)'
  <2>1. PICK i \in DOMAIN made[a] : m = made[a][i]
    BY DEF ToSet
  <2>. QED  BY <1>2, <2>1 DEF Generated
<1>4. ASSUME NEW c \in Attempts, NEW m, NEW by, NEW seal, Generate(c, m, by, seal), Backs(c, m)
      PROVE  \A a \in Attempts : \A y \in ToSet(made'[a]) : Backs(a, y)'
  <2>1. DOMAIN made = Attempts /\ made[c] \in Seq(ToSet(made[c]))
    BY DEF Inv, Shape
  <2>2. made' = made \/ made' = [made EXCEPT ![c] = Append(@, m)]
    BY <1>4 DEF Generate
  <2>3. \A a \in Attempts : ToSet(made'[a]) \subseteq ToSet(made[a]) \cup (IF a = c THEN {m} ELSE {})
    <3>1. ASSUME NEW a \in Attempts PROVE made'[a] = made[a] \/ (a = c /\ made'[a] = Append(made[a], m))
      BY <2>1, <2>2
    <3>2. ToSet(Append(made[c], m)) = ToSet(made[c]) \cup {m}
      BY <2>1, Appending
    <3>. QED  BY <3>1, <3>2
  <2>4. Backs(c, m)'
    BY <1>2, <1>4
  <2>. HIDE DEF Backs
  <2>. QED  BY <1>3, <2>3, <2>4
<1>5. \A a \in Attempts : \A y \in ToSet(made'[a]) : Backs(a, y)'
  <2>1. CASE made' = made
    BY <1>3, <2>1
  <2>2. CASE FinalizeManifest
    <3>1. PICK m : /\ m.status = TerminalStatus(cur) /\ m.refs = GateRecords(cur)
                   /\ Generate(cur, m, "gate", TRUE)
      BY <2>2 DEF FinalizeManifest
    <3>2. cur \in Attempts /\ pc = FinalStep[cur]
      BY <2>2, Where DEF FinalizeManifest, Inv, Shape, Scripted, Placed
    <3>3. Backs(cur, m)
      <4>1. Past(cur, FinalStep[cur] - 1)
        BY <1>1, <3>2 DEF Past
      <4>2. m.status = "completed" => cur # "r0" /\ (cur = "r1" => report = "pass")
        BY <3>1 DEF TerminalStatus
      <4>3. cur # "r0" => Id("checkpoint", N) \in m.refs
        BY <3>1 DEF GateRecords
      <4>. QED  BY <4>1, <4>2, <4>3
    <3>. HIDE DEF Backs
    <3>. QED  BY <1>4, <3>1, <3>2, <3>3
  <2>3. CASE \E a \in Attempts : Refinalize(a)
    <3>1. PICK a \in Attempts : Refinalize(a)
      BY <2>3
    <3>2. PICK m, seal : /\ Generate(a, m, "operator", seal)
                         /\ m \in ToSet(made[a]) \/ m.status \in {"failed", "interrupted"}
      BY <3>1 DEF Refinalize
    <3>3. Backs(a, m)
      <4>1. CASE m \in ToSet(made[a])
        <5>1. PICK i \in DOMAIN made[a] : m = made[a][i]
          BY <4>1 DEF ToSet
        <5>. QED  BY <5>1 DEF Generated
      <4>2. CASE m.status \in {"failed", "interrupted"}
        BY <4>2
      <4>. QED  BY <3>2, <4>1, <4>2
    <3>. HIDE DEF Backs
    <3>. QED  BY <1>4, <3>2, <3>3
  <2>4. CASE ~FinalizeManifest /\ ~(\E a \in Attempts : Refinalize(a))
    BY <2>1, <2>4, MadeOnlyByGenerating
  <2>. QED  BY <2>2, <2>3, <2>4
<1>. QED  BY <1>5 DEF Generated, ToSet

LEMMA FinishesKept ==
    ASSUME Inv, Inv', Scripted, Finishes, Finalizes, Grows, Next
    PROVE  Finishes'
<1>1. cur \in Attempts /\ pc \in 1 .. FinalStep[cur] /\ (phase = "returned" => cur = "r1" /\ pc = 18)
  BY DEF Inv, Shape, Scripted, Placed
<1>2. ASSUME NEW a \in Attempts, Finished(a), report' = report \/ a # "r1" PROVE Finished(a)'
  BY <1>2, FinishedKept
<1>3. report' = report \/ (cur = "r1" /\ pc = 14)
  BY ReportKept
<1>4. CASE cur' = cur /\ (phase' = "returned" => phase = "returned")
  <2>1. ASSUME NEW a \in Attempts, Before(a, cur)' \/ phase' = "returned" PROVE Finished(a)'
    <3>1. Before(a, cur) \/ phase = "returned"
      BY <1>4, <2>1 DEF Before
    <3>2. report' = report \/ a # "r1"
      BY <1>1, <1>3, <3>1 DEF Before
    <3>. QED  BY <1>2, <3>1, <3>2 DEF Finishes
  <2>. QED  BY <2>1 DEF Finishes
<1>5. CASE Ends
  <2>0. PICK i : i = fin.id
    OBVIOUS
  <2>1. /\ fin.stage = "check" /\ fin.a = cur /\ FromGate(cur, i)
        /\ cur \in sealed /\ Manifest \in Registered(cur)
    BY <1>5, <2>0 DEF Ends, FinCheck, Finalizing, Finalizes
  <2>2. i \in DOMAIN made[cur] /\ Manifest = ManifestId(i)
    BY <2>0, <2>1, FinManifest DEF Inv, Course
  <2>3. Manifests(cur) = {ManifestId(i)}
    <3>1. ManifestId(i) \in Manifests(cur)
      BY <2>1, <2>2, Injective DEF Manifests
    <3>. QED  BY <1>1, <2>1, <3>1 DEF Inv, Sound, Ended
  <2>4. Finished(cur)
    BY <2>1, <2>2, <2>3 DEF Finished
  <2>5. report' = report
    BY <1>5 DEF Ends
  <2>6. \A a \in Attempts : Before(a, cur)' \/ phase' = "returned" => Before(a, cur) \/ a = cur
    BY <1>1, <1>5 DEF Ends, Successor, Before, Attempts, Finalizes
  <2>. QED  BY <1>2, <2>4, <2>5, <2>6 DEF Finishes
<1>6. CASE Pauses \/ Proceeds \/ Train
  <2>1. CASE Train
    BY <1>4, <2>1, TrainStep, <1>1
  <2>. QED  BY <1>4, <1>6, <2>1 DEF Pauses, Proceeds, Proceed
<1>. QED  BY <1>5, <1>6, Kinds

(* The finalization under way.                                              *)
LEMMA NoFinalization ==
    ASSUME fin' = NoFin
    PROVE  Finalizes'
  BY DEF Finalizes, NoFin

LEMMA Continuation ==
    ASSUME Inv, Finalizes, Grows, NEW stage, stage # "none", Continue(stage), fin.stage # "none",
           made' = made, report' = report,
           stage \in {"unmark", "check"} /\ fin.seal = TRUE =>
               fin.a \in sealed' /\ Manifest \in Registered(fin.a)
    PROVE  Finalizes'
<1>1. /\ fin'.stage = stage /\ fin'.a = fin.a /\ fin'.id = fin.id /\ Manifest' = Manifest
      /\ cur' = cur /\ fin'.by = fin.by /\ fin'.seal = fin.seal /\ UNCHANGED <<cfg, phase, pc>>
  BY Continues DEF Continue, Inv, Shape
<1>2. FinalStep' = FinalStep
  BY DEF FinalStep
<1>3. fin.a \in Attempts
  BY DEF Inv, Course
<1>4. FromGate(cur, fin.id) => FromGate(cur, fin.id)'
  <2>1. N' = N /\ K' = K
    BY CfgAlone DEF Grows
  <2>. QED  BY <1>1, <2>1 DEF FromGate, TerminalStatus, GateRecords
<1>5. Manifest \in Registered(fin.a) => Manifest' \in Registered(fin.a)'
  <2>1. PICK c : c = fin.a
    OBVIOUS
  <2>2. Registered(c) \subseteq Registered(c)'
    BY <1>3, <2>1 DEF Grows
  <2>. QED  BY <1>1, <2>1, <2>2
<1>. QED  BY <1>1, <1>2, <1>4, <1>5 DEF Finalizes

LEMMA FinalizesKept ==
    ASSUME Inv, Scripted, Finalizes, Grows, Next
    PROVE  Finalizes'
<1>1. CASE fin' = NoFin
  BY <1>1, NoFinalization
<1>2. CASE \/ Prepare \/ PublishRecord \/ OpenTelemetry \/ NewRuntime \/ Validate
           \/ Train \/ Save \/ PublishSample \/ CloseTelemetry \/ RegisterTelemetry
           \/ Extract \/ Load \/ Restore \/ ForceMismatch \/ Compare \/ PublishReport
           \/ Interrupt \/ \E a \in Attempts : Reconcile(a)
  <2>1. fin' = NoFin
    BY <1>2 DEF Prepare, PublishRecord, OpenTelemetry, NewRuntime, Validate, Train, Save,
                PublishSample, CloseTelemetry, RegisterTelemetry, Extract, Load, Restore,
                ForceMismatch, Compare, PublishReport, Interrupt, Reconcile, At, Publish,
                Proceed, Raise
  <2>. QED  BY <2>1, NoFinalization
<1>3. CASE Build
  <2>1. fin' = NoFin
    BY <1>3 DEF Build, Finalizes
  <2>. QED  BY <2>1, NoFinalization
<1>4. CASE \E a \in Attempts : LoseContent(a)
  <2>1. UNCHANGED <<cfg, phase, cur, pc, report, made, reg, sealed, fin>>
    BY <1>4 DEF LoseContent, run
  <2>2. N' = N /\ K' = K
    BY <2>1, CfgAlone
  <2>. QED  BY <2>1, <2>2 DEF Finalizes, FromGate, TerminalStatus, GateRecords, Manifest, Registered,
                              FinalStep
<1>5. CASE FinalizeManifest
  <2>1. PICK m : /\ m.status = TerminalStatus(cur) /\ m.refs = GateRecords(cur)
                 /\ Generate(cur, m, "gate", TRUE)
    BY <1>5 DEF FinalizeManifest
  <2>2. /\ cur \in Attempts /\ pc = FinalStep[cur] /\ phase = "running"
        /\ UNCHANGED <<cfg, phase, cur, pc, report>>
    BY <1>5, Where DEF FinalizeManifest, Inv, Shape, Scripted, Placed, run
  <2>3. m \in ToSet(made'[cur])
    <3>1. DOMAIN made = Attempts /\ made[cur] \in Seq(ToSet(made[cur]))
      BY DEF Inv, Shape
    <3>2. \/ made' = made /\ m \in ToSet(made[cur])
          \/ made' = [made EXCEPT ![cur] = Append(@, m)]
      BY <2>1 DEF Generate
    <3>. QED  BY <2>2, <3>1, <3>2, Appending
  <2>4. made'[cur][fin'.id] = m
    BY <2>1, <2>3 DEF Generate, ToSet
  <2>5. fin'.stage = "verify" /\ fin'.a = cur /\ fin'.by = "gate" /\ fin'.seal = TRUE
    BY <2>1 DEF Generate
  <2>6. FromGate(cur, fin.id)'
    <3>1. N' = N /\ K' = K
      BY <2>2, CfgAlone
    <3>. QED  BY <2>1, <2>2, <2>4, <3>1 DEF FromGate, TerminalStatus, GateRecords
  <2>. QED  BY <2>2, <2>5, <2>6 DEF Finalizes, FinalStep
<1>6. CASE \E a \in Attempts : Refinalize(a)
  <2>1. fin'.stage = "verify" /\ fin'.by = "operator" /\ phase' = "over"
    BY <1>6 DEF Refinalize, Generate
  <2>. QED  BY <2>1 DEF Finalizes
<1>7. ASSUME GiveUp PROVE Finalizes'
  BY <1>7, NoFinalization DEF GiveUp
<1>8. CASE FinCheck \/ FinInterrupted
  BY <1>1, <1>7, <1>8 DEF FinCheck, FinInterrupted
<1>9. CASE FinVerify \/ FinPublish \/ FinRename \/ FinAppend \/ FinComplete
  <2>1. made' = made /\ report' = report /\ fin.stage # "none"
    BY <1>9 DEF FinVerify, FinPublish, FinRename, FinAppend, FinComplete, Finalizing, run, store
  <2>2. \/ GiveUp
        \/ \E stage \in {"publish", "complete", "append", "rename", "mark"} : Continue(stage)
        \/ fin.seal # TRUE /\ Continue("check")
    <3>1. CASE FinVerify
      BY <3>1 DEF FinVerify
    <3>2. CASE FinPublish \/ FinRename
      BY <3>2 DEF FinPublish, FinRename
    <3>3. CASE FinAppend
      BY <3>3 DEF FinAppend
    <3>4. CASE FinComplete
      BY <3>4 DEF FinComplete
    <3>. QED  BY <1>9, <3>1, <3>2, <3>3, <3>4
  <2>. QED  BY <1>7, <2>1, <2>2, Continuation
<1>10. CASE FinMark
  <2>1. /\ made' = made /\ report' = report /\ fin.stage = "mark"
        /\ GiveUp \/ (Continue("unmark") /\ fin.a \in sealed')
    BY <1>10 DEF FinMark, Finalizing, run
  <2>2. Manifest \in Registered(fin.a)
    BY <2>1 DEF Inv, Course
  <2>. QED  BY <1>7, <2>1, <2>2, Continuation
<1>11. CASE FinUnmark
  <2>1. /\ made' = made /\ report' = report /\ fin.stage = "unmark" /\ Continue("check")
        /\ sealed' = sealed
    BY <1>11 DEF FinUnmark, Finalizing, run
  <2>2. fin.seal = TRUE => fin.a \in sealed /\ Manifest \in Registered(fin.a)
    BY <2>1 DEF Finalizes
  <2>. QED  BY <2>1, <2>2, Continuation
<1>. QED  BY <1>2, <1>3, <1>4, <1>5, <1>6, <1>8, <1>9, <1>10, <1>11 DEF Next

LEMMA ReturnsKept ==
    ASSUME Inv, Scripted, Finalizes, Returns, Grows, Next
    PROVE  Returns'
<1>1. CASE Pauses
  BY <1>1 DEF Returns, Pauses
<1>2. CASE Proceeds
  BY <1>2 DEF Returns, Proceeds, Proceed
<1>3. CASE Train
  <2>1. phase = "running" /\ passed' = passed
    BY <1>3 DEF Train, At, Proceed
  <2>. QED  BY <2>1 DEF Returns
<1>4. CASE Ends
  <2>1. phase = "running" /\ pc = FinalStep[cur] /\ report' = report
    BY <1>4 DEF Finalizes, Ends, FinCheck, Finalizing
  <2>2. cur = "r1" => report = Decision(Differences(comp["u0"][1], comp["r1"][1]))
    BY <2>1 DEF Scripted, Reports, Past, FinalStep
  <2>. QED  BY <1>4, <2>1, <2>2 DEF Returns, Ends, Passes, Decision
<1>. QED  BY <1>1, <1>2, <1>3, <1>4, Kinds

----------------------------------------------------------------------------
(* The invariant.                                                           *)
Limited == faults \in 0 .. MaxFaults /\ retries \in 0 .. MaxRetries

Complete == Scripted /\ Saves /\ Generated /\ Finishes /\ Finalizes /\ Returns /\ Limited

LEMMA LimitedKept ==
    ASSUME Limited, Next
    PROVE  Limited'
<1>. USE DEF NoFault, Fault, limits, Publish
<1>0. MaxFaults \in Nat /\ MaxRetries \in Nat
  BY GateConstants
<1>1. UNCHANGED limits \/ Fault \/ (retries < MaxRetries /\ retries' = retries + 1 /\ faults' = faults)
  <2>1. CASE \/ Build \/ Prepare \/ PublishRecord \/ OpenTelemetry \/ NewRuntime \/ Validate
             \/ Train \/ Save \/ PublishSample \/ CloseTelemetry \/ RegisterTelemetry
    BY <2>1 DEF Build, Prepare, PublishRecord, OpenTelemetry, NewRuntime, Validate, Train, Save,
                PublishSample, CloseTelemetry, RegisterTelemetry
  <2>2. CASE \/ Extract \/ Load \/ Restore \/ ForceMismatch \/ Compare \/ PublishReport
             \/ Interrupt \/ FinalizeManifest
    BY <2>2 DEF Extract, Load, Restore, ForceMismatch, Compare, PublishReport, Interrupt,
                FinalizeManifest
  <2>3. CASE \/ FinVerify \/ FinPublish \/ FinRename \/ FinAppend \/ FinComplete
             \/ FinMark \/ FinUnmark \/ FinCheck \/ FinInterrupted
             \/ \E a \in Attempts : Refinalize(a) \/ Reconcile(a) \/ LoseContent(a)
    BY <2>3 DEF FinVerify, FinPublish, FinRename, FinAppend, FinComplete, FinMark, FinUnmark,
                FinCheck, FinInterrupted, Refinalize, Reconcile, LoseContent
  <2>. QED  BY <2>1, <2>2, <2>3 DEF Next
<1>. QED  BY <1>0, <1>1 DEF Limited

LEMMA CompleteInitially ==
    ASSUME Init
    PROVE  Complete
<1>1. /\ phase = "building" /\ cur = "u0" /\ pc = 1 /\ cfg \in Configs /\ loop = 0 /\ fin = NoFin
      /\ saved = <<>> /\ comp = [a \in Attempts |-> <<>>] /\ report = "none" /\ passed = "none"
      /\ stream = [a \in Attempts |-> "none"] /\ lineage = [a \in Attempts |-> NotPrepared]
      /\ made = [a \in Attempts |-> <<>>] /\ bundles = [a \in Attempts |-> {}]
      /\ reg = [a \in Attempts |-> <<>>] /\ faults = 0 /\ retries = 0
  BY DEF Init
<1>2. ToSet(<<>>) = {} /\ <<>> \in Seq(ToSet(<<>>)) /\ DOMAIN <<>> = {}
  BY EmptySeq DEF ToSet
<1>3. \A a : \A n \in Nat \ {0} : ~Past(a, n)
  BY <1>1 DEF Past, Before
<1>4. Placed
  BY <1>1, <1>3 DEF Placed, FinalStep
<1>5. Trains /\ KeepsLast
  BY <1>1 DEF Trains, KeepsLast
<1>6. Compares /\ Reports /\ Streams /\ Lineages
  BY <1>1, <1>3 DEF Compares, Reports, Streams, Lineages, Attempts
<1>7. Saves
  BY <1>1, <1>2 DEF Saves, Registered
<1>8. Generated /\ Finishes
  BY <1>1, <1>2 DEF Generated, Finishes, Before
<1>9. Finalizes /\ Returns /\ Limited
  BY <1>1, GateConstants DEF Finalizes, Returns, Limited, NoFin
<1>. QED  BY <1>4, <1>5, <1>6, <1>7, <1>8, <1>9 DEF Complete, Scripted

LEMMA CompleteStuttering ==
    ASSUME Inv, Complete, UNCHANGED vars
    PROVE  Complete'
<1>1. /\ UNCHANGED <<cfg, phase, cur, pc, rt, loss, comp, report, loop, lineage, stream, saved>>
      /\ UNCHANGED <<made, bundles, reg, sealing, sealed, fin, passed, faults, retries>>
  BY DEF vars, run, store, limits
<1>2. Grows /\ Pauses
  BY <1>1 DEF Grows, Pauses, Registered
<1>3. Scripted' /\ Returns' /\ Limited'
  BY <1>1, <1>2, PausesKeep DEF Complete, Scripted, Limited
<1>4. Saves'
  BY <1>1, <1>2, IsTrainedKept, IsSavedKept DEF Complete, Saves, Registered
<1>5. N' = N /\ K' = K /\ \A a : \A n : Past(a, n)' = Past(a, n)
  BY <1>1, CfgAlone DEF Past
<1>6. Generated'
  BY <1>1, <1>5 DEF Complete, Generated, FinalStep
<1>7. \A a, i : FromGate(a, i)' = FromGate(a, i)
  BY <1>1, <1>5 DEF FromGate, TerminalStatus, GateRecords
<1>8. Finishes' /\ Finalizes'
  BY <1>1, <1>7 DEF Complete, Finishes, Finished, Finalizes, Manifest, Manifests, Registered, FinalStep
<1>. QED  BY <1>3, <1>4, <1>6, <1>8 DEF Complete

LEMMA CompleteKept ==
    ASSUME Inv, Inv', Complete, Next
    PROVE  Complete' /\ Grows
<1>. USE DEF Complete
<1>1. Grows
  BY Growing DEF Saves
<1>2. Scripted' /\ \A a \in Attempts : \A n \in Nat : Past(a, n) => Past(a, n)'
  BY <1>1, ScriptedKept
<1>3. Saves'
  BY <1>1, OthersKeepSaves, SaveSaves DEF Scripted
<1>4. Generated' /\ Finishes' /\ Finalizes' /\ Returns' /\ Limited'
  BY <1>1, <1>2, GeneratedKept, FinishesKept, FinalizesKept, ReturnsKept, LimitedKept
<1>. QED  BY <1>1, <1>2, <1>3, <1>4

(* The strengthening of the gate's own properties is invariant: what was    *)
(* trained, saved, compared and reported is what the place in the scripts   *)
(* says, whatever fails (runner.py).                                        *)
THEOREM Completeness == Spec => [](Inv /\ Complete)
<1>1. Init => Inv /\ Complete
  BY Initially, CompleteInitially
<1>2. Inv /\ Inv' /\ Complete /\ [Next]_vars => Complete'
  BY CompleteStuttering, CompleteKept
<1>. QED  BY <1>1, <1>2, Invariance, PTL DEF Spec

(* No step takes back a checkpoint, a registration, a manifest or a seal,   *)
(* and none changes the configuration (runner.py, artifacts/store.py).      *)
THEOREM NothingIsTakenBack == Spec => [][Grows]_vars
<1>1. Inv /\ Inv' /\ Complete /\ [Next]_vars => [Grows]_vars
  BY CompleteKept
<1>. QED  BY <1>1, Completeness, Invariance, PTL DEF Spec

(* The types, for any bounds.                                               *)
THEOREM Typing == Spec => []TypeOK
<1>1. ASSUME Inv, Complete PROVE TypeOK
  <2>1. /\ cfg \in Configs /\ phase \in {"building", "running", "over", "returned"}
        /\ cur \in Attempts /\ sealed \subseteq Attempts
        /\ passed \in {"none", "yes", "no"}
        /\ faults \in 0 .. MaxFaults /\ retries \in 0 .. MaxRetries
        /\ fin.stage # "none" => fin.id \in DOMAIN made[fin.a]
    BY <1>1 DEF Inv, Shape, Course, Complete, Scripted, Placed, Returns, Limited
  <2>2. pc \in DOMAIN Script(cur)
    <3>1. pc \in 1 .. FinalStep[cur]
      BY <1>1 DEF Complete, Scripted, Placed
    <3>. QED  BY <2>1, <3>1 DEF FinalStep, Script, Attempts
  <2>3. report \in {"none", "pass", "fail"}
    BY <1>1 DEF Complete, Scripted, Reports, Decision
  <2>4. ASSUME NEW a \in Attempts
        PROVE  /\ stream[a] \in {"none", "open", "normal", "interrupted", "failed"}
               /\ Len(sealing[a]) <= 1 /\ Len(comp[a]) <= 1
               /\ \A x \in Manifests(a) : x.n \in DOMAIN made[a]
    <3>1. stream[a] \in {"none", "open", "normal", "interrupted", "failed"}
      BY <1>1 DEF Complete, Scripted, Streams
    <3>2. sealing[a] = <<>> \/ \E x : sealing[a] = <<x>>
      BY <1>1 DEF Inv, Sound, Bound
    <3>3. comp[a] = <<>> \/ \E x : comp[a] = <<x>>
      BY <1>1 DEF Complete, Scripted, Compares, Compared, Attempts
    <3>4. \A x \in Manifests(a) : x.n \in DOMAIN made[a]
      BY <1>1, Injective DEF Inv, Sound, Known, Manifests
    <3>5. Len(sealing[a]) <= 1
      <4>1. CASE sealing[a] = <<>>
        BY <4>1
      <4>2. CASE \E x : sealing[a] = <<x>>
        <5>1. PICK x : sealing[a] = <<x>>
          BY <4>2
        <5>. QED  BY <5>1
      <4>. QED  BY <3>2, <4>1, <4>2
    <3>6. Len(comp[a]) <= 1
      <4>1. CASE comp[a] = <<>>
        BY <4>1
      <4>2. CASE \E x : comp[a] = <<x>>
        <5>1. PICK x : comp[a] = <<x>>
          BY <4>2
        <5>. QED  BY <5>1
      <4>. QED  BY <3>3, <4>1, <4>2
    <3>. QED  BY <3>1, <3>4, <3>5, <3>6
  <2>. QED  BY <2>1, <2>2, <2>3, <2>4 DEF TypeOK
<1>. QED  BY <1>1, Completeness, PTL

(* What is saved under the last update has made all of them.                *)
LEMMA LastIsTrained ==
    ASSUME Saves, NEW a, NEW off \in BOOLEAN, off <=> Off(a),
           NEW i \in DOMAIN saved, CheckpointAt(a, Id("checkpoint", N), i)
    PROVE  After(saved[i].rt, N, off) /\ saved[i].rt.counters.update = N
<1>1. PICK m \in 0 .. N : saved[i].x = Id("checkpoint", m) /\ After(saved[i].rt, m, Off(saved[i].a))
  BY DEF Saves, IsTrained
<1>2. m = N
  BY <1>1 DEF CheckpointAt, Id
<1>3. After(saved[i].rt, N, Off(a))
  BY <1>1, <1>2 DEF CheckpointAt
<1>4. off = Off(a)
  <2>1. Off(a) \in BOOLEAN
    BY DEF Off
  <2>. QED  BY <2>1
<1>. QED  BY <1>3, <1>4 DEF After

(* The two vectors that are compared differ exactly if a fault was injected.*)
LEMMA BothCompare ==
    ASSUME cfg \in Configs, Saves, Compared("u0"), Compared("r1")
    PROVE  /\ Differences(comp["u0"][1], comp["r1"][1]) = {} <=> ~cfg.mismatch
           /\ ~cfg.mismatch => comp["u0"] = comp["r1"]
<1>1. PICK i \in DOMAIN saved :
         /\ CheckpointAt("u0", Id("checkpoint", N), i)
         /\ comp["u0"] = <<Extracted(saved[i].rt, LossOf(saved[i].rt))>>
  BY DEF Compared
<1>2. PICK j \in DOMAIN saved :
         /\ CheckpointAt("r1", Id("checkpoint", N), j)
         /\ comp["r1"] = <<Extracted(saved[j].rt, LossOf(saved[j].rt))>>
  BY DEF Compared
<1>3. PICK r, s, off : r = saved[i].rt /\ s = saved[j].rt /\ off = cfg.mismatch
  OBVIOUS
<1>4. N \in Nat /\ off \in BOOLEAN
  BY <1>3, Sizes
<1>5. After(r, N, FALSE)
  <2>1. FALSE <=> Off("u0")
    BY DEF Off
  <2>. QED  BY <1>1, <1>3, <2>1, LastIsTrained
<1>6. /\ off => After(s, N, TRUE)
      /\ ~off => After(s, N, FALSE)
  <2>1. off <=> Off("r1")
    BY <1>3 DEF Off
  <2>2. After(s, N, off)
    BY <1>2, <1>3, <1>4, <2>1, LastIsTrained
  <2>. QED  BY <1>4, <2>2
<1>7. /\ Differences(Extracted(r, LossOf(r)), Extracted(s, LossOf(s))) = {} <=> ~off
      /\ ~off => r = s
  BY <1>4, <1>5, <1>6, Comparison
<1>8. comp["u0"] = <<Extracted(r, LossOf(r))>> /\ comp["r1"] = <<Extracted(s, LossOf(s))>>
  BY <1>1, <1>2, <1>3
<1>9. comp["u0"][1] = Extracted(r, LossOf(r)) /\ comp["r1"][1] = Extracted(s, LossOf(s))
  BY <1>8
<1>. QED  BY <1>3, <1>7, <1>8, <1>9

(* After N updates the resumed attempt is in the state of the uninterrupted *)
(* one, for any sizes, unless a fault was injected, and then the report     *)
(* says so (runner.py run_r1, comparison.py compare).                       *)
THEOREM Equivalence == Spec => []ResumeEqualsUninterrupted
<1>1. ASSUME Inv, Complete, comp["r1"] # <<>>
      PROVE  /\ Differences(comp["u0"][1], comp["r1"][1]) = {} <=> ~cfg.mismatch
             /\ report = "fail" => cfg.mismatch
             /\ report = "pass" => ~cfg.mismatch
  <2>1. Past("r1", 13) /\ Past("u0", 15)
    BY <1>1 DEF Complete, Scripted, Compares, Past, Before
  <2>2. Compared("u0") /\ Compared("r1")
    BY <1>1, <2>1 DEF Complete, Scripted, Compares
  <2>3. Differences(comp["u0"][1], comp["r1"][1]) = {} <=> ~cfg.mismatch
    BY <1>1, <2>2, BothCompare DEF Complete, Scripted, Placed
  <2>. QED  BY <1>1, <2>1, <2>3 DEF Complete, Scripted, Reports, Decision, Past
<1>2. Inv /\ Complete => ResumeEqualsUninterrupted
  BY <1>1 DEF ResumeEqualsUninterrupted
<1>. QED  BY <1>2, Completeness, PTL

(* No token of the validation window was trained on before any checkpoint,  *)
(* for any corpus, window and batch (data.py validation_tokens).            *)
THEOREM HeldOutHolds == Spec => []HeldOutIsNeverTrained
<1>1. ASSUME Complete, NEW i \in DOMAIN saved PROVE Trained(saved[i].rt) \cap HeldOut = {}
  <2>1. IsTrained(saved[i]) /\ cfg \in Configs
    BY <1>1 DEF Complete, Saves, Scripted, Placed
  <2>2. PICK n, off : After(saved[i].rt, n, off) /\ off \in BOOLEAN /\ ValidationFits
    <3>1. Off(saved[i].a) \in BOOLEAN
      BY <2>1, Sizes DEF Off
    <3>. QED  BY <2>1, <3>1 DEF IsTrained
  <2>. QED  BY <2>1, <2>2, HeldOutApart
<1>2. Complete => HeldOutIsNeverTrained
  BY <1>1 DEF HeldOutIsNeverTrained
<1>. QED  BY <1>2, Completeness, PTL

(* A manifest that says completed belongs to an attempt that trained to N,  *)
(* closed its stream, saved what was compared and, if it resumed, was found *)
(* equal (runner.py run_u0, run_r1).                                        *)
THEOREM Backing == Spec => []CompletedIsBacked
<1>1. ASSUME Inv, Complete, NEW a \in Attempts, NEW x \in Manifests(a),
             made[a][x.n].status = "completed"
      PROVE  /\ stream[a] = "normal"
             /\ \E i \in DOMAIN saved :
                   /\ saved[i].a = a /\ saved[i].x \in made[a][x.n].refs
                   /\ saved[i].rt.counters.update = N
                   /\ Extracted(saved[i].rt, comp[a][1].loss) = comp[a][1]
             /\ a = "r1" => Differences(comp["u0"][1], comp["r1"][1]) = {}
  <2>1. x.n \in DOMAIN made[a]
    BY <1>1, Injective DEF Inv, Sound, Known, Manifests
  <2>2. /\ a # "r0" /\ Past(a, FinalStep[a] - 1)
        /\ Id("checkpoint", N) \in made[a][x.n].refs
        /\ a = "r1" => report = "pass"
    BY <1>1, <2>1 DEF Complete, Generated
  <2>3. /\ a = "u0" => Past("u0", 13) /\ Past("u0", 15)
        /\ a = "r1" => Past("r1", 13) /\ Past("r1", 14) /\ Past("r1", 15)
    BY <1>1, <2>2 DEF Past, FinalStep, Complete, Scripted, Placed
  <2>4. stream[a] = "normal"
    BY <1>1, <2>2, <2>3 DEF Complete, Scripted, Streams, Outcome, Attempts
  <2>5. Compared(a)
    BY <1>1, <2>2, <2>3 DEF Complete, Scripted, Compares, Attempts
  <2>6. PICK i \in DOMAIN saved :
           /\ CheckpointAt(a, Id("checkpoint", N), i)
           /\ comp[a] = <<Extracted(saved[i].rt, LossOf(saved[i].rt))>>
    BY <2>5 DEF Compared
  <2>7. saved[i].rt.counters.update = N
    <3>1. PICK off \in BOOLEAN : off <=> Off(a)
      BY DEF Off
    <3>. QED  BY <1>1, <2>6, <3>1, LastIsTrained DEF Complete
  <2>8. comp[a][1].loss = LossOf(saved[i].rt)
    BY <2>6 DEF Extracted
  <2>9. a = "r1" => Differences(comp["u0"][1], comp["r1"][1]) = {}
    BY <1>1, <2>2, <2>3 DEF Complete, Scripted, Reports, Decision
  <2>. QED  BY <2>2, <2>4, <2>6, <2>7, <2>8, <2>9 DEF CheckpointAt
<1>2. Inv /\ Complete => CompletedIsBacked
  BY <1>1 DEF CompletedIsBacked
<1>. QED  BY <1>2, Completeness, PTL

(* The manifest of an attempt that has ended is the one the gate made.      *)
LEMMA FinishedManifest ==
    ASSUME NEW a, Finished(a)
    PROVE  a \in sealed /\ ManifestOf(a).status = TerminalStatus(a) /\ ManifestOf(a).refs = GateRecords(a)
<1>1. PICK i \in DOMAIN made[a] : Manifests(a) = {ManifestId(i)} /\ FromGate(a, i)
  BY DEF Finished
<1>2. (CHOOSE x \in Manifests(a) : TRUE).n = i
  BY <1>1, Injective
<1>. QED  BY <1>1, <1>2 DEF ManifestOf, FromGate, Finished

(* A resumed attempt descends from one that is sealed as interrupted and    *)
(* accounts for the checkpoint, taken after K updates (runner.py run_r1).   *)
THEOREM Lineage == Spec => []LineageIsSealed
<1>1. ASSUME Inv, Complete, lineage["r1"].prepared
      PROVE  \A i \in DOMAIN lineage["r1"].parent :
                LET parent == lineage["r1"].parent[i] IN
                /\ parent.a \in sealed
                /\ ManifestOf(parent.a).status = "interrupted"
                /\ parent.x \in ManifestOf(parent.a).refs
                /\ saved[Content(parent.a, parent.x)].rt.counters.update = K
  <2>1. Past("r1", 1)
    BY <1>1 DEF Complete, Scripted, Lineages, NotPrepared, Attempts
  <2>2. cur = "r1" /\ pc > 1
    BY <2>1 DEF Past, Before
  <2>3. /\ lineage["r1"].parent = <<[a |-> "r0", x |-> Id("checkpoint", K)]>>
        /\ Finished("r0") /\ After(saved[Content("r0", Id("checkpoint", K))].rt, K, FALSE)
    BY <1>1, <2>2, ParentIsSaved DEF Complete, Scripted
  <2>4. /\ "r0" \in sealed /\ ManifestOf("r0").status = "interrupted"
        /\ Id("checkpoint", K) \in ManifestOf("r0").refs
    BY <2>3, FinishedManifest DEF TerminalStatus, GateRecords
  <2>5. saved[Content("r0", Id("checkpoint", K))].rt.counters.update = K
    BY <2>3 DEF After
  <2>6. \A i \in DOMAIN lineage["r1"].parent :
           lineage["r1"].parent[i].a = "r0" /\ lineage["r1"].parent[i].x = Id("checkpoint", K)
    BY <2>3
  <2>. QED  BY <2>4, <2>5, <2>6
<1>2. Inv /\ Complete => LineageIsSealed
  BY <1>1 DEF LineageIsSealed
<1>. QED  BY <1>2, Completeness, PTL

(* A gate that passed has left three sealed attempts, of which the resumed  *)
(* one equals the uninterrupted one (run.py run_gate).                      *)
THEOREM Passing == Spec => []PassIsSealed
<1>1. ASSUME Inv, Complete, passed = "yes"
      PROVE  /\ sealed = Attempts
             /\ ManifestOf("u0").status = "completed" /\ ManifestOf("r1").status = "completed"
             /\ ManifestOf("r0").status = "interrupted"
             /\ comp["u0"] = comp["r1"]
  <2>1. phase = "returned" /\ report = "pass" /\ cur = "r1" /\ pc = 18 /\ cfg \in Configs
    BY <1>1 DEF Complete, Returns, Scripted, Placed
  <2>2. Finished("u0") /\ Finished("r0") /\ Finished("r1")
    BY <1>1, <2>1 DEF Complete, Finishes, Attempts
  <2>3. /\ ManifestOf("u0").status = "completed" /\ ManifestOf("r1").status = "completed"
        /\ ManifestOf("r0").status = "interrupted"
    BY <2>1, <2>2, FinishedManifest DEF TerminalStatus
  <2>4. sealed = Attempts
    BY <1>1, <2>2 DEF Finished, Inv, Shape, Attempts
  <2>5. Past("r1", 13) /\ Past("r1", 14) /\ Past("u0", 15)
    BY <2>1 DEF Past, Before
  <2>6. Compared("u0") /\ Compared("r1")
    BY <1>1, <2>5 DEF Complete, Scripted, Compares
  <2>7. Differences(comp["u0"][1], comp["r1"][1]) = {}
    BY <1>1, <2>1, <2>5 DEF Complete, Scripted, Reports, Decision
  <2>8. comp["u0"] = comp["r1"]
    BY <1>1, <2>1, <2>6, <2>7, BothCompare DEF Complete
  <2>. QED  BY <2>3, <2>4, <2>8
<1>2. Inv /\ Complete => PassIsSealed
  BY <1>1 DEF PassIsSealed
<1>. QED  BY <1>2, Completeness, PTL

=============================================================================
