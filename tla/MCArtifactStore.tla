--------------------------- MODULE MCArtifactStore ---------------------------
(***************************************************************************)
(* Instances of ArtifactStore: who calls what.                             *)
(***************************************************************************)
EXTENDS ArtifactStore, TLC

CONSTANTS a, b, m,      \* artifacts; m is the terminal manifest
          w, f, r       \* writer, finalizer, auditor

MCArtifacts == {a, b, m}
MCCategories == {"generated_sample", "experiment_manifest"}
MCCategoryOf == [x \in MCArtifacts |->
                    IF x = m THEN "experiment_manifest" ELSE "generated_sample"]

LOCAL Invoke(op, id) ==
    [op |-> op, id |-> id, seal |-> FALSE, retention |-> "retained"]
LOCAL PublishSealed(id) == [Invoke("publish", id) EXCEPT !.seal = TRUE]
LOCAL Retain(id, to) == [Invoke("update_retention", id) EXCEPT !.retention = to]

(* Publication, reconciliation and sealing in one attempt. *)
SealMenu ==
    (w :> {Invoke("publish", a), Invoke("register_existing", b)})
    @@ (f :> {PublishSealed(m), Invoke("publish", m), Invoke("complete_seal", m)})
    @@ (r :> {Invoke("reconcile_orphans", a), Invoke("seal_attempt", a)})

(* Two writers of retention states race with each other, with a publisher   *)
(* that re-creates a lost bundle and with registrations of the other kind.  *)
RetentionMenu ==
    (w :> {Invoke("publish", a), Invoke("register_external", a),
           Invoke("register_external", b)})
    @@ (f :> {Retain(a, "pending_transfer"), Retain(a, "externally_retained"),
              Retain(b, "expired")})
    @@ (r :> {Retain(a, "retained"), Retain(a, "missing"), Retain(b, "missing")})

(* A writer that may crash, a finalizer and an auditor that call again.     *)
RetryMenu ==
    (w :> {Invoke("publish", a), Invoke("register_external", b)})
    @@ (f :> {PublishSealed(m)})
    @@ (r :> {Invoke("reconcile_orphans", a)})
=============================================================================
