-------------------------- MODULE CheckpointStore --------------------------
(***************************************************************************)
(* CheckpointStore.save and load of checkpoints/store.py over the artifact *)
(* store: the archive travels through temporary files on its way in and    *)
(* out, and between any two steps of a load another process may change the *)
(* record's retention, remove the bundle or damage it.                     *)
(*                                                                         *)
(* The artifact store appears by what it promises: publish registers and   *)
(* returns a record, fails, or fails after it has registered; inspect and  *)
(* open_verified_content read the registry and the bundle as they are.     *)
(***************************************************************************)
EXTENDS CheckpointArchive

CONSTANTS
    Savers, Loaders, \* processes
    Identities,      \* identities of attempts: run, attempt, spec
    Given,           \* bound: identity, configuration and provenance a save may be given
    Captures(_),     \* bound: states a provider may hand to save, given the earlier ones
    Foreign(_),      \* archives another encoder makes of one of ours
    Damage(_),       \* what a fault makes of the bytes of a bundle
    Expected,        \* descriptors a restore may ask for
    MaxRecords,      \* bound: registered checkpoints
    MaxFaults        \* bound: system calls that fail, damages and losses

ASSUME StoreConstants ==
    /\ Savers \cap Loaders = {}
    /\ MaxRecords \in Nat /\ MaxFaults \in Nat
    /\ \A e \in Expected : DescriptorAccepted(e)

Procs == Savers \cup Loaders
Lost == [members |-> <<>>, zeros |-> 0, trailing |-> FALSE]
Idle == [step |-> "idle"]

(* What a temporary file holds: an archive being saved, the copy of one     *)
(* being loaded, or the tensor of that name.                                *)
SaveFile == <<3, 0>>
CopyFile == <<4, 0>>

Acceptable == {"retained", "pending_transfer", "externally_retained"}

VARIABLES
    records,   \* registered checkpoints, in the order of registration
    content,   \* bytes of each one's bundle, Lost when it is gone
    origin,    \* what each was made of: what a save was given, or nothing
    returned,  \* ids whose save has returned
    job,       \* the call each process is in
    temps,     \* temporary files: <<process, what>>
    kept,      \* temporary files whose removal has failed or was not tried
    handles,   \* archives load has returned
    faults

vars == <<records, content, origin, returned, job, temps, kept, handles, faults>>
disk == <<records, content, origin>>

Init ==
    /\ records = <<>> /\ content = <<>> /\ origin = <<>>
    /\ returned = {} /\ temps = {} /\ kept = {} /\ handles = {}
    /\ job = [p \in Procs |-> Idle]
    /\ faults = 0

Fault == faults < MaxFaults /\ faults' = faults + 1
NoFault == UNCHANGED faults

(* The bound on registered checkpoints, counting the saves under way.       *)
Room == Len(records) + Cardinality({p \in Procs : job[p].step \in {"stream", "publish"}})
            < MaxRecords

Goto(p, step) == job' = [job EXCEPT ![p] = [@ EXCEPT !.step = step]]
Return(p) == job' = [job EXCEPT ![p] = Idle]

(* unlink: the name is gone, or the error is ignored and the file stays.    *)
Unlink(files) ==
    /\ temps' = temps \ files
    /\ \/ NoFault /\ UNCHANGED kept
       \/ files # {} /\ Fault /\ kept' = kept \cup files

----------------------------------------------------------------------------
(* save: the identity the caller names, and the one its store is bound to.  *)
(* The provenance is an argument of its own and is compared with neither.   *)

SaveBegin(p) ==
    /\ job[p].step = "idle"
    /\ Room
    /\ \E c \in Captures(origin), by \in Given, store \in Identities :
          /\ CaptureAccepted(c) /\ Encodable(c)
          /\ \E parent \in {<<>>} \cup {<<id>> : id \in returned} :
                job' = [job EXCEPT ![p] =
                    [step |-> "stream", c |-> c, by |-> by, store |-> store,
                     parent |-> parent, id |-> 0, raised |-> FALSE]]
          /\ temps' = temps \cup {<<p, SaveFile>>}
    /\ UNCHANGED <<disk, returned, kept, handles, faults>>

SaveStream(p) ==
    /\ job[p].step = "stream"
    /\ \/ NoFault /\ Goto(p, "publish")
       \/ Fault /\ job' = [job EXCEPT ![p].step = "unlink", ![p].raised = TRUE]
    /\ UNCHANGED <<disk, returned, temps, kept, handles>>

NewRecord(file, store, parent) ==
    [run |-> store.run, attempt |-> store.attempt, spec |-> store.spec,
     parent |-> parent, file |-> file, retention |-> "retained"]

(* Mutant of Register: the registry is written before the bundle is there.  *)
Register_NoBundle(file, store, parent, made) ==
    /\ records' = Append(records, NewRecord(file, store, parent))
    /\ origin' = Append(origin, made)
    /\ UNCHANGED content

Register(file, store, parent, made) ==
    /\ records' = Append(records, NewRecord(file, store, parent))
    /\ content' = Append(content, file)
    /\ origin' = Append(origin, made)

SavePublish(p) ==
    LET j == job[p] IN
    /\ j.step = "publish"
    /\ \/ /\ Register(Encode(j.c, j.by, j.parent), j.store, j.parent, <<j.c, j.by>>)
          /\ \/ /\ NoFault
                /\ job' = [job EXCEPT ![p].step = "unlink", ![p].id = Len(records) + 1]
             \/ /\ Fault
                /\ job' = [job EXCEPT ![p].step = "unlink", ![p].raised = TRUE]
       \/ /\ Fault
          /\ job' = [job EXCEPT ![p].step = "unlink", ![p].raised = TRUE]
          /\ UNCHANGED disk
    /\ UNCHANGED <<returned, temps, kept, handles>>

SaveUnlink(p) ==
    /\ job[p].step = "unlink"
    /\ Unlink({<<p, SaveFile>>})
    /\ IF job[p].raised THEN Return(p) ELSE Goto(p, "verify")
    /\ UNCHANGED <<disk, returned, handles>>

(* Mutant of RecordVerified: the identity of the record is not compared.    *)
RecordVerified_AnyIdentity(record, j) ==
    record.file = Encode(j.c, j.by, j.parent) /\ record.parent = j.parent

(* The record is compared with the archive and with the caller's identity.  *)
RecordVerified(record, j) ==
    /\ record.file = Encode(j.c, j.by, j.parent)
    /\ record.parent = j.parent
    /\ record.run = j.by.run /\ record.attempt = j.by.attempt /\ record.spec = j.by.spec

SaveVerify(p) ==
    /\ job[p].step = "verify"
    /\ returned' = IF RecordVerified(records[job[p].id], job[p])
                   THEN returned \cup {job[p].id} ELSE returned
    /\ Return(p)
    /\ UNCHANGED <<disk, temps, kept, handles, faults>>

----------------------------------------------------------------------------
(* load, on behalf of an attempt that resumes from the checkpoint.          *)

Loadable(record) == record.retention \in Acceptable

IdentityBinds(record, e) == record.run = e.run /\ record.spec = e.spec

(* A new attempt whose lineage names the source exactly.                    *)
LineageBinds(id, record, e, lineage) ==
    /\ e.attempt # record.attempt
    /\ lineage = <<[run |-> record.run, attempt |-> record.attempt, id |-> id]>>

(* What an attempt may name as its parent: nothing, or a checkpoint.        *)
Lineages == {<<>>} \cup {<<[run |-> r.run, attempt |-> r.attempt, id |-> id]>> :
                            r \in Identities, id \in DOMAIN records}

(* Bound: a process holds one loaded archive at a time.                     *)
LoadInspect(p) ==
    /\ job[p].step = "idle"
    /\ \A h \in handles : h.by # p
    /\ \E id \in DOMAIN records, e \in Identities, lineage \in Lineages :
          /\ Loadable(records[id]) /\ IdentityBinds(records[id], e)
          /\ LineageBinds(id, records[id], e, lineage)
          /\ job' = [job EXCEPT ![p] =
                [step |-> "resolve", id |-> id, record |-> records[id], by |-> e,
                 parent |-> lineage[1], file |-> Lost]]
    /\ UNCHANGED <<disk, returned, temps, kept, handles, faults>>

(* resolve_parent reads the registry again.                                 *)
Resolves(parent) ==
    LET record == records[parent.id] IN
    /\ parent.run = record.run /\ parent.attempt = record.attempt
    /\ record.retention \in Acceptable

LoadResolve(p) ==
    /\ job[p].step = "resolve"
    /\ IF Resolves(job[p].parent) THEN Goto(p, "open") ELSE Return(p)
    /\ UNCHANGED <<disk, returned, temps, kept, handles, faults>>

LoadOpen(p) ==
    /\ job[p].step = "open"
    /\ IF content[job[p].id] = Lost THEN Return(p)
       ELSE job' = [job EXCEPT ![p].step = "read", ![p].file = content[job[p].id]]
    /\ UNCHANGED <<disk, returned, temps, kept, handles, faults>>

(* The open descriptor sees a damage done in place, not a removal.  An      *)
(* archive beyond the limit is not read; a large one is copied to a file of *)
(* its own as it is hashed.                                                 *)
Large(file) == Size(file) > MaxInMemory

LoadRead(p) ==
    LET now == IF content[job[p].id] = Lost THEN job[p].file ELSE content[job[p].id] IN
    /\ job[p].step = "read"
    /\ IF ~SizeAccepted(now) \/ Size(now) # Size(job[p].record.file)
       THEN Return(p) /\ NoFault /\ UNCHANGED temps
       ELSE \/ /\ NoFault
               /\ job' = [job EXCEPT ![p].step = "parse", ![p].file = now]
               /\ temps' = IF Large(now) THEN temps \cup {<<p, CopyFile>>} ELSE temps
            \/ Large(now) /\ Fault /\ Return(p) /\ UNCHANGED temps
    /\ UNCHANGED <<disk, returned, kept, handles>>

SpillsOf(p, file) == IF Large(file) THEN {<<p, t>> : t \in Spilled(file)} ELSE {}

(* The parser removes what it has spilled when it fails itself; the check   *)
(* of the first member behind it does not.                                  *)
LoadParse(p) ==
    LET file == job[p].file IN
    /\ job[p].step = "parse"
    /\ IF file # job[p].record.file \/ ~Parses(file)
       THEN Goto(p, "drop") /\ UNCHANGED <<temps, kept>>
       ELSE IF ~ManifestFirst(file)
       THEN Goto(p, "drop") /\ kept' = kept \cup SpillsOf(p, file) /\ UNCHANGED temps
       ELSE Goto(p, "bind") /\ temps' = temps \cup SpillsOf(p, file) /\ UNCHANGED kept
    /\ UNCHANGED <<disk, returned, handles, faults>>

(* Everything read is checked against the record inspected at the start; on *)
(* success the handle owns the spilled tensors.                             *)
LoadBind(p) ==
    LET j == job[p] IN
    /\ j.step = "bind"
    /\ Goto(p, "drop")
    /\ IF Loads(j.file, j.record)
       THEN /\ handles' = handles \cup {[by |-> p, id |-> j.id, file |-> j.file,
                                         spills |-> SpillsOf(p, j.file)]}
            /\ NoFault /\ UNCHANGED <<temps, kept>>
       ELSE Unlink(SpillsOf(p, j.file)) /\ UNCHANGED handles
    /\ UNCHANGED <<disk, returned>>

LoadDrop(p) ==
    /\ job[p].step = "drop"
    /\ Unlink({<<p, CopyFile>>} \cap temps)
    /\ Return(p)
    /\ UNCHANGED <<disk, returned, handles>>

(* Mutant of CleanUp: what could not be removed is forgotten.               *)
CleanUp_Forgets(h) ==
    /\ job[h.by].step = "idle"
    /\ handles' = handles \ {h}
    /\ \/ NoFault /\ temps' = temps \ h.spills
       \/ h.spills # {} /\ Fault /\ UNCHANGED temps
    /\ UNCHANGED <<disk, returned, job, kept>>

(* cleanup_temp_files keeps what it could not remove for the next call.     *)
CleanUp(h) ==
    /\ job[h.by].step = "idle"
    /\ \/ NoFault /\ handles' = handles \ {h} /\ temps' = temps \ h.spills
       \/ h.spills # {} /\ Fault /\ UNCHANGED <<handles, temps>>
    /\ UNCHANGED <<disk, returned, job, kept>>

----------------------------------------------------------------------------
(* Other processes and the file system.                                     *)

(* Bound: before any save only.                                             *)
PublishForeign ==
    /\ records = <<>> /\ \A p \in Savers : job[p] = Idle
    /\ \E c \in Captures(origin), by \in Given :
          /\ CaptureAccepted(c) /\ Encodable(c)
          /\ \E file \in Foreign(Encode(c, by, <<>>)) : Register(file, by, <<>>, <<>>)
    /\ UNCHANGED <<returned, job, temps, kept, handles, faults>>

ChangeRetention ==
    /\ \E id \in DOMAIN records, r \in {"pending_transfer", "missing"} :
          /\ records[id].retention = "retained"
          /\ records' = [records EXCEPT ![id].retention = r]
    /\ Fault
    /\ UNCHANGED <<content, origin, returned, job, temps, kept, handles>>

LoseOrDamage ==
    /\ \E id \in DOMAIN records : \E f \in {Lost} \cup Damage(records[id].file) :
          content' = [content EXCEPT ![id] = f]
    /\ Fault
    /\ UNCHANGED <<records, origin, returned, job, temps, kept, handles>>

Next ==
    \/ \E p \in Savers : \/ SaveBegin(p) \/ SaveStream(p) \/ SavePublish(p)
                         \/ SaveUnlink(p) \/ SaveVerify(p)
    \/ \E p \in Loaders : \/ LoadInspect(p) \/ LoadResolve(p) \/ LoadOpen(p)
                          \/ LoadRead(p) \/ LoadParse(p) \/ LoadBind(p) \/ LoadDrop(p)
    \/ \E h \in handles : CleanUp(h)
    \/ PublishForeign \/ ChangeRetention \/ LoseOrDamage

Spec == Init /\ [][Next]_vars

----------------------------------------------------------------------------
TypeOK ==
    /\ Len(content) = Len(records) /\ Len(origin) = Len(records)
    /\ returned \subseteq DOMAIN records
    /\ \A p \in Procs : job[p].step \in
          {"idle", "stream", "publish", "unlink", "verify",
           "resolve", "open", "read", "parse", "bind", "drop"}
    /\ \A t \in temps : t[1] \in Procs /\ t[2][1] \in {2, 3, 4}
    /\ \A h \in handles : h.id \in DOMAIN records
    /\ faults \in 0 .. MaxFaults

(* The archives of another encoder break a rule of the format: load refuses *)
(* each of them as it is registered.                                        *)
ForeignIsRefused ==
    \A c \in Captures(<<>>), by \in Given :
        CaptureAccepted(c) /\ Encodable(c) =>
            \A file \in Foreign(Encode(c, by, <<>>)) : ~Loads(file, NewRecord(file, by, <<>>))

(* What load gives back is what was saved: an archive a save has published  *)
(* for the attempt of the record, every part of which restores to the part  *)
(* that was captured, whatever has happened to the bundle in between and    *)
(* whatever else has been registered as a checkpoint (store.py load).       *)
LoadedIsGenuine ==
    \A h \in handles :
        /\ origin[h.id] # <<>>
        /\ h.file = records[h.id].file
        /\ RestoredState(h.file) = StateOf(origin[h.id][1])

(* The names a component lists: those of its tensors and all tied to them.  *)
Listed(c, ts) == UNION {Group(c, n) : n \in Names(ts)}

(* A role whose listed names are not the declared ones (a tie of a          *)
(* parameter with a buffer, a tensor the descriptor has in the other role), *)
(* random state without the version of its framework, a provenance of       *)
(* another attempt than the identity, and an archive beyond what a reader   *)
(* takes - members, bytes of the manifest, of all tensors, of all: save     *)
(* accepts them, load does not.                                             *)
Unloadable(c, by, file) ==
    \/ Listed(c, c.params) # NamesIn(c.desc.params)
    \/ Listed(c, c.buffers) # NamesIn(c.desc.buffers)
    \/ c.rng.providers # DOMAIN c.desc.rng.versions
    \/ by.provenance # [attempt |-> by.attempt, run |-> by.run]
    \/ 1 + Required + Len(c.desc.scaler) + Cardinality(Storage(c)) > MaxMembers
    \/ ~ManifestReadable(ManifestSize(ManifestData(file)))
    \/ ~TensorsAccepted(TensorMembers(c))
    \/ ~SizeAccepted(file)

(* A checkpoint whose save has returned can be loaded again, unless it is   *)
(* one of Unloadable: no other check of load can refuse it, and none of     *)
(* these lets it through (store.py save, load).                             *)
ReturnedIsLoadable ==
    \A id \in returned :
        Loads(records[id].file, records[id])
            <=> ~Unloadable(origin[id][1], origin[id][2], records[id].file)

(* A temporary file belongs to the call that made it or to a handle; none   *)
(* outlives both unless its removal failed, or the archive had its manifest *)
(* behind other members (store.py save, load, cleanup_temp_files).          *)
SpillsAreOwned ==
    /\ \A t \in temps :
          \/ job[t[1]].step # "idle"
          \/ \E h \in handles : t \in h.spills
    /\ \A h \in handles : h.spills \subseteq temps
    /\ kept # {} => \/ faults > 0
                    \/ \E id \in DOMAIN records : ~ManifestFirst(records[id].file)

(* inspect_path calls every archive complete that load would take.          *)
LoadedIsComplete ==
    \A id \in DOMAIN records :
        /\ Loads(content[id], records[id]) => Inspection(content[id]) = "complete"
        /\ Inspection(content[id]) = "complete" =>
              Parses(content[id]) /\ ManifestFirst(content[id])

(* The descriptors agree in all that compatibility is about: the roles of   *)
(* tensors and the inside of the scaler are not compared.                   *)
SameContract(a, e) ==
    /\ Declared(a) = Declared(e)
    /\ (a.scaler = <<>>) = (e.scaler = <<>>)
    /\ \A field \in DOMAIN a \ {"params", "buffers", "scaler"} : a[field] = e[field]

(* A restore goes ahead, on an exact result, if and only if the descriptors *)
(* agree (store.py check_compatibility).                                    *)
ExactMeansSame ==
    \A h \in handles : \A e \in Expected :
        Compatibility(ManifestData(h.file).compat, e) = "exact"
            <=> SameContract(ManifestData(h.file).compat, e)

(* Each loaded slot tensor belongs to one declared slot, so that the        *)
(* optimizer's state can be rebuilt, unless the capture declared the slot   *)
(* in two groups (restore.py build_restored_tensors).                       *)
SlotsResolveUnlessShared ==
    \A h \in handles :
        LET slots == origin[h.id][1].desc.slots IN
        SlotKeysResolve(ManifestData(h.file))
            <=> ~\E s, t \in slots : s.param = t.param /\ s.group # t.group
=============================================================================
