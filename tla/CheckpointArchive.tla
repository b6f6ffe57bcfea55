------------------------- MODULE CheckpointArchive -------------------------
(***************************************************************************)
(* The checkpoint archive of checkpoints/encoder.py, tar_writer.py,        *)
(* tar_reader.py, models.py and the decoding half of store.py and          *)
(* restore.py: what a captured state must satisfy, the archive it becomes, *)
(* what a reader accepts and the state a restore takes out of it.          *)
(*                                                                         *)
(* Digests are injective, so a digest is the payload it was computed of.   *)
(* Logical names are numbers in the order of the strings; the tensor       *)
(* "optimizer.<slot>.<param>" of parameter p is SlotTensor(p).  A member   *)
(* name is <<phase, index>>: the manifest, the state component of the      *)
(* role with that index, a tensor.  Optional values are sequences of at    *)
(* most one element.                                                       *)
(***************************************************************************)
EXTENDS Integers, Sequences, FiniteSets, FiniteSetsExt, SequencesExt, Functions

CONSTANTS
    MaxMembers,      \* MAX_MEMBER_COUNT
    MaxTensors,      \* MAX_TENSOR_COUNT
    SpillAt,         \* a tensor of more blocks is spilled by the streaming parser
    MaxInMemory,     \* MAX_INMEMORY_ARCHIVE_BYTES, in blocks
    MaxTensorBytes,  \* MAX_TENSOR_BYTES, of all tensors together, in blocks
    MaxArchive,      \* MAX_ARCHIVE_BYTES, in blocks
    MaxManifest,     \* MAX_MANIFEST_BYTES, in blocks
    ManifestSize(_)  \* the blocks a manifest takes: they grow with names and tensors

ASSUME ArchiveConstants ==
    /\ MaxMembers \in Nat /\ MaxTensors \in Nat
    /\ SpillAt \in Nat /\ MaxInMemory \in Nat
    /\ MaxTensorBytes \in Nat /\ MaxArchive \in Nat /\ MaxManifest \in Nat

SlotTensor(p) == 100 + p

ManifestName  == <<0, 0>>
StateName(k)  == <<1, k>>
TensorName(i) == <<2, i>>

(* The fixed order of the components; only the last is optional.            *)
Roles == <<"identity", "configuration", "provenance", "rng", "data_cursor",
           "counters", "model", "optimizer", "scheduler", "scaler">>
Required == 9

Names(ts)    == {ts[i].name : i \in DOMAIN ts}
NamesIn(S)   == {x.name : x \in S}
Distinct(ts) == Cardinality(Names(ts)) = Len(ts)
Kind(t)      == [shape |-> t.shape, dtype |-> t.dtype]
Shapes(ts)   == {[name |-> ts[i].name, shape |-> ts[i].shape, dtype |-> ts[i].dtype] :
                    i \in DOMAIN ts}
The(ts, n)   == ts[CHOOSE i \in DOMAIN ts : ts[i].name = n]

----------------------------------------------------------------------------
(* Capture: CapturedCheckpointState, its descriptors and their validators.  *)

CapturedTensor == [name : Nat, shape : Nat, dtype : Nat, data : Nat, size : Nat]
ModelParameterDescriptor == [name : Nat, shape : Nat, dtype : Nat]
AliasGroup == [canonical : Nat, names : SUBSET Nat]
OptimizerParamGroup == [params : Seq(Nat), options : Nat]
OptimizerStateSlot == [group : Nat, param : Nat, shape : Nat, dtype : Nat]

(* The fields every descriptor is declared with; each collection is finite. *)
DescriptorFields(d) ==
    /\ d \in [spec : Nat, ranks : Nat,
              params : SUBSET ModelParameterDescriptor,
              buffers : SUBSET ModelParameterDescriptor,
              alias : SUBSET AliasGroup, slots : SUBSET OptimizerStateSlot,
              groups : Seq(OptimizerParamGroup), type : Nat,
              scheduler : [type : Nat, active : BOOLEAN, shape : Nat],
              scaler : Seq([type : Nat, shape : Nat]),
              rng : [adapters : SUBSET Nat, versions : {d.rng.versions}, schema : Nat],
              data : [identity : Nat, length : Nat, contract : Nat]]
    /\ d.rng.versions \in [DOMAIN d.rng.versions -> Nat]
    /\ DOMAIN d.rng.versions \subseteq Nat
    /\ Len(d.scaler) <= 1
    /\ \A S \in {d.params, d.buffers} : IsFiniteSet(S)
    /\ IsFiniteSet(d.alias) /\ IsFiniteSet(d.slots)
    /\ IsFiniteSet(d.rng.adapters) /\ IsFiniteSet(DOMAIN d.rng.versions)

CaptureFields(c) ==
    /\ c \in [quiescent : BOOLEAN, params : Seq(CapturedTensor),
              buffers : Seq(CapturedTensor), alias : SUBSET SUBSET Nat,
              slots : Seq(CapturedTensor), optimizer : Seq(CapturedTensor),
              scheduler : Seq(CapturedTensor), scaler : Seq(CapturedTensor),
              scalars : [optimizer : Nat, scheduler : Nat],
              rng : [schema : Nat, providers : SUBSET Nat, state : Nat],
              cursor : [contract : Nat, accepted : Nat], counters : [updates : Nat],
              desc : {c.desc}]
    /\ Len(c.optimizer) <= 1 /\ Len(c.scheduler) <= 1 /\ Len(c.scaler) <= 1

(* A group has a canonical member, which is none of the aliased names.      *)
DescriptorAccepted(d) ==
    LET Unique(S) == \A p, q \in S : p.name = q.name => p = q
        known == NamesIn(d.params \cup d.buffers)
        members(g) == g.names \cup {g.canonical}
    IN  /\ DescriptorFields(d)
        /\ Unique(d.params) /\ Unique(d.buffers)
        /\ \A g \in d.alias : g.canonical \notin g.names /\ members(g) \subseteq known
        /\ \A g, h \in d.alias : g # h => members(g) \cap members(h) = {}
        /\ \A s, t \in d.slots : s.group = t.group /\ s.param = t.param => s = t
        /\ d.scheduler.active \/ d.scheduler.shape = 0

(* Each declared slot has one captured tensor and the other way round; the  *)
(* single tensor of an older provider stands for exactly one slot.          *)
SlotsAgree(c) ==
    LET declared == c.desc.slots IN
    IF c.slots # <<>>
    THEN /\ Distinct(c.slots)
         /\ Shapes(c.slots) = {[name |-> SlotTensor(s.param), shape |-> s.shape,
                                dtype |-> s.dtype] : s \in declared}
    ELSE IF c.optimizer # <<>>
    THEN /\ Cardinality(declared) = 1
         /\ \A s \in declared : Kind(s) = Kind(c.optimizer[1])
    ELSE declared = {}

(* An alias group is a set of captured tensors that are the same tensor.    *)
AliasesAgree(c) ==
    LET ts == c.params \o c.buffers IN
    /\ \A g \in c.alias : Cardinality(g) >= 2 /\ g \subseteq Names(ts)
    /\ \A g, h \in c.alias : g # h => g \cap h = {}
    /\ \A g \in c.alias : \A m, n \in g :
          /\ Kind(The(ts, m)) = Kind(The(ts, n))
          /\ The(ts, m).data = The(ts, n).data

CursorAgrees(c) ==
    /\ c.cursor.contract = c.desc.data.contract
    /\ c.desc.data.length > 0 => c.cursor.accepted <= c.desc.data.length

RngAgrees(c) ==
    /\ c.rng.schema = c.desc.rng.schema
    /\ c.rng.providers = c.desc.rng.adapters

CaptureAccepted(c) ==
    /\ CaptureFields(c)
    /\ c.quiescent /\ DescriptorAccepted(c.desc)
    /\ (c.scaler # <<>>) = (c.desc.scaler # <<>>)
    /\ Distinct(c.params \o c.buffers)
    /\ AliasesAgree(c)
    /\ Shapes(c.params \o c.buffers) = c.desc.params \cup c.desc.buffers
    /\ SlotsAgree(c)
    /\ CursorAgrees(c)
    /\ RngAgrees(c)

----------------------------------------------------------------------------
(* Encoding.                                                                *)

Captured(c) == c.params \o c.buffers \o c.optimizer \o c.scheduler \o c.scaler \o c.slots

(* The names stored together with n, and the one that stands for them.      *)
Group(c, n)  == IF n \in UNION c.alias THEN CHOOSE g \in c.alias : n \in g ELSE {n}
Storage(c)   == {Min(Group(c, n)) : n \in Names(Captured(c))}
Index(c, n)  == Cardinality({s \in Storage(c) : s < Min(Group(c, n))})

Encodable(c) == Distinct(Captured(c)) /\ Cardinality(Storage(c)) <= MaxTensors

Ref(c, t) == [member |-> TensorName(Index(c, t.name)), names |-> Group(c, t.name),
              shape |-> t.shape, dtype |-> t.dtype]
Refs(c, ts) == [i \in DOMAIN ts |-> Ref(c, ts[i])]

(* The payloads in the order of Roles; the scaler's only when it is active. *)
(* by is what save is given beside the capture: an identity, the resolved   *)
(* configuration, and a provenance with a run and an attempt of its own.    *)
Payloads(c, by) ==
    << [attempt |-> by.attempt, run |-> by.run, spec |-> by.spec],
       [spec |-> by.spec, content |-> by.config, digest |-> by.config],
       by.provenance,
       c.rng, c.cursor, c.counters,
       [params |-> Refs(c, c.params), buffers |-> Refs(c, c.buffers)],
       [slots |-> c.desc.slots, groups |-> c.desc.groups, type |-> c.desc.type,
        single |-> Refs(c, c.optimizer), tensors |-> Refs(c, c.slots),
        scalar |-> c.scalars.optimizer],
       [descriptor |-> c.desc.scheduler, tensors |-> Refs(c, c.scheduler),
        scalar |-> c.scalars.scheduler] >>
    \o IF c.desc.scaler = <<>> THEN <<>>
       ELSE << [descriptor |-> c.desc.scaler, tensors |-> Refs(c, c.scaler)] >>

TensorMembers(c) ==
    [i \in 1 .. Cardinality(Storage(c)) |->
        LET s == CHOOSE n \in Storage(c) : Index(c, n) = i - 1
            t == The(Captured(c), s)
        IN  [name |-> TensorName(i - 1), size |-> t.size, data |-> t.data,
             names |-> Group(c, s), shape |-> t.shape, dtype |-> t.dtype]]

Member(name, size, data) ==
    [name |-> name, size |-> size, data |-> data, canonical |-> TRUE]

ManifestOf(c, by, parent) ==
    [attempt |-> by.attempt, run |-> by.run, spec |-> by.spec, config |-> by.config,
     parent |-> parent, counters |-> c.counters, compat |-> c.desc,
     version |-> 1, components |-> Payloads(c, by), tensors |-> TensorMembers(c)]

(* The stream of members and the two zero blocks that end it.               *)
WriteArchive(members) == [members |-> members, zeros |-> 2, trailing |-> FALSE]

Encode(c, by, parent) ==
    LET m == ManifestOf(c, by, parent) IN
    WriteArchive(
        << Member(ManifestName, ManifestSize(m), m) >>
        \o [k \in DOMAIN m.components |-> Member(StateName(k), 1, m.components[k])]
        \o [i \in DOMAIN m.tensors |->
               Member(m.tensors[i].name, m.tensors[i].size, m.tensors[i].data)])

Size(file) ==
    SumFunction([i \in DOMAIN file.members |-> 1 + file.members[i].size])
        + file.zeros + (IF file.trailing THEN 1 ELSE 0)

(* The bytes of all tensors among the members.                              *)
TensorBytes(members) ==
    SumFunction([n \in {n \in Names(members) : n[1] = 2} |-> The(members, n).size])

(* What a reader takes in bytes: of all, of all tensors, of the manifest.   *)
SizeAccepted(file)       == Size(file) <= MaxArchive
TensorsAccepted(members) == TensorBytes(members) <= MaxTensorBytes
ManifestReadable(blocks) == blocks <= MaxManifest

----------------------------------------------------------------------------
(* Reading: the strict parser and the order of the members.                 *)

(* A header is taken only in the one form the writer gives it.              *)
HeaderAccepted(m) == m.canonical

Phase(members, p) == {i \in DOMAIN members : members[i].name[1] = p}

(* The place of member i among those of its phase.                          *)
Place(members, i) == Cardinality({j \in Phase(members, members[i].name[1]) : j <= i})

OrderAccepted(members) ==
    members # <<>> =>
        /\ \A i \in DOMAIN members : members[i].name[1] \in 0 .. 2
        /\ Cardinality(Phase(members, 0)) = 1
        /\ Cardinality(Phase(members, 1)) \in {Required, Required + 1}
        /\ \A i \in Phase(members, 1) : members[i].name = StateName(Place(members, i))
        /\ \A i \in Phase(members, 2), j \in Phase(members, 1) : ~(1 < i /\ i < j)
        /\ Cardinality(Phase(members, 2)) <= MaxTensors
        /\ \A i \in Phase(members, 2) :
              members[i].name = TensorName(Place(members, i) - 1)

Parses(file) ==
    /\ SizeAccepted(file)
    /\ \A i \in DOMAIN file.members : HeaderAccepted(file.members[i])
    /\ Distinct(file.members)
    /\ Len(file.members) <= MaxMembers
    /\ TensorsAccepted(file.members)
    /\ file.zeros = 2
    /\ ~file.trailing
    /\ OrderAccepted(file.members)

(* Tensors a streaming parse leaves in temporary files of their own.        *)
Spilled(file) ==
    {file.members[i].name : i \in {j \in DOMAIN file.members :
        file.members[j].name[1] = 2 /\ file.members[j].size > SpillAt}}

ManifestFirst(file) == file.members # <<>> /\ file.members[1].name = ManifestName

ManifestData(file) == file.members[1].data

(* CheckpointManifest's own validators, its descriptor's among them.        *)
ManifestAccepted(m) ==
    /\ m.version = 1
    /\ DescriptorAccepted(m.compat)
    /\ Len(m.components) \in {Required, Required + 1}
    /\ (Len(m.components) > Required) = (m.compat.scaler # <<>>)
    /\ \A i \in DOMAIN m.tensors : m.tensors[i].name = TensorName(i - 1)
    /\ Len(m.tensors) <= MaxTensors

(* Every other member is listed with its digest and size, and none besides. *)
Authentic(file) ==
    LET m    == ManifestData(file)
        rest == Tail(file.members)
        At(n) == rest[CHOOSE i \in DOMAIN rest : rest[i].name = n]
    IN  /\ Names(rest) = {StateName(k) : k \in DOMAIN m.components} \cup Names(m.tensors)
        /\ \A k \in DOMAIN m.components :
              At(StateName(k)).data = m.components[k] /\ At(StateName(k)).size = 1
        /\ \A i \in DOMAIN m.tensors :
              /\ At(m.tensors[i].name).data = m.tensors[i].data
              /\ At(m.tensors[i].name).size = m.tensors[i].size

DecodeAccepted(file) ==
    /\ ManifestReadable(file.members[1].size)
    /\ ManifestAccepted(ManifestData(file)) /\ Authentic(file)

(* A component lists each tensor under all the names stored with it.        *)
Expand(refs) ==
    UNION {{[name |-> n, shape |-> refs[i].shape, dtype |-> refs[i].dtype] :
                n \in refs[i].names} : i \in DOMAIN refs}

(* The references of all components together; a tensor is referred to once  *)
(* for each of its names.                                                   *)
References(m) ==
    LET refs(k) == m.components[k] IN
    refs(7).params \o refs(7).buffers \o refs(8).single \o refs(8).tensors
        \o refs(9).tensors
        \o (IF Len(m.components) > Required THEN refs(10).tensors ELSE <<>>)

(* Mutant of ReferencesAgree: a tensor nobody refers to goes unnoticed.     *)
ReferencesAgree_OneWay(m) ==
    \A i \in DOMAIN References(m) : References(m)[i].member \in Names(m.tensors)

ReferencesAgree(m) ==
    LET all == References(m)
        Count(n) == Cardinality({i \in DOMAIN all : all[i].member = n})
    IN  /\ \A i \in DOMAIN all : all[i].member \in Names(m.tensors)
        /\ \A i \in DOMAIN m.tensors :
              Count(m.tensors[i].name) = Cardinality(m.tensors[i].names)

RecordBinds(m, record) ==
    /\ m.run = record.run /\ m.attempt = record.attempt /\ m.spec = record.spec
    /\ m.parent = record.parent

(* The descriptors the components carry are the manifest's.                 *)
DescriptorsBind(m) ==
    LET comp(k) == m.components[k] IN
    /\ comp(6) = m.counters
    /\ comp(8).slots = m.compat.slots /\ comp(8).groups = m.compat.groups
    /\ comp(8).type = m.compat.type
    /\ comp(9).descriptor = m.compat.scheduler
    /\ Len(m.components) > Required => comp(10).descriptor = m.compat.scaler
    /\ Expand(comp(7).params) = m.compat.params
    /\ Expand(comp(7).buffers) = m.compat.buffers

(* The configuration, identity and provenance are the registered record's,  *)
(* and the random state has the providers the descriptor has versions of.   *)
OriginBinds(m, record) ==
    LET comp(k) == m.components[k] IN
    /\ comp(2).spec = record.spec
    /\ comp(2).content = m.config /\ comp(2).digest = m.config
    /\ comp(1) = [attempt |-> record.attempt, run |-> record.run, spec |-> record.spec]
    /\ comp(3) = [attempt |-> record.attempt, run |-> record.run]
    /\ comp(4).schema = m.compat.rng.schema
    /\ comp(4).providers = DOMAIN m.compat.rng.versions

ComponentsBind(m, record) ==
    DescriptorsBind(m) /\ OriginBinds(m, record) /\ ReferencesAgree(m)

Loads(file, record) ==
    /\ Parses(file) /\ ManifestFirst(file) /\ DecodeAccepted(file)
    /\ RecordBinds(ManifestData(file), record)
    /\ ComponentsBind(ManifestData(file), record)

(* Mutant of Inspection: the order of the members is not looked at.         *)
Inspection_AnyOrder(file) ==
    IF file.members = <<>> \/ ~HeaderAccepted(file.members[1]) THEN "raises"
    ELSE IF ~ManifestFirst(file) \/ ~ManifestAccepted(file.members[1].data) THEN "corrupt"
    ELSE IF ~Authentic(file) THEN "corrupt" ELSE "complete"

(* The diagnosis of an arbitrary file.  A first header that is not in the   *)
(* writer's form escapes as an error of another type.                       *)
Inspection(file) ==
    LET first == file.members[1] IN
    IF ~SizeAccepted(file) \/ (file.members = <<>> /\ file.zeros = 0) THEN "corrupt"
    ELSE IF file.members = <<>> \/ ~HeaderAccepted(first) THEN "raises"
    ELSE IF first.name # ManifestName THEN "corrupt"
    ELSE IF first.data.version # 1 THEN "unsupported"
    ELSE IF ~ManifestAccepted(first.data) THEN "corrupt"
    ELSE IF ~Parses(file) THEN "corrupt"
    ELSE IF ~Authentic(file) THEN "corrupt"
    ELSE "complete"

----------------------------------------------------------------------------
(* The state a restore takes out of an archive.                             *)

DataOf(file, ref) ==
    The(file.members, ref.member).data

Tensors(file, refs) ==
    UNION {{<<n, DataOf(file, refs[i])>> : n \in refs[i].names} : i \in DOMAIN refs}

(* Mutant of SlotKeysResolve: the first group that declares it is taken.    *)
SlotKeysResolve_First(m) ==
    \A i \in DOMAIN m.components[8].tensors :
        \E d \in m.compat.slots :
            SlotTensor(d.param) = Min(m.components[8].tensors[i].names)

(* A slot is keyed by the only group that declares it.                      *)
SlotKeysResolve(m) ==
    \A i \in DOMAIN m.components[8].tensors :
        Cardinality({s.group : s \in {d \in m.compat.slots :
            SlotTensor(d.param) = Min(m.components[8].tensors[i].names)}}) = 1

RestoredState(file) ==
    LET m == ManifestData(file)
        comp(k) == m.components[k]
    IN  [params    |-> Tensors(file, comp(7).params),
         buffers   |-> Tensors(file, comp(7).buffers),
         optimizer |-> Tensors(file, comp(8).single \o comp(8).tensors),
         scheduler |-> Tensors(file, comp(9).tensors),
         scaler    |-> IF Len(m.components) = Required THEN {}
                       ELSE Tensors(file, comp(10).tensors),
         scalars   |-> [optimizer |-> comp(8).scalar, scheduler |-> comp(9).scalar],
         cursor    |-> comp(5), counters |-> comp(6), rng |-> comp(4)]

(* A model tensor is a parameter, or a buffer, when the descriptor says so.  *)
StateOf(c) ==
    LET data(ts) == {<<ts[i].name, ts[i].data>> : i \in DOMAIN ts}
        declared(ns) == {d \in data(c.params \o c.buffers) : d[1] \in ns}
    IN
    [params |-> declared(NamesIn(c.desc.params)),
     buffers |-> declared(NamesIn(c.desc.buffers)),
     optimizer |-> data(c.optimizer \o c.slots), scheduler |-> data(c.scheduler),
     scaler |-> data(c.scaler), scalars |-> c.scalars,
     cursor |-> c.cursor, counters |-> c.counters, rng |-> c.rng]

----------------------------------------------------------------------------
(* check_compatibility: the mismatches in the order they are found.  A      *)
(* mismatch is <<component, path, code>>: component and code are numbers in *)
(* the order of the strings they stand for, a path is the numbers it names, *)
(* compared one after the other.                                            *)

Component == [data_cursor_contract |-> 1, data_identity |-> 2, model_alias_groups |-> 3,
              model_dtypes |-> 4, model_names |-> 5, model_shapes |-> 6,
              optimizer_groups |-> 7, optimizer_options |-> 8, optimizer_slots |-> 9,
              optimizer_type |-> 10, rng_adapter_set |-> 11, rng_schema |-> 12,
              scaler_active |-> 13, scheduler_identity |-> 14,
              scheduler_state_shape |-> 15, specification_fingerprint |-> 16,
              topology |-> 17]

Less(p, q) == \E i \in DOMAIN p : p[i] < q[i] /\ \A j \in 1 .. i - 1 : p[j] = q[j]
InOrder(paths) ==
    [i \in 1 .. Cardinality(paths) |->
        CHOOSE p \in paths : Cardinality({q \in paths : Less(q, p)}) = i - 1]
At(names) == {<<n>> : n \in names}

Found(cond, component, code) ==
    IF cond THEN << <<Component[component], <<-1>>, code>> >> ELSE <<>>

(* One mismatch of the kind for each path, in ascending order.              *)
FoundAt(paths, component, code) ==
    LET sorted == InOrder(paths) IN
    [i \in DOMAIN sorted |-> <<Component[component], sorted[i], code>>]

(* A name declared in both roles has the kind of the buffer.                *)
Declared(d) == d.buffers \cup {p \in d.params : p.name \notin NamesIn(d.buffers)}

ModelMismatches(a, e) ==
    LET as == Declared(a)    es == Declared(e)
        an == NamesIn(as)    en == NamesIn(es)
        Differ(field) == NamesIn({p \in as :
            \E q \in es : q.name = p.name /\ q[field] # p[field]})
        ac == {g.canonical : g \in a.alias}  ec == {g.canonical : g \in e.alias}
        regrouped == {g.canonical : g \in {x \in a.alias :
            \E h \in e.alias : h.canonical = x.canonical /\ h.names # x.names}}
    IN  FoundAt(At(en \ an), "model_names", 1) \o FoundAt(At(an \ en), "model_names", 2)
        \o FoundAt(At(Differ("shape")), "model_shapes", 1)
        \o FoundAt(At(Differ("dtype")), "model_dtypes", 1)
        \o FoundAt(At(ec \ ac), "model_alias_groups", 2)
        \o FoundAt(At(ac \ ec), "model_alias_groups", 3)
        \o FoundAt(At(regrouped), "model_alias_groups", 1)

(* Group by group, first its members and then its options.                  *)
GroupMismatches(a, e) ==
    LET differ(field) == {i \in DOMAIN a.groups : a.groups[i][field] # e.groups[i][field]}
        sorted == InOrder({<<i, 0>> : i \in differ("params")}
                          \cup {<<i, 1>> : i \in differ("options")})
    IN  IF Len(a.groups) # Len(e.groups) THEN Found(TRUE, "optimizer_groups", 1)
        ELSE [k \in DOMAIN sorted |->
                IF sorted[k][2] = 0
                THEN <<Component["optimizer_groups"], <<sorted[k][1]>>, 2>>
                ELSE <<Component["optimizer_options"], <<sorted[k][1]>>, 1>>]

(* Slot by slot, first its shape and then its dtype.                        *)
SlotMismatches(a, e) ==
    LET Key(s) == <<s.group, s.param>>
        ak == {Key(s) : s \in a.slots}   ek == {Key(s) : s \in e.slots}
        differ(field) == {s \in a.slots : \E t \in e.slots :
                             Key(s) = Key(t) /\ s[field] # t[field]}
        sorted == InOrder({<<s.group, s.param, 0>> : s \in differ("shape")}
                          \cup {<<s.group, s.param, 1>> : s \in differ("dtype")})
    IN  FoundAt(ek \ ak, "optimizer_slots", 2) \o FoundAt(ak \ ek, "optimizer_slots", 4)
        \o [k \in DOMAIN sorted |->
              <<Component["optimizer_slots"], <<sorted[k][1], sorted[k][2]>>,
                IF sorted[k][3] = 0 THEN 3 ELSE 1>>]

OptimizerMismatches(a, e) ==
    Found(a.type # e.type, "optimizer_type", 1)
    \o GroupMismatches(a, e) \o SlotMismatches(a, e)

(* Mutant of RngMismatches: the versions of the frameworks are not compared. *)
RngMismatches_NoVersions(a, e) ==
    FoundAt(At(e.adapters \ a.adapters), "rng_adapter_set", 1)
    \o FoundAt(At(a.adapters \ e.adapters), "rng_adapter_set", 2)
    \o Found(a.schema # e.schema, "rng_schema", 1)

RngMismatches(a, e) ==
    LET av == DOMAIN a.versions   ev == DOMAIN e.versions IN
    FoundAt(At(e.adapters \ a.adapters), "rng_adapter_set", 1)
    \o FoundAt(At(a.adapters \ e.adapters), "rng_adapter_set", 2)
    \o Found(a.schema # e.schema, "rng_schema", 1)
    \o FoundAt(At(ev \ av), "rng_schema", 1) \o FoundAt(At(av \ ev), "rng_schema", 1)
    \o FoundAt(At({v \in av \cap ev : a.versions[v] # e.versions[v]}), "rng_schema", 1)

SchedulerMismatches(a, e) ==
    Found(a.type # e.type, "scheduler_identity", 2)
    \o Found(a.active # e.active, "scheduler_identity", 1)
    \o Found(a.shape # e.shape, "scheduler_state_shape", 1)

DataMismatches(a, e) ==
    Found(a.identity # e.identity \/ a.length # e.length, "data_identity", 1)
    \o Found(a.contract # e.contract, "data_cursor_contract", 1)

Mismatches(a, e) ==
    Found(a.spec # e.spec, "specification_fingerprint", 1)
    \o Found(a.ranks # e.ranks, "topology", 1)
    \o ModelMismatches(a, e)
    \o OptimizerMismatches(a, e)
    \o SchedulerMismatches(a.scheduler, e.scheduler)
    \o Found((a.scaler = <<>>) # (e.scaler = <<>>), "scaler_active", 1)
    \o RngMismatches(a.rng, e.rng)
    \o DataMismatches(a.data, e.data)

(* CompatibilityResult refuses a report that is not in canonical order.     *)
Canonical(ms) ==
    LET Before(m, n) ==
            \/ m[1] < n[1]
            \/ m[1] = n[1] /\ Less(m[2], n[2])
            \/ m[1] = n[1] /\ m[2] = n[2] /\ m[3] < n[3]
    IN  \A i \in DOMAIN ms : i > 1 => ~Before(ms[i], ms[i - 1])

Compatibility(a, e) ==
    LET ms == Mismatches(a, e) IN
    IF ms = <<>> THEN "exact" ELSE IF Canonical(ms) THEN "incompatible" ELSE "raises"
=============================================================================
