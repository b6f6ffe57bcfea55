------------------------- MODULE MCCheckpointStore -------------------------
(***************************************************************************)
(* An instance of CheckpointStore: captures that exercise each rule of the *)
(* format, archives of other encoders that break one rule each, and        *)
(* descriptors that differ from a captured one in one place or in two.     *)
(***************************************************************************)
EXTENDS CheckpointStore

Tensor(n, data) == [name |-> n, shape |-> 1, dtype |-> 1, data |-> data, size |-> 1]
Described(n)    == [name |-> n, shape |-> 1, dtype |-> 1]
Slot(g, p)      == [group |-> g, param |-> p, shape |-> 1, dtype |-> 1]
Options(ps)     == [params |-> ps, options |-> 1]
Alias(n, ns)    == [canonical |-> n, names |-> ns]

MCDescriptor ==
    [spec |-> 1, ranks |-> 1, params |-> {Described(1), Described(2)},
     buffers |-> {Described(11)}, alias |-> {},
     slots |-> {Slot(1, 1), Slot(1, 2)}, groups |-> << Options(<<1, 2>>) >>, type |-> 1,
     scheduler |-> [type |-> 1, active |-> TRUE, shape |-> 1], scaler |-> <<>>,
     rng |-> [adapters |-> {1}, versions |-> [v \in {1} |-> 1], schema |-> 1],
     data |-> [identity |-> 1, length |-> 4, contract |-> 1]]

Plain ==
    [quiescent |-> TRUE, params |-> <<Tensor(1, 1), Tensor(2, 2)>>,
     buffers |-> <<Tensor(11, 3)>>, alias |-> {},
     slots |-> <<Tensor(101, 4), Tensor(102, 5)>>, optimizer |-> <<>>,
     scheduler |-> <<Tensor(60, 6)>>, scaler |-> <<>>,
     scalars |-> [optimizer |-> 1, scheduler |-> 1],
     rng |-> [schema |-> 1, providers |-> {1}, state |-> 1],
     cursor |-> [contract |-> 1, accepted |-> 2], counters |-> [updates |-> 2],
     desc |-> MCDescriptor]

Tied == [Plain EXCEPT !.params = <<Tensor(1, 1), Tensor(2, 1)>>, !.alias = {{1, 2}},
                      !.desc.alias = {Alias(1, {2})}]
TiedAcrossRoles ==
    [Plain EXCEPT !.buffers = <<Tensor(11, 2)>>, !.alias = {{2, 11}},
                  !.desc.alias = {Alias(2, {11})}]
TiedInBothRoles ==
    [TiedAcrossRoles EXCEPT !.desc.params = @ \cup {Described(11)},
                            !.desc.buffers = @ \cup {Described(2)}]
TiedUnequal == [Plain EXCEPT !.alias = {{1, 2}}, !.desc.alias = {Alias(1, {2})}]
Unversioned == [Plain EXCEPT !.rng.providers = {1, 2},
                             !.desc.rng.adapters = {1, 2}]
Misdeclared == [Plain EXCEPT !.desc.params = @ \cup {Described(11)}, !.desc.buffers = {}]
Scaled == [Plain EXCEPT !.scaler = <<Tensor(70, 7)>>,
                        !.desc.scaler = <<[type |-> 1, shape |-> 1]>>]
Crowded == [Scaled EXCEPT !.buffers = <<Tensor(11, 3), Tensor(12, 8)>>,
                          !.desc.buffers = {Described(11), Described(12)}]
Ambiguous == [Plain EXCEPT !.desc.slots = @ \cup {Slot(2, 1)},
                           !.desc.groups = << Options(<<1, 2>>), Options(<<1>>) >>]
Heavy == [Plain EXCEPT !.params = <<[Tensor(1, 1) EXCEPT !.size = 8], Tensor(2, 2)>>]
Single == [Plain EXCEPT !.slots = <<>>, !.optimizer = <<Tensor(50, 4)>>,
                        !.desc.slots = {Slot(1, 1)}]
Bulky == [Heavy EXCEPT !.params[2].size = 8]
Immense == [Heavy EXCEPT !.params[2].size = 30]
Verbose == [Plain EXCEPT !.params = <<Tensor(1, 1), Tensor(99, 2)>>,
                         !.desc.params = {Described(1), Described(99)},
                         !.slots = <<Tensor(101, 4)>>, !.desc.slots = {Slot(1, 1)}]
Exhausted == [Plain EXCEPT !.cursor.accepted = 5]

(* Every capture alone, and a heavy one after a plain one.                  *)
MCCaptures(saved) ==
    IF saved = <<>>
    THEN {Plain, Tied, TiedAcrossRoles, TiedInBothRoles, TiedUnequal, Unversioned, Misdeclared,
          Crowded, Ambiguous, Heavy, Bulky, Immense, Single, Verbose, Exhausted}
    ELSE IF Len(saved) = 1 /\ saved[1] # <<>> /\ saved[1][1] = Plain THEN {Heavy} ELSE {}

(* Tensor 99 has a long name.                                               *)
MCManifestSize(m) == IF \E i \in DOMAIN m.tensors : 99 \in m.tensors[i].names THEN 2 ELSE 1

Attempt(a) == [run |-> 1, attempt |-> a, spec |-> 1]
MCIdentities == {Attempt(1), Attempt(2)}

(* Each attempt with its own provenance, and one with that of the other.    *)
With(a, provenance) ==
    [run |-> 1, attempt |-> a, spec |-> 1, config |-> 1,
     provenance |-> [run |-> 1, attempt |-> provenance]]
MCGiven == {With(1, 1), With(2, 2), With(1, 2)}

(* The index of a state component among the members, and a rewrite of one   *)
(* component in its member and in the manifest's list of digests.           *)
Rehash(file, k, payload) ==
    [file EXCEPT !.members[1].data.components[k] = payload,
                 !.members[1 + k].data = payload]
Extra(i) == [name |-> TensorName(i), size |-> 1, data |-> 9, names |-> {90},
             shape |-> 1, dtype |-> 1]
Swap(s, i, j) == [s EXCEPT ![i] = s[j], ![j] = s[i]]

MCForeign(file) ==
    LET ms == file.members
        m  == ms[1].data
        n  == Len(m.tensors)
    IN  IF m.compat # MCDescriptor \/ m.components[3].attempt # 1 \/ m.parent # <<>> THEN {} ELSE
        { \* two components in the wrong order, a manifest behind a component
          [file EXCEPT !.members = Swap(ms, 3, 4)],
          [file EXCEPT !.members = Swap(ms, 1, 2)],
          \* a tensor nobody lists, one nobody refers to, one without bytes
          [file EXCEPT !.members = Append(ms, Member(TensorName(n), 1, 9))],
          [file EXCEPT !.members = Append([ms EXCEPT ![1].data.tensors = Append(@, Extra(n))],
                                          Member(TensorName(n), 1, 9))],
          [file EXCEPT !.members[1].data.tensors = Append(@, Extra(n))],
          \* a component with other bytes than its digest
          [file EXCEPT !.members[6].data = [contract |-> 1, accepted |-> 3]],
          \* components that contradict the manifest or the record
          Rehash(file, 6, [updates |-> 1]),
          Rehash(file, 1, [attempt |-> 2, run |-> 2, spec |-> 1]),
          Rehash(file, 8, [m.components[8] EXCEPT !.type = 2]),
          Rehash(file, 7, [m.components[7] EXCEPT !.params = <<>>]),
          [file EXCEPT !.members[1].data.run = 2],
          \* another version, a header in another form, a missing component
          [file EXCEPT !.members[1].data.version = 2],
          [file EXCEPT !.members[1].canonical = FALSE],
          [file EXCEPT !.members = SelectSeq(ms, LAMBDA x : x.name # StateName(5))] }

MCDamage(file) ==
    { [file EXCEPT !.zeros = 1], [file EXCEPT !.trailing = TRUE],
      [file EXCEPT !.members[Len(file.members)].data = 9],
      [file EXCEPT !.members = SubSeq(@, 1, Len(@) - 1)] }

MCExpected ==
    { MCDescriptor,
      [MCDescriptor EXCEPT !.ranks = 2],
      [MCDescriptor EXCEPT !.params = {[Described(1) EXCEPT !.shape = 2], Described(2)}],
      [MCDescriptor EXCEPT !.params = {Described(1)}],
      [MCDescriptor EXCEPT !.buffers = {[Described(11) EXCEPT !.dtype = 2]}],
      [MCDescriptor EXCEPT !.params = @ \cup {Described(11)}, !.buffers = {}],
      [MCDescriptor EXCEPT !.alias = {Alias(1, {2})}],
      [MCDescriptor EXCEPT !.alias = {Alias(2, {1})}],
      [MCDescriptor EXCEPT !.params = @ \cup {[Described(11) EXCEPT !.shape = 2]}],
      [MCDescriptor EXCEPT !.slots = {Slot(1, 1)}],
      [MCDescriptor EXCEPT !.slots = {Slot(1, 1), [Slot(1, 2) EXCEPT !.dtype = 2]}],
      [MCDescriptor EXCEPT !.groups = << [Options(<<1, 2>>) EXCEPT !.options = 2] >>],
      [MCDescriptor EXCEPT !.groups = << Options(<<1, 2>>), Options(<<1>>) >>],
      [MCDescriptor EXCEPT !.type = 2],
      [MCDescriptor EXCEPT !.scheduler = [type |-> 1, active |-> FALSE, shape |-> 0]],
      [MCDescriptor EXCEPT !.scaler = <<[type |-> 1, shape |-> 1]>>],
      [MCDescriptor EXCEPT !.scaler = <<[type |-> 2, shape |-> 1]>>],
      [MCDescriptor EXCEPT !.rng.versions = [v \in {1} |-> 2]],
      [MCDescriptor EXCEPT !.rng.adapters = {1, 2}],
      [MCDescriptor EXCEPT !.data.identity = 2],
      [MCDescriptor EXCEPT !.data.contract = 2],
      [MCDescriptor EXCEPT !.spec = 2, !.data.length = 5] }
=============================================================================
