-------------------------- MODULE MCRunPreparation --------------------------
(***************************************************************************)
(* An instance of RunPreparation: trees that differ from a clean one in    *)
(* each thing the evidence has to tell, configurations that mean the same  *)
(* or not, and environments with one thing wrong each.                     *)
(***************************************************************************)
EXTENDS RunPreparation, TLC

Symmetry == Permutations(Procs)

At(blob) == [f \in Files |-> blob]
Absent == [kind |-> "absent", data |-> 0]
Linked == [head |-> 1, index |-> 1, checked |-> 1, local |-> 0, conflict |-> FALSE]
NoRemote == [shape |-> "absent", user |-> FALSE, query |-> FALSE, at |-> FALSE]

Clean == [commit |-> 1, remote |-> NoRemote, head |-> At(1), index |-> At(1),
          work |-> At(1), other |-> [o \in Others |-> Absent], link |-> [m \in Links |-> Linked]]
Untracked(kind, data) == [Clean EXCEPT !.other = [o \in Others |-> [kind |-> kind, data |-> data]]]
Submodule(l) == [Clean EXCEPT !.link = [m \in Links |-> l]]
Uninitialized == Submodule([Linked EXCEPT !.checked = 0])

Recommitted == [Clean EXCEPT !.commit = 2]
Deployed == [Clean EXCEPT !.commit = 3]
Tagged == [Clean EXCEPT !.commit = 4]
Shared(remote) == [Clean EXCEPT !.remote = [remote EXCEPT !.shape = "https"]]
Remotes == {Shared(NoRemote), Shared([NoRemote EXCEPT !.user = TRUE]),
            Shared([NoRemote EXCEPT !.at = TRUE]), [Clean EXCEPT !.remote.shape = "local"]}
Odd == Remotes \cup {Untracked("nested", 0), Submodule([Linked EXCEPT !.index = 0])}
Changed == {[Clean EXCEPT !.work = At(2)],
            [Clean EXCEPT !.index = At(2), !.work = At(2)],
            [Clean EXCEPT !.index = At(3), !.work = At(3)],
            [Clean EXCEPT !.index = At(2)],
            [Clean EXCEPT !.index = At(0)],
            Untracked("file", 1), Untracked("symlink", 1),
            Uninitialized, [Uninitialized EXCEPT !.work = At(2)]}
Uncaptured == {Untracked("unreadable", 1), Untracked("special", 0),
               Submodule([Linked EXCEPT !.local = 1]), Submodule([Linked EXCEPT !.local = 2]),
               Submodule([Linked EXCEPT !.checked = 2]), Submodule([Linked EXCEPT !.conflict = TRUE])}
MCTrees == {Clean, Recommitted, Deployed, Tagged} \cup Odd \cup Changed \cup Uncaptured

(* From a clean tree to each other one and back, and from one change to     *)
(* those it must not be taken for.                                          *)
MCEdits(t) ==
    IF t = Clean THEN MCTrees \ {Clean, Deployed, Tagged}
    ELSE IF t.index = At(2) THEN {Clean} \cup ({u \in Changed : u.index = At(3) \/ u.work = At(2)} \ {t})
    ELSE IF t.other["o"].kind = "file" THEN {Clean, Untracked("symlink", 1)}
    ELSE IF t.link["m"].local = 1 THEN {Clean, Submodule([Linked EXCEPT !.local = 2])}
    ELSE IF t \in Odd THEN {Clean}
    ELSE IF t = [Uninitialized EXCEPT !.work = At(2)] THEN {Clean, [Clean EXCEPT !.work = At(2)]}
    ELSE {}

Tokens == <<"training", "tokens">>
Interval == <<"checkpointing", "interval">>
Set(path, value) == [path |-> path, value |-> value, finite |-> TRUE]
File(content) == [utf8 |-> TRUE, documents |-> 1, root |-> "mapping", uses |-> {},
                  content |-> content]
Small == File([p \in {Tokens} |-> 2])
Same == File([p \in {Tokens, Interval} |-> IF p = Tokens THEN 2 ELSE 1])
With(file, tokens) == [file |-> file, tokens |-> tokens]

Configs ==
    {With(Same, <<>>),
     With(Small, <<Set(Interval, 2), Set(Tokens, 3)>>),
     With(Small, <<Set(Tokens, 3), Set(Interval, 2)>>),
     With(Small, <<Set(Interval, 1), Set(Interval, 2)>>),
     With(Small, <<Set(Interval, 2), Set(Interval, 1)>>),
     With(Small, <<Set(Interval, 3)>>), With(Small, <<Set(<<"training">>, 1)>>),
     With([Small EXCEPT !.uses = {"anchor"}], <<>>)}

Input(n) == [name |-> n, digest |-> 1]
Dep(n, v) == [name |-> n, version |-> v]
Ranks(rank) == [v \in {"RANK", "WORLD_SIZE"} |-> IF v = "RANK" THEN rank ELSE 1]
Healthy == [deps |-> <<Dep(1, 1)>>, lockfile |-> "available", cpu |-> "available",
            memory |-> "available", smi |-> [outcome |-> "answers", rows |-> <<0>>],
            env |-> Ranks(0), bad |-> {}]
Misread == [Healthy EXCEPT !.env = <<>>, !.bad = {"NNODES"}]
Unlocked == [Healthy EXCEPT !.lockfile = "error"]
Machines ==
    {[Healthy EXCEPT !.deps = <<Dep(1, 1), Dep(1, 2)>>],
     [Healthy EXCEPT !.deps = <<Dep(1, 0), Dep(1, 1)>>], Unlocked,
     [Healthy EXCEPT !.smi.rows = <<0, 0>>], [Healthy EXCEPT !.env = Ranks(-1)]}

(* Sections a caller passes: one that hides what is wrong with the machine, *)
(* and two with a status no probe reports.                                  *)
Mute == Software(Healthy)
Told == {[Mute EXCEPT !.platform = "redacted"], [Mute EXCEPT !.lockfile = "redacted"]}
Given == [TopologyOf(Ranks(0)) EXCEPT !.reason = ""]

(* A call as it should be, and calls that differ from it in one thing: of    *)
(* the clean trees one has all that can be run, one all it can run on, and   *)
(* one the sections a caller may pass.                                       *)
Plain == [file |-> Small, tokens |-> <<>>, extra |-> <<>>, machine |-> Healthy,
          own |-> [software |-> <<>>, hardware |-> <<>>, topology |-> <<>>, warnings |-> {}]]
MCSettings(seen) ==
    {Plain} \cup
    CASE seen = Recommitted ->
           {[Plain EXCEPT !.file = c.file, !.tokens = c.tokens] : c \in Configs}
           \cup {[Plain EXCEPT !.extra = <<Input(n)>>] : n \in {"data", "source.snapshot"}}
      [] seen = Deployed -> {[Plain EXCEPT !.machine = m] : m \in Machines \cup {Misread}}
      [] seen = Tagged ->
           {[Plain EXCEPT !.own.hardware = <<Accelerator(Healthy)>>, !.own.topology = <<Given>>,
                          !.own.warnings = {<<"invalid_topology_env_value", "RANK">>}],
            [Plain EXCEPT !.machine = Misread, !.own.topology = <<Given>>],
            [Plain EXCEPT !.machine = Unlocked, !.own.software = <<Mute>>]}
           \cup {[Plain EXCEPT !.own.software = <<s>>] : s \in Told}
      [] OTHER -> {}

(* Twelve hex digits stand between fingerprints: here none does.            *)
MCPrefix(fp) == "p"
=============================================================================
