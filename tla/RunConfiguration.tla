-------------------------- MODULE RunConfiguration --------------------------
(***************************************************************************)
(* config/: a configuration file and override tokens become the effective  *)
(* configuration whose canonical bytes a run's identity is computed from.  *)
(* Operators only. Of the schema one section with two leaves and an        *)
(* optional section are kept; values are numbers.                          *)
(***************************************************************************)
EXTENDS Integers, Sequences

(* ConfigRoot: training.tokens must be given, checkpointing.interval has a  *)
(* default, d0 and d0_primitive_semantics are sections that may be missing. *)
Leaves == {<<"training", "tokens">>, <<"checkpointing", "interval">>,
           <<"d0", "policy">>, <<"d0_primitive_semantics", "policy">>}
DefaultInterval == 1

(* load_restricted_yaml: one document, a mapping at its root, and none of   *)
(* the constructs the loader refuses. A document is its content, a function *)
(* from paths, and the constructs it uses.                                  *)
Forbidden == {"alias", "anchor", "custom tag", "complex key", "merge key", "duplicate key"}
YamlAccepted(file) ==
    file.utf8 /\ file.documents = 1 /\ file.root = "mapping" /\ file.uses \cap Forbidden = {}

(* Mutant of OverridesAccepted: a repeated path is last-write-wins.         *)
OverridesAccepted_Repeated(tokens) ==
    \A i \in DOMAIN tokens : tokens[i].path # <<>> /\ tokens[i].finite

(* parse_overrides: tokens are of the form path=value, each path appears    *)
(* once, and no value is a non-finite number.                               *)
OverridesAccepted(tokens) ==
    /\ \A i \in DOMAIN tokens : tokens[i].path # <<>> /\ tokens[i].finite
    /\ \A i, j \in DOMAIN tokens : tokens[i].path = tokens[j].path => i = j

(* _set_leaf_schema_validated: unknown paths, sections and paths that go    *)
(* below a leaf are refused, so the complete path is one of the leaves.     *)
PathAccepted(path) == path \in Leaves

(* apply_overrides_to_mapping: each token, in order, replaces its leaf.     *)
Overridden(content, tokens) ==
    LET Last(path) == CHOOSE i \in DOMAIN tokens :
                         /\ tokens[i].path = path
                         /\ \A j \in DOMAIN tokens : tokens[j].path = path => j <= i
        paths == {tokens[i].path : i \in DOMAIN tokens}
    IN  [path \in DOMAIN content \cup paths |->
            IF path \in paths THEN tokens[Last(path)].value ELSE content[path]]

(* Defaults are filled in before the cross-section validators run.          *)
Effective(content) ==
    [path \in DOMAIN content \cup {<<"checkpointing", "interval">>} |->
        IF path \in DOMAIN content THEN content[path] ELSE DefaultInterval]

(* ConfigRoot.model_validate: no unknown field, positive values, an         *)
(* interval within the budget, primitive semantics only with d0.            *)
ConfigAccepted(content) ==
    LET config == Effective(content)
        Given(section) == section \in {path[1] : path \in DOMAIN config}
    IN  /\ DOMAIN config \subseteq Leaves
        /\ <<"training", "tokens">> \in DOMAIN config
        /\ \A path \in DOMAIN config : config[path] > 0
        /\ config[<<"checkpointing", "interval">>] <= config[<<"training", "tokens">>]
        /\ Given("d0_primitive_semantics") => Given("d0")

(* resolve_config: the file is read, parsed, overridden and validated; any  *)
(* failure is a ConfigResolutionError.                                      *)
Resolves(file, tokens) ==
    /\ YamlAccepted(file)
    /\ OverridesAccepted(tokens)
    /\ \A i \in DOMAIN tokens : PathAccepted(tokens[i].path)
    /\ ConfigAccepted(Overridden(file.content, tokens))

(* canonical_bytes: only the effective configuration enters, not the file   *)
(* nor the tokens it came from.                                             *)
CanonicalBytes(file, tokens) == Effective(Overridden(file.content, tokens))
=============================================================================
