--------------------------- MODULE SourceSnapshot ---------------------------
(***************************************************************************)
(* provenance/source_snapshot.py: what git and the working tree say of the *)
(* source, the evidence a dirty tree leaves, and the validators its record *)
(* has to pass. Operators only; RunPreparation takes the steps.            *)
(*                                                                         *)
(* Contents and commits are numbers, 0 for none; a digest is the value it  *)
(* is computed from; a tuple the code keeps sorted and unique is a set.    *)
(* Not modelled: ignored files, file modes, renames, branch names.         *)
(***************************************************************************)
EXTENDS Integers, FiniteSets

CONSTANTS
    Files,   \* paths git may track
    Links,   \* paths of submodules
    Others   \* paths that only ever hold untracked entries

ASSUME PathsAreDistinct ==
    Files \cap Links = {} /\ Files \cap Others = {} /\ Links \cap Others = {}

Paths == Files \cup Links \cup Others
ASSUME PathsAreFinite == IsFiniteSet(Paths)

(* Trees are records: head, index and work give the content of each file,   *)
(* other the kind and data of each untracked entry, link of each submodule  *)
(* the commits recorded in head and index, the one checked out (0 when not  *)
(* initialized), what was changed inside, and whether a merge left it       *)
(* conflicted; commit and remote are what rev-parse and config answer.      *)
IsTree(t) ==
    /\ t.head \in [Files -> Nat] /\ t.index \in [Files -> Nat] /\ t.work \in [Files -> Nat]
    /\ t.other = [o \in Others |-> [kind |-> t.other[o].kind, data |-> t.other[o].data]]
    /\ \A o \in Others : t.other[o].kind = "absent" => t.other[o].data = 0
    /\ t.link \in [Links -> [head : Nat, index : Nat, checked : Nat, local : Nat,
                             conflict : BOOLEAN]]
    /\ \A m \in Links : /\ t.link[m].checked = 0 => t.link[m].local = 0
                        /\ t.link[m].conflict => t.link[m].index # 0

----------------------------------------------------------------------------
(* What git answers.                                                        *)

Change(a, b) ==
    IF a = b THEN " " ELSE CASE a = 0 -> "A" [] b = 0 -> "D" [] OTHER -> "M"

Entry(path, x, y, slash) == [path |-> path, x |-> x, y |-> y, slash |-> slash]

(* A file of the index, with what is staged and what is not; a file on disk *)
(* that the index has dropped is both deleted and untracked.                *)
FileEntries(t, f) ==
    {Entry(f, Change(t.head[f], t.index[f]),
              IF t.index[f] = 0 THEN " " ELSE Change(t.index[f], t.work[f]), FALSE)}
        \cup {Entry(f, "?", "?", FALSE) : w \in IF t.index[f] = 0 THEN {t.work[f]} \ {0} ELSE {}}

(* A submodule: its commit against the index, and any change inside. One    *)
(* the index has dropped is a nested repository, listed with a slash.       *)
LinkEntries(t, m) ==
    LET l == t.link[m] IN
    IF l.conflict THEN {Entry(m, "U", "U", FALSE)}
    ELSE {Entry(m, Change(l.head, l.index),
                   IF l.index # 0 /\ l.checked # 0 /\ (l.checked # l.index \/ l.local # 0)
                   THEN "M" ELSE " ", FALSE)}
         \cup {Entry(m, "?", "?", TRUE) : c \in IF l.index = 0 THEN {l.checked} \ {0} ELSE {}}

(* git status --porcelain -z --untracked-files=all                          *)
Porcelain(t) ==
    {e \in (UNION {FileEntries(t, f) : f \in Files})
               \cup (UNION {LinkEntries(t, m) : m \in Links})
               \cup {Entry(o, "?", "?", t.other[o].kind = "nested") :
                        o \in {o \in Others : t.other[o].kind # "absent"}} :
        <<e.x, e.y>> # <<" ", " ">>}

IsDirty(t) == Porcelain(t) # {}

(* ls-tree of HEAD, the two diffs, and the gitlinks of the index. A diff    *)
(* names a submodule's commits and says that it is dirty, not how.          *)
CleanTreeDigest(t) == <<t.head, [m \in Links |-> t.link[m].head]>>
StagedDiff(t) ==
    {<<f, t.head[f], t.index[f]>> : f \in {f \in Files : t.head[f] # t.index[f]}}
    \cup {<<m, t.link[m].head, t.link[m].index>> :
             m \in {m \in Links : t.link[m].head # t.link[m].index}}
UnstagedDiff(t) ==
    {<<f, t.index[f], t.work[f]>> :
        f \in {f \in Files : t.index[f] \notin {0, t.work[f]}}}
    \cup {<<m, t.link[m].index, t.link[m].checked, t.link[m].local # 0>> :
             m \in {e.path : e \in {e \in Porcelain(t) : e.path \in Links /\ e.y \in {"M", "U"}}}}
Gitlinks(t) == {m \in Links : t.link[m].index # 0}

(* git submodule status: one line per gitlink, a prefix and the commit.     *)
SubmoduleLines(t) ==
    {[name |-> m, commit |-> IF t.link[m].checked = 0 THEN t.link[m].index ELSE t.link[m].checked,
      prefix |-> IF t.link[m].conflict THEN "U"
                 ELSE CASE t.link[m].checked = 0 -> "-"
                        [] t.link[m].checked = t.link[m].index -> " "
                        [] OTHER -> "+"] : m \in Gitlinks(t)}

----------------------------------------------------------------------------
(* The evidence of a dirty tree.                                            *)

(* _file_kind_and_digest: the tree may have changed since it was listed, so *)
(* the path of an entry may be gone.                                        *)
FileKindAndDigest(t, e) ==
    LET Found(kind, digest) ==
            [path |-> e.path, slash |-> e.slash, kind |-> kind, digest |-> digest]
        Content(blob) == IF blob = 0 THEN Found("unknown", 0) ELSE Found("file", blob)
    IN  CASE e.path \in Files -> Content(t.work[e.path])
          [] e.path \in Links -> Found(IF t.link[e.path].checked = 0 THEN "unknown" ELSE "other", 0)
          [] OTHER -> CASE t.other[e.path].kind = "absent" -> Found("unknown", 0)
                        [] t.other[e.path].kind = "unreadable" -> Found("file", 0)
                        [] t.other[e.path].kind \in {"file", "symlink"} ->
                               Found(t.other[e.path].kind, t.other[e.path].data)
                        [] OTHER -> Found("other", 0)

(* Which listed entries are of tracked gitlinks: their content is not taken.*)
DirtyGitlinks(listing, gitlinks) ==
    {e.path : e \in {e \in listing : e.path \in gitlinks /\ (e.x \notin {" ", "?"}
                                                              \/ e.y \notin {" ", "?"})}}

States == [p \in {" ", "-", "+", "~"} |->
             CASE p = " " -> "initialized" [] p = "-" -> "uninitialized"
               [] p = "+" -> "changed" [] OTHER -> "conflicted"]
DirtyStates == {"changed", "conflicted"}

(* Mutant of Submodules: every dirty gitlink is added, listed or not.       *)
Submodules_Added(lines, dirty, recorded) ==
    {[name |-> l.name, commit |-> l.commit, state |-> States[l.prefix]] :
        l \in {l \in lines : l.prefix \in DOMAIN States}}
    \cup {[name |-> m, commit |-> recorded[m], state |-> "changed"] :
             m \in {m \in dirty : recorded[m] # 0}}

(* The parsed lines, a line with another prefix skipped; then every dirty   *)
(* gitlink back-filled or upgraded to changed.                              *)
Submodules(lines, dirty, recorded) ==
    LET parsed == {[name |-> l.name, commit |-> l.commit, state |-> States[l.prefix]] :
                      l \in {l \in lines : l.prefix \in DOMAIN States}}
        Upgraded(s) == IF s.name \in dirty /\ s.state \notin DirtyStates
                       THEN [s EXCEPT !.state = "changed"] ELSE s
    IN  {Upgraded(s) : s \in parsed}
        \cup {[name |-> m, commit |-> recorded[m], state |-> "changed"] :
                 m \in {m \in dirty : recorded[m] # 0 /\ m \notin {s.name : s \in parsed}}}

Counts(listing, untracked, subs) ==
    LET Of(P(_)) == Cardinality({e \in listing : P(e)}) IN
    [staged |-> Of(LAMBDA e : e.x \notin {"?", " "}),
     unstaged |-> Of(LAMBDA e : e.y \notin {"?", " "}),
     deleted |-> Of(LAMBDA e : "D" \in {e.x, e.y}),
     untracked |-> Cardinality(untracked), submodules |-> Cardinality(subs)]

Standard == {<<"ignored_files_not_included", 0>>, <<"external_symlink_targets_not_followed", 0>>}
Unreadable(untracked) == Cardinality({e \in untracked : e.digest = 0})
DirtySubmodules(subs) == Cardinality({s.name : s \in {s \in subs : s.state \in DirtyStates}})

(* The four things that make evidence partial, each with its warning and    *)
(* its limitation.                                                          *)
Shortcomings(untracked, subs, submoduleFailed, gitlinkFailed) ==
    {s \in {[warning |-> "unreadable_untracked_content",
             limit |-> <<"unreadable_untracked_files", Unreadable(untracked)>>,
             holds |-> Unreadable(untracked) > 0],
            [warning |-> "submodule_inspection_failed",
             limit |-> <<"submodule_inspection_failed", 0>>, holds |-> submoduleFailed],
            [warning |-> "gitlink_discovery_failed",
             limit |-> <<"gitlink_discovery_failed", 0>>, holds |-> gitlinkFailed],
            [warning |-> "dirty_submodule_content_not_captured",
             limit |-> <<"dirty_submodules_not_snapshotted", DirtySubmodules(subs)>>,
             holds |-> DirtySubmodules(subs) > 0]} : s.holds}

(* _build_dirty_evidence: listing and gitlinks were read from an earlier    *)
(* tree, the diffs, the files and the submodules from this one. known is    *)
(* empty when ls-files failed.                                              *)
BuildDirtyEvidence(listing, known, gitlinkFailed, t, submoduleFailed) ==
    LET untracked == {FileKindAndDigest(t, e) : e \in {e \in listing : e.x = "?"}}
        subs == Submodules(IF submoduleFailed THEN {} ELSE SubmoduleLines(t),
                           DirtyGitlinks(listing, DOMAIN known), known)
        short == Shortcomings(untracked, subs, submoduleFailed, gitlinkFailed)
    IN  [staged |-> StagedDiff(t), unstaged |-> UnstagedDiff(t),
         untracked |-> untracked, subs |-> subs,
         counts |-> Counts(listing, untracked, subs),
         completeness |-> IF short = {} THEN "complete" ELSE "partial",
         limits |-> Standard \cup {s.limit : s \in short},
         warnings |-> {s.warning : s \in short}]

----------------------------------------------------------------------------
(* The validators of UntrackedEntry and SubmoduleEntry.                     *)

UntrackedAccepted(e) ==
    /\ ~e.slash
    /\ e.kind \in {"unknown", "other"} => e.digest = 0

SubmoduleAccepted(s) == s.commit = 0 => s.state = "uninitialized"

(* SourceEvidence._verify_evidence_invariants: counts, what complete and    *)
(* partial require, and each warning with its limitation and its fact.      *)
CountsAgree(e) ==
    /\ e.counts.untracked = Cardinality(e.untracked)
    /\ e.counts.submodules = Cardinality(e.subs)
    /\ Cardinality({u.path : u \in e.untracked}) = Cardinality(e.untracked)
    /\ Cardinality({s.name : s \in e.subs}) = Cardinality(e.subs)

CompletenessIsExplained(e) ==
    /\ e.completeness = "complete" =>
          Unreadable(e.untracked) = 0 /\ e.warnings = {} /\ e.limits \subseteq Standard
    /\ e.completeness = "partial" => e.warnings # {} \/ ~(e.limits \subseteq Standard)

WarningsAreLimitations(e) ==
    LET Limited(code) == code \in {l[1] : l \in e.limits}
        Warned(code) == code \in e.warnings
    IN  /\ Warned("dirty_submodule_content_not_captured")
              <=> Limited("dirty_submodules_not_snapshotted")
        /\ Warned("unreadable_untracked_content") <=> Limited("unreadable_untracked_files")
        /\ \A code \in {"submodule_inspection_failed", "gitlink_discovery_failed"} :
              Warned(code) <=> Limited(code)

LimitationsAreFacts(e) ==
    LET Stated(code) == {l[2] : l \in {l \in e.limits : l[1] = code}}
        Of(n) == IF n = 0 THEN {} ELSE {n}
    IN  /\ Stated("unreadable_untracked_files") = Of(Unreadable(e.untracked))
        /\ Stated("dirty_submodules_not_snapshotted") = Of(DirtySubmodules(e.subs))

EvidenceAccepted(e) ==
    /\ \A u \in e.untracked : UntrackedAccepted(u)
    /\ \A s \in e.subs : SubmoduleAccepted(s)
    /\ CountsAgree(e) /\ CompletenessIsExplained(e)
    /\ WarningsAreLimitations(e) /\ LimitationsAreFacts(e)

----------------------------------------------------------------------------
(* The remote and the snapshot.                                             *)

(* A raw remote is its shape (absent, https, scp, local), whether it has    *)
(* userinfo or a query, and whether its path contains an @.                 *)
Sanitized(r) ==
    CASE r.shape \in {"absent", "local"} -> <<>>
      [] r.shape = "https" -> <<[r EXCEPT !.user = FALSE, !.query = FALSE]>>
      [] OTHER -> <<r>>

RemoteWarnings(r) ==
    IF r.shape = "absent" THEN {}
    ELSE {w[1] : w \in {w \in {<<"remote_credentials_removed",
                                 r.shape = "https" /\ (r.user \/ r.at)>>,
                               <<"remote_query_fragment_removed", r.query>>,
                               <<"remote_local_or_unsupported_removed", Sanitized(r) = <<>> >>} :
                            w[2]}}

RemoteAccepted(remote, warnings) ==
    /\ \A i \in DOMAIN remote : ~remote[i].query /\ ~remote[i].at
                                  /\ (remote[i].shape = "https" => ~remote[i].user)
    /\ "remote_local_or_unsupported_removed" \in warnings => remote = <<>>
    /\ remote = <<>> /\ warnings # {} => "remote_local_or_unsupported_removed" \in warnings

(* _envelope_digest: the committed tree and the whole evidence record.      *)
EnvelopeDigest(tree, evidence) == <<tree, evidence>>

(* The record capture_source_snapshot builds; evidence is <<>> when clean.  *)
Snapshot(committed, evidence) ==
    [commit |-> committed.commit, tree |-> committed.tree,
     remote |-> Sanitized(committed.remote), warnings |-> RemoteWarnings(committed.remote),
     clean |-> evidence = <<>>, canonical |-> evidence = <<>>,
     evidence |-> evidence, digest |-> EnvelopeDigest(committed.tree, evidence)]

SnapshotAccepted(s) ==
    /\ s.clean <=> s.evidence = <<>>
    /\ s.clean <=> s.canonical
    /\ \A i \in DOMAIN s.evidence : s.evidence[i].completeness \in {"complete", "partial"}
    /\ RemoteAccepted(s.remote, s.warnings)
    /\ s.digest = EnvelopeDigest(s.tree, s.evidence)
=============================================================================
