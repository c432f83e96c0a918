----------------------------- MODULE Submission -----------------------------
(***************************************************************************)
(* A submission: what of a model repository is downloaded (submission.py)  *)
(* and what the check finds wrong with it (model/fingerprint.py).          *)
(*                                                                         *)
(* A repository is its files, each <<directory, kind>>, and per skill how  *)
(* its configuration and its tensors compare with the skill's template.    *)
(***************************************************************************)
EXTENDS Naturals, FiniteSets

CONSTANTS
    Skills,    \* spec.skills
    MaxBytes   \* spec.model.max_repo_bytes, in files

Required == {"config.yaml", "model.safetensors"}
Allowed == Required \cup {"readme", "hidden"}   \* "hidden" is a dotfile
Kinds == Allowed \cup {"pickle"}
Comparisons == {"template", "differs", "dtype", "unreadable"}

Repositories ==
    [files: SUBSET ((Skills \cup {"root"}) \X Kinds),
     config: [Skills -> Comparisons],
     tensors: [Skills -> Comparisons]]

AllowListed(files) == {f \in files : f[2] \in Allowed}

(* fetch_model() refuses a repository before it downloads any of it.       *)
Refused(repo) ==
    \/ Cardinality(AllowListed(repo.files)) > MaxBytes
    \/ AllowListed(repo.files) = {}

(* What is there to check and to run: the allow-listed files, or, for a    *)
(* repository that is mapped to a local directory, that directory.         *)
Fetched(repo, mapped) ==
    IF mapped THEN repo ELSE [repo EXCEPT !.files = AllowListed(@)]

KindsIn(repo, s) == {f[2] : f \in {g \in repo.files : g[1] = s}}

Compared(what, s, comparison) ==
    IF comparison = "template" THEN {} ELSE {<<what, s, comparison>>}

CheckSkill(repo, s) ==
    IF ~(Required \subseteq KindsIn(repo, s))
    THEN {<<"missing", s, k>> : k \in Required \ KindsIn(repo, s)}
    ELSE Compared("config", s, repo.config[s])
         \cup IF repo.config[s] = "unreadable" THEN {}
              ELSE Compared("tensors", s, repo.tensors[s])

Visible(repo) == {f \in repo.files : f[2] # "hidden"}

CheckSubmission(repo) ==
    {<<"extension", f[1], f[2]>> : f \in Visible(repo) \ AllowListed(repo.files)}
    \cup (IF Cardinality(Visible(repo)) > MaxBytes THEN {<<"bytes", "root", "all">>} ELSE {})
    \cup UNION {IF KindsIn(repo, s) = {} THEN {<<"directory", s, "missing">>}
                ELSE CheckSkill(repo, s) : s \in Skills}

(* PolicyBase.load() builds the template's policy and loads the weights    *)
(* strictly: names and shapes must fit; config.yaml is not looked at.      *)
Loads(repo) ==
    \A s \in Skills : /\ "model.safetensors" \in KindsIn(repo, s)
                      /\ repo.tensors[s] \in {"template", "dtype"}
=============================================================================
