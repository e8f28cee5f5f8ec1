------------------------------ MODULE Promotion ------------------------------
(***************************************************************************)
(* Promotion of candidate images to Docker Hub: the four root workflows    *)
(* (auto-promote, promote-preview, promote-beta, promote-ga), the shared   *)
(* _promote-image and _finalize-release, and the scripts they call.        *)
(*                                                                         *)
(* A workflow run is a process.  The concurrency group image-promotion     *)
(* admits one run at a time and keeps at most one more waiting.  A step    *)
(* may fail at any point and its effects stay; the failed job may be       *)
(* started again, with the outputs of the jobs that succeeded.             *)
(*                                                                         *)
(* The registry and Git are external: a registry tag names the digest      *)
(* built from a commit, a Git tag the commit, both written as the commit.  *)
(***************************************************************************)
EXTENDS ReleaseRules

CONSTANTS Candidates,   \* pushed commits [sha, branch, version, changelog]
          Manual,       \* dispatches people may make [sha, branch, channel, tag]
          Runs,         \* workflow runs
          StrayTags,    \* Git tags that exist at the start: sets of <<version, sha>>
          MaxReruns     \* how often a failed job is started again

\* Versions have one of the three channels and are numbered, and people
\* dispatch commits that were pushed.
ASSUME ReleaseAssumption ==
    /\ MVP_RELEASE \in Nat
    /\ \A c \in Candidates : c.sha # None /\ c.version \in [channel : Channels, base : Nat, n : Nat]
    /\ Manual \subseteq [sha : {c.sha : c \in Candidates}, branch : {c.branch : c \in Candidates}, channel : Channels,
                         tag : {c.version : c \in Candidates} \union {NoTag}]

VARIABLES run,        \* the workflow runs
          registry,   \* tag -> digest
          attested,   \* digests with provenance and SBOM attestations
          git_tags,   \* Git tag v<version> -> commit
          releases,   \* GitHub Releases [version, digest, pointer, since]
          pushed,     \* commits whose CI completion has started auto-promote
          reruns

vars == <<run, registry, attested, git_tags, releases, pushed, reruns>>

Shas == {c.sha : c \in Candidates}
Versions == {c.version : c \in Candidates}
Tags == Versions \union {Latest, BetaLatest, MvpVersion}
Branches == {c.branch : c \in Candidates}

Wants == [sha : Shas, branch : Branches, channel : Channels, tag : Versions \union {NoTag}]

Steps == {"resolve", "locate", "rescan", "approval", "validate", "publish", "attest",
          "pointer", "move", "tag", "release", "end"}

RunRecord == [state : {"free", "pending", "running", "failed", "done", "cancelled"},
              pc : Steps, want : Wants \union {[sha |-> None]}, todo : SUBSET Tags, updated : BOOLEAN]

FreeRun == [state |-> "free", pc |-> "end", want |-> [sha |-> None], todo |-> {}, updated |-> FALSE]

CommitOf(sha) == CHOOSE c \in Candidates : c.sha = sha
VersionOf(sha) == CommitOf(sha).version

list_tags == {t \in Tags : registry[t] # None}

Init ==
    /\ run = [r \in Runs |-> FreeRun]
    /\ registry = [t \in Tags |-> None]
    /\ attested = {} /\ releases = {} /\ pushed = {} /\ reruns = 0
    /\ \E stray \in StrayTags :
           git_tags = [v \in Versions |->
                          IF \E s \in Shas : <<v, s>> \in stray THEN CHOOSE s \in Shas : <<v, s>> \in stray ELSE None]

-----------------------------------------------------------------------------
(* The concurrency group.                                                  *)

\* A newer waiting run replaces the one that waits.
Queue(r, record) ==
    run' = [q \in Runs |-> IF q = r THEN record
                           ELSE IF run[q].state = "pending" THEN [run[q] EXCEPT !.state = "cancelled"]
                           ELSE run[q]]

AdmitAtOnce(r) ==
    /\ run[r].state = "pending"
    /\ run' = [run EXCEPT ![r].state = "running"]
    /\ UNCHANGED <<registry, attested, git_tags, releases, pushed, reruns>>

Admit(r) ==
    /\ run[r].state = "pending"
    /\ \A q \in Runs : run[q].state # "running"
    /\ run' = [run EXCEPT ![r].state = "running"]
    /\ UNCHANGED <<registry, attested, git_tags, releases, pushed, reruns>>

\* CI succeeded for a push: auto-promote resolves branch, channel and tag.
CiCompleted(r, c) ==
    /\ run[r].state = "free"
    /\ c \notin pushed /\ CiPasses(c)
    /\ Queue(r, [state |-> "pending", pc |-> "resolve",
                 want |-> [sha |-> c.sha, branch |-> c.branch, channel |-> BranchChannel(c.branch),
                           tag |-> IF BranchChannel(c.branch) = "ga" THEN c.version ELSE NoTag],
                 todo |-> {}, updated |-> FALSE])
    /\ pushed' = pushed \union {c}
    /\ UNCHANGED <<registry, attested, git_tags, releases, reruns>>

\* promote-preview and promote-beta check the kind of branch, promote-ga is
\* for main.
Dispatch(r, want) ==
    /\ run[r].state = "free"
    /\ Queue(r, [state |-> "pending", pc |-> "locate", want |-> want, todo |-> {}, updated |-> FALSE])
    /\ UNCHANGED <<registry, attested, git_tags, releases, pushed, reruns>>

\* The first step of the job that a failed step belongs to.
JobStart(pc) ==
    CASE pc \in {"approval", "validate", "publish", "attest", "pointer", "move"} -> "approval"
      [] pc \in {"tag", "release"} -> "tag"
      [] OTHER -> pc

Rerun(r) ==
    /\ run[r].state = "failed" /\ reruns < MaxReruns
    /\ Queue(r, [run[r] EXCEPT !.state = "pending", !.pc = JobStart(@), !.todo = {}])
    /\ reruns' = reruns + 1
    /\ UNCHANGED <<registry, attested, git_tags, releases, pushed>>

-----------------------------------------------------------------------------
(* The steps of a run.                                                     *)

At(r, pc) == run[r].state = "running" /\ run[r].pc = pc

Goto(r, pc) == run' = [run EXCEPT ![r].pc = pc]
Ends(r, state) == run' = [run EXCEPT ![r].state = state]

\* A rejected approval, a failed scan or check, a registry, Git or network error.
Fail(r) ==
    /\ run[r].state = "running"
    /\ Ends(r, "failed")
    /\ UNCHANGED <<registry, attested, git_tags, releases, pushed, reruns>>

\* The manifest artifact may have expired when a job is started again.
Resolve(r, manifest_available) ==
    LET c == CommitOf(run[r].want.sha)
        decision == resolve_auto_promotion(c, manifest_available, list_tags, git_tags[c.version])
    IN  /\ At(r, "resolve")
        /\ CASE decision = "promote" -> Goto(r, "locate")
             [] decision = "skip" -> Ends(r, "done")
             [] OTHER -> Ends(r, "failed")
        /\ UNCHANGED <<registry, attested, git_tags, releases, pushed, reruns>>

\* The successful push CI run for this commit on this branch, and its manifest.
Located(want) == CommitOf(want.sha).branch = want.branch /\ CiPasses(CommitOf(want.sha))

ManifestOf(want) == build_promotion_manifest(CommitOf(want.sha))

Locate(r) ==
    /\ At(r, "locate")
    /\ IF Located(run[r].want) /\ validate_promotion(ManifestOf(run[r].want), run[r].want, list_tags)
       THEN Goto(r, "rescan")
       ELSE Ends(r, "failed")
    /\ UNCHANGED <<registry, attested, git_tags, releases, pushed, reruns>>

Rescan(r) ==
    /\ At(r, "rescan")
    /\ Goto(r, "approval")
    /\ UNCHANGED <<registry, attested, git_tags, releases, pushed, reruns>>

Approve(r) ==
    /\ At(r, "approval")
    /\ Goto(r, "validate")
    /\ UNCHANGED <<registry, attested, git_tags, releases, pushed, reruns>>

\* The Git tag the run was given, if it was given one, must not be another's.
TagIsFree(want) == want.tag # NoTag => git_tags[want.tag] \in {None, want.sha}

Validate(r) ==
    LET want == run[r].want
    IN  /\ At(r, "validate")
        /\ IF TagIsFree(want) /\ validate_promotion(ManifestOf(want), want, list_tags)
           THEN run' = [run EXCEPT ![r].pc = "publish", ![r].todo = publication_tags(VersionOf(want.sha))]
           ELSE Ends(r, "failed")
        /\ UNCHANGED <<registry, attested, git_tags, releases, pushed, reruns>>

\* imagetools create writes the tags one by one, in no order we rely on.
Publish(r, t) ==
    /\ At(r, "publish") /\ t \in run[r].todo
    /\ registry' = [registry EXCEPT ![t] = run[r].want.sha]
    /\ run' = [run EXCEPT ![r].todo = @ \ {t}, ![r].pc = IF run[r].todo = {t} THEN "attest" ELSE @]
    /\ UNCHANGED <<attested, git_tags, releases, pushed, reruns>>

\* A preview gets no Git tag and no Release.
Attest(r) ==
    /\ At(r, "attest")
    /\ attested' = attested \union {run[r].want.sha}
    /\ CASE run[r].want.channel = "beta" -> Goto(r, "pointer")
         [] run[r].want.channel = "ga" -> Goto(r, "tag")
         [] OTHER -> run' = [run EXCEPT ![r].pc = "end", ![r].state = "done"]
    /\ UNCHANGED <<registry, git_tags, releases, pushed, reruns>>

\* update_beta_latest up to the inspection of the exact tag.
CheckPointer(r) ==
    LET sha == run[r].want.sha
        v == VersionOf(sha)
    IN  /\ At(r, "pointer")
        /\ CASE v \notin list_tags -> Ends(r, "failed")
             [] v \in list_tags /\ ~should_update_beta_latest(v, list_tags) -> Goto(r, "tag")
             [] OTHER -> IF registry[v] = sha THEN Goto(r, "move") ELSE Ends(r, "failed")
        /\ UNCHANGED <<registry, attested, git_tags, releases, pushed, reruns>>

\* The rest of update_beta_latest: the alias is written, and inspected; the job
\* fails when the inspection does, and the alias stays.
MovePointer(r) ==
    /\ At(r, "move")
    /\ registry' = [registry EXCEPT ![BetaLatest] = run[r].want.sha]
    /\ \/ run' = [run EXCEPT ![r].pc = "tag", ![r].updated = TRUE]
       \/ Ends(r, "failed")
    /\ UNCHANGED <<attested, git_tags, releases, pushed, reruns>>

CreateTagAnew(r) ==
    LET sha == run[r].want.sha
        v == VersionOf(sha)
    IN  /\ At(r, "tag")
        /\ git_tags' = [git_tags EXCEPT ![v] = IF @ = None THEN sha ELSE @]
        /\ Goto(r, "release")
        /\ UNCHANGED <<registry, attested, releases, pushed, reruns>>

CreateTag(r) ==
    LET sha == run[r].want.sha
        v == VersionOf(sha)
    IN  /\ At(r, "tag")
        /\ IF git_tags[v] \in {None, sha}
           THEN git_tags' = [git_tags EXCEPT ![v] = sha] /\ Goto(r, "release")
           ELSE Ends(r, "failed") /\ UNCHANGED git_tags
        /\ UNCHANGED <<registry, attested, releases, pushed, reruns>>

Released(v) == \E rel \in releases : rel.version = v

\* An existing Release is left alone; a GA needs its CHANGELOG section
\* (check_changelog); the notes start at the previous tag of the channel.
CreateRelease(r) ==
    LET sha == run[r].want.sha
        v == VersionOf(sha)
        tagged == {w \in Versions : git_tags[w] # None}
        note == [version |-> v, digest |-> sha, pointer |-> run[r].updated,
                 since |-> previous_release_tag(v, tagged)]
    IN  /\ At(r, "release")
        /\ IF ~Released(v) /\ ~check_changelog(CommitOf(sha))
           THEN Ends(r, "failed") /\ UNCHANGED releases
           ELSE /\ run' = [run EXCEPT ![r].pc = "end", ![r].state = "done"]
                /\ releases' = IF Released(v) THEN releases ELSE releases \union {note}
        /\ UNCHANGED <<registry, attested, git_tags, pushed, reruns>>

Next ==
    \E r \in Runs :
        \/ \E c \in Candidates : CiCompleted(r, c)
        \/ \E want \in Manual : Dispatch(r, want)
        \/ Admit(r)
        \/ Rerun(r)
        \/ Fail(r)
        \/ \E available \in BOOLEAN : Resolve(r, available)
        \/ Locate(r)
        \/ Rescan(r)
        \/ Approve(r)
        \/ Validate(r)
        \/ \E t \in run[r].todo : Publish(r, t)
        \/ Attest(r)
        \/ CheckPointer(r)
        \/ MovePointer(r)
        \/ CreateTag(r)
        \/ CreateRelease(r)

Spec == Init /\ [][Next]_vars

-----------------------------------------------------------------------------
(* Properties.                                                             *)

\* Every variable has its type.
TypeOK ==
    /\ run \in [Runs -> RunRecord]
    /\ registry \in [Tags -> Shas \union {None}]
    /\ attested \subseteq Shas
    /\ git_tags \in [Versions -> Shas \union {None}]
    /\ \A rel \in releases : rel.version \in Versions /\ rel.digest \in Shas

\* A version that has been published keeps its image: whatever runs, fails
\* and is started again, an exact version tag never names another digest and
\* never disappears (require_not_already_published, asked again after the
\* approval, under the lock of the root workflows).
PublishedVersionsAreImmutable ==
    [][\A v \in Versions : registry[v] # None => registry'[v] = registry[v]]_vars

\* An MVP beta that reached its Release has not left the pointer on an older
\* beta, unless 2.0.0 froze it or the promotion of a newer beta stopped
\* between its version tag and the pointer (update_beta_latest).
PointerCoversFinishedBetas ==
    \A rel \in releases :
        IsMvpBeta(rel.version) =>
            \/ registry[MvpVersion] # None
            \/ registry[BetaLatest] # None /\ ~Older(VersionOf(registry[BetaLatest]), rel.version)
            \/ \E v \in list_tags : IsMvpBeta(v) /\ Older(rel.version, v) /\ ~Released(v)

\* "a Release can never exist for an image that failed to publish": a Release
\* names the digest its version tag still has, attested, and its Git tag is on
\* the commit the image was built from (_finalize-release).
ReleasesFollowPublication ==
    \A rel \in releases :
        /\ registry[rel.version] = rel.digest
        /\ rel.digest \in attested
        /\ git_tags[rel.version] = rel.digest

=============================================================================
