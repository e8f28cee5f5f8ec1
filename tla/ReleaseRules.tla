---------------------------- MODULE ReleaseRules ----------------------------
(***************************************************************************)
(* The rules of a release (scripts/release_metadata.py): the channel of a  *)
(* version, the branch it is published from, the tags it is published      *)
(* under, who may move the MVP beta pointer; and the two decisions built   *)
(* on them (scripts/resolve_auto_promotion.py, validate_promotion.py).     *)
(*                                                                         *)
(* A version is [channel, base, n]: base numbers X.Y.Z in order, n is the  *)
(* beta or preview number.  The two moving tags have the shape of a        *)
(* version, so that a tag is one type.                                     *)
(***************************************************************************)
EXTENDS Naturals, FiniteSets, Sequences, Folds

CONSTANTS MVP_RELEASE   \* base of the release whose betas the pointer follows

Channels == {"preview", "beta", "ga"}

Version(channel, base, n) == [channel |-> channel, base |-> base, n |-> n]
Latest == Version("latest", 0, 0)
BetaLatest == Version("beta-latest", 0, 0)
NoTag == Version("none", 0, 0)
MvpVersion == Version("ga", MVP_RELEASE, 0)

None == "none"

Branch(kind, base) == [kind |-> kind, base |-> base]

Rank(channel) == CASE channel = "preview" -> 0 [] channel = "beta" -> 1 [] OTHER -> 2

\* packaging.version orders X.Y.Z.devN before X.Y.ZbN before X.Y.Z.
Older(v, w) ==
    \/ v.base < w.base
    \/ v.base = w.base /\ Rank(v.channel) < Rank(w.channel)
    \/ v.base = w.base /\ v.channel = w.channel /\ v.n < w.n

BranchCompatible(v, branch) ==
    CASE v.channel = "preview" -> branch.kind = "preview"
      [] v.channel = "beta" -> branch = Branch("release", v.base)
      [] OTHER -> branch.kind = "main"

publication_tags(v) == IF v.channel = "ga" THEN {v, Latest} ELSE {v}

IsMvpBeta(v) == v.channel = "beta" /\ v.base = MVP_RELEASE

should_update_beta_latest_strict(v, tags) ==
    /\ IsMvpBeta(v)
    /\ MvpVersion \notin tags
    /\ \A t \in {u \in tags : IsMvpBeta(u)} : Older(t, v)

should_update_beta_latest(v, tags) ==
    /\ IsMvpBeta(v)
    /\ MvpVersion \notin tags
    /\ \A t \in {u \in tags : IsMvpBeta(u)} : ~Older(v, t)

-----------------------------------------------------------------------------
(* The manifest that CI writes beside the candidate images.                *)

Platforms == {"amd64", "arm64"}

build_promotion_manifest(c) ==
    [source_sha |-> c.sha, raw_version |-> c.version, platforms |-> Platforms,
     revision |-> c.sha, version |-> c.version]

\* What CI reports for a pushed commit: validate_release fails on a version
\* that the branch does not publish.
CiPasses(c) == BranchCompatible(c.version, c.branch)

BranchChannel(branch) ==
    CASE branch.kind = "main" -> "ga"
      [] branch.kind = "preview" -> "preview"
      [] branch.kind = "release" -> "beta"
      [] OTHER -> None

\* "promote", "skip" (a notice, no approval is asked for) or "error".
resolve_auto_promotion(c, manifest_available, published, tag_target) ==
    LET expected == BranchChannel(c.branch)
        skips == \/ ~manifest_available
                 \/ expected = None
                 \/ ~BranchCompatible(c.version, c.branch)
                 \/ c.version.channel # expected
                 \/ c.version \in published
        moved == expected = "ga" /\ tag_target \notin {None, c.sha}
    IN  CASE skips -> "skip" [] ~skips /\ moved -> "error" [] OTHER -> "promote"

ManifestMatches(m, want) ==
    /\ m.source_sha = want.sha
    /\ m.platforms = Platforms
    /\ BranchCompatible(m.raw_version, want.branch)
    /\ m.raw_version.channel = want.channel
    /\ m.revision = want.sha /\ m.version = m.raw_version

TagMatches(m, want) == m.raw_version.channel = "ga" => want.tag = m.raw_version

validate_promotion(m, want, published) ==
    ManifestMatches(m, want) /\ TagMatches(m, want) /\ m.raw_version \notin published

-----------------------------------------------------------------------------
(* The release the notes are generated from (scripts/release_notes.py).    *)

\* A GA needs its section of CHANGELOG.md; a beta is only warned about.
check_changelog(c) == c.version.channel = "ga" => c.changelog

Better(v, best, w) ==
    IF w.channel = v.channel /\ Older(w, v) /\ (best = NoTag \/ Older(best, w)) THEN w ELSE best

\* One pass over the tags, in the order git lists them: any.
previous_release_tag(v, tags) ==
    MapThenFoldSet(LAMBDA w, best : Better(v, best, w), NoTag, LAMBDA w : w, LAMBDA S : CHOOSE w \in S : TRUE, tags)
=============================================================================
