--------------------------- MODULE PromotionProofs ---------------------------
(***************************************************************************)
(* Proofs about Promotion, for any commits, dispatches, runs and stray     *)
(* tags.  The inductive invariant says what a run knows about the registry *)
(* at each of its steps, whatever state it is in: a version tag it wrote   *)
(* stays, because a run that is still to write one found it missing while  *)
(* it held the lock that it still holds.                                   *)
(***************************************************************************)
EXTENDS Promotion, TLAPS

\* What a run record says about the registry, the attestations and the tags.
Knows(rec) ==
    LET sha == rec.want.sha
        v == VersionOf(sha)
    IN  /\ IF rec.state = "free" THEN rec.pc = "end" ELSE rec.want \in Wants
        /\ rec.state = "pending" => rec.pc # "publish"
        /\ rec.pc = "publish" =>
               /\ rec.todo \subseteq {v, Latest}
               /\ rec.state = "running" /\ v \in rec.todo => registry[v] = None
               /\ v \notin rec.todo => registry[v] = sha
        /\ rec.pc \in {"attest", "pointer", "move", "tag", "release"} => registry[v] = sha
        /\ rec.pc \in {"pointer", "move", "tag", "release"} => sha \in attested
        /\ rec.pc = "release" => git_tags[v] = sha

\* One run holds the lock.
OneRunner == \A q, r \in Runs : run[q].state = "running" /\ run[r].state = "running" => q = r

PInv == TypeOK /\ OneRunner /\ (\A r \in Runs : Knows(run[r])) /\ ReleasesFollowPublication

-----------------------------------------------------------------------------

\* The moving tags are not versions of a commit, and every commit has its
\* version.
LEMMA TagFacts ==
    /\ Latest \notin Versions /\ BetaLatest \notin Versions
    /\ None \notin Shas
    /\ Manual \subseteq Wants
    /\ \A s \in Shas : CommitOf(s) \in Candidates /\ VersionOf(s) \in Versions
    /\ \A v \in Versions : v \in Tags
    /\ Latest \in Tags /\ BetaLatest \in Tags
<1>1. \A s \in Shas : CommitOf(s) \in Candidates
  BY Zenon DEF Shas, CommitOf
<1>2. Latest \notin Versions /\ BetaLatest \notin Versions
  BY ReleaseAssumption DEF Versions, Latest, BetaLatest, Version, Channels
<1>3. Manual \subseteq Wants
  BY ReleaseAssumption, Zenon DEF Wants, Shas, Branches, Versions
<1> QED
  BY <1>1, <1>2, <1>3, ReleaseAssumption, Zenon DEF Versions, VersionOf, Shas, Tags

\* At the start nothing is published and nothing runs.
LEMMA InitPInv == Init => PInv
<1> SUFFICES ASSUME Init PROVE PInv
  BY Zenon
<1> USE DEF Init
<1>1. run \in [Runs -> RunRecord]
  BY Zenon DEF FreeRun, RunRecord, Steps
<1>2. git_tags \in [Versions -> Shas \union {None}]
  BY Zenon
<1>3. TypeOK
  BY <1>1, <1>2, Zenon DEF TypeOK
<1>4. OneRunner /\ (\A r \in Runs : Knows(run[r])) /\ ReleasesFollowPublication
  BY Zenon DEF FreeRun, OneRunner, Knows, ReleasesFollowPublication
<1> QED
  BY <1>3, <1>4, Zenon DEF PInv

\* A step that changes one run record and nothing outside it preserves the
\* invariant when the new record is true and the lock is not taken twice.
LEMMA LocalStep ==
    ASSUME PInv, NEW r \in Runs, NEW rec \in RunRecord, Knows(rec),
           run' = [run EXCEPT ![r] = rec],
           rec.state = "running" => \A q \in Runs \ {r} : run[q].state # "running",
           UNCHANGED <<registry, attested, git_tags, releases>>
    PROVE  PInv'
<1>1. TypeOK'
  BY Zenon DEF PInv, TypeOK
<1>2. OneRunner'
  BY Zenon DEF PInv, TypeOK, OneRunner
<1>3. \A q \in Runs : Knows(run[q])'
  BY ZenonT(60) DEF PInv, TypeOK, Knows
<1>4. ReleasesFollowPublication'
  BY Zenon DEF PInv, ReleasesFollowPublication
<1> QED
  BY <1>1, <1>2, <1>3, <1>4, Zenon DEF PInv

\* A run that joins the queue cancels the one that waits there.
LEMMA QueueStep ==
    ASSUME PInv, NEW r \in Runs, NEW rec \in RunRecord, Knows(rec),
           rec.state = "pending", Queue(r, rec),
           UNCHANGED <<registry, attested, git_tags, releases>>
    PROVE  PInv'
<1> USE DEF Queue
<1>1. TypeOK'
  BY Zenon DEF PInv, TypeOK, RunRecord
<1>2. OneRunner'
  BY ZenonT(60) DEF PInv, TypeOK, OneRunner, RunRecord
<1>3. ASSUME NEW q \in Runs PROVE Knows(run[q])'
  <2>1. CASE q = r
    BY <2>1, Zenon DEF PInv, TypeOK, Knows
  <2>2. CASE q # r /\ run[q].state = "pending"
    BY <2>2, ZenonT(60) DEF PInv, TypeOK, RunRecord, Knows
  <2>3. CASE q # r /\ run[q].state # "pending"
    BY <2>3, Zenon DEF PInv, TypeOK, Knows
  <2> QED
    BY <2>1, <2>2, <2>3, Zenon
<1>4. ReleasesFollowPublication'
  BY Zenon DEF PInv, ReleasesFollowPublication
<1> QED
  BY <1>1, <1>2, <1>3, <1>4, Zenon DEF PInv

\* What a run at one of its steps knows of the commit it was given.
LEMMA Given ==
    ASSUME PInv, NEW r \in Runs, run[r].state # "free"
    PROVE  /\ run[r] \in RunRecord /\ run[r].want \in Wants /\ run[r].want.sha \in Shas
           /\ VersionOf(run[r].want.sha) \in Versions
BY TagFacts, Zenon DEF PInv, TypeOK, Knows, Wants

\* A run that fails or ends keeps what it knows.
LEMMA EndStep ==
    ASSUME PInv, NEW r \in Runs, run[r].state = "running",
           NEW state \in {"failed", "done"}, Ends(r, state),
           UNCHANGED <<registry, attested, git_tags, releases>>
    PROVE  PInv'
<1> DEFINE rec == [run[r] EXCEPT !.state = state]
<1>1. run[r] \in RunRecord /\ Knows(run[r])
  BY Zenon DEF PInv, TypeOK
<1>2. rec \in RunRecord /\ Knows(rec) /\ rec.state # "running"
  BY <1>1, Zenon DEF RunRecord, Knows
<1>3. run' = [run EXCEPT ![r] = rec]
  BY Zenon DEF Ends
<1> QED
  BY <1>2, <1>3, LocalStep, Zenon

\* A run that goes on to a step without a claim of its own, or with the
\* claims it already had.
LEMMA GotoStep ==
    ASSUME PInv, NEW r \in Runs, run[r].state = "running",
           NEW pc \in Steps \ {"publish"}, Goto(r, pc),
           Knows([run[r] EXCEPT !.pc = pc]),
           UNCHANGED <<registry, attested, git_tags, releases>>
    PROVE  PInv'
<1> DEFINE rec == [run[r] EXCEPT !.pc = pc]
<1>1. run[r] \in RunRecord
  BY Zenon DEF PInv, TypeOK
<1>2. rec \in RunRecord
  BY <1>1, Zenon DEF RunRecord
<1>3. \A q \in Runs \ {r} : run[q].state # "running"
  BY Zenon DEF PInv, OneRunner
<1>4. run' = [run EXCEPT ![r] = rec]
  BY Zenon DEF Goto
<1> QED
  BY <1>2, <1>3, <1>4, LocalStep, Zenon

\* The steps before publication: queueing, checks and approval.
LEMMA EarlyStep ==
    ASSUME PInv, NEW r \in Runs,
           \/ \E c \in Candidates : CiCompleted(r, c)
           \/ \E want \in Manual : Dispatch(r, want)
           \/ Admit(r) \/ Rerun(r) \/ Fail(r)
           \/ \E available \in BOOLEAN : Resolve(r, available)
           \/ Locate(r) \/ Rescan(r) \/ Approve(r) \/ Validate(r)
    PROVE  PInv'
<1>0. run[r] \in RunRecord /\ Knows(run[r])
  BY Zenon DEF PInv, TypeOK
<1>1. ASSUME NEW c \in Candidates, CiCompleted(r, c) PROVE PInv'
  <2> DEFINE want == [sha |-> c.sha, branch |-> c.branch, channel |-> BranchChannel(c.branch),
                      tag |-> IF BranchChannel(c.branch) = "ga" THEN c.version ELSE NoTag]
             rec == [state |-> "pending", pc |-> "resolve", want |-> want, todo |-> {}, updated |-> FALSE]
  <2>1. BranchChannel(c.branch) \in Channels
    BY <1>1, ReleaseAssumption DEF CiCompleted, CiPasses, BranchCompatible, BranchChannel, Channels, Branch
  <2>2. want \in Wants
    BY <2>1, Zenon DEF Wants, Shas, Branches, Versions
  <2>3. rec \in RunRecord /\ Knows(rec)
    BY <2>2, Zenon DEF RunRecord, Steps, Knows
  <2>4. Queue(r, rec) /\ UNCHANGED <<registry, attested, git_tags, releases>>
    BY <1>1, Zenon DEF CiCompleted
  <2> QED
    BY <2>3, <2>4, QueueStep, Zenon
<1>2. ASSUME NEW want \in Manual, Dispatch(r, want) PROVE PInv'
  <2> DEFINE rec == [state |-> "pending", pc |-> "locate", want |-> want, todo |-> {}, updated |-> FALSE]
  <2>1. rec \in RunRecord /\ Knows(rec)
    BY TagFacts, Zenon DEF RunRecord, Steps, Knows
  <2>2. Queue(r, rec) /\ UNCHANGED <<registry, attested, git_tags, releases>>
    BY <1>2, Zenon DEF Dispatch
  <2> QED
    BY <2>1, <2>2, QueueStep, Zenon
<1>3. CASE Admit(r)
  <2> DEFINE rec == [run[r] EXCEPT !.state = "running"]
  <2>1. rec \in RunRecord /\ Knows(rec)
    BY <1>0, <1>3, Zenon DEF Admit, RunRecord, Knows
  <2>2. run' = [run EXCEPT ![r] = rec] /\ UNCHANGED <<registry, attested, git_tags, releases>>
    BY <1>3, Zenon DEF Admit
  <2>3. \A q \in Runs \ {r} : run[q].state # "running"
    BY <1>3, Zenon DEF Admit
  <2> QED
    BY <2>1, <2>2, <2>3, LocalStep, Zenon
<1>4. CASE Rerun(r)
  <2> DEFINE rec == [run[r] EXCEPT !.state = "pending", !.pc = JobStart(@), !.todo = {}]
  <2>1. /\ JobStart(run[r].pc) \in Steps \ {"publish"}
        /\ JobStart(run[r].pc) \in {"attest", "pointer", "move", "tag", "release"}
               => JobStart(run[r].pc) = "tag" /\ run[r].pc \in {"tag", "release"}
    BY <1>0, Zenon DEF JobStart, RunRecord, Steps
  <2>2. rec \in RunRecord /\ rec.state = "pending" /\ rec.want = run[r].want /\ rec.pc = JobStart(run[r].pc)
    BY <1>0, <2>1, Zenon DEF RunRecord
  <2>3. Knows(rec)
    BY <1>0, <1>4, <2>1, <2>2, Zenon DEF Rerun, Knows
  <2>4. Queue(r, rec) /\ UNCHANGED <<registry, attested, git_tags, releases>>
    BY <1>4, Zenon DEF Rerun
  <2> QED
    BY <2>2, <2>3, <2>4, QueueStep, Zenon
<1>5. CASE Fail(r)
  BY <1>5, EndStep, Zenon DEF Fail
<1>6. ASSUME NEW pc \in {"locate", "rescan", "approval", "validate"}, run[r].state = "running"
      PROVE  pc \in Steps \ {"publish"} /\ Knows([run[r] EXCEPT !.pc = pc])
  BY <1>0, <1>6, Zenon DEF RunRecord, Steps, Knows
<1>7. ASSUME NEW available \in BOOLEAN, Resolve(r, available) PROVE PInv'
  <2>1. run[r].state = "running" /\ UNCHANGED <<registry, attested, git_tags, releases>>
    BY <1>7, Zenon DEF Resolve, At
  <2>2. Goto(r, "locate") \/ Ends(r, "done") \/ Ends(r, "failed")
    BY <1>7, Zenon DEF Resolve
  <2> QED
    BY <1>6, <2>1, <2>2, GotoStep, EndStep, Zenon
<1>8. CASE Locate(r)
  <2>1. run[r].state = "running" /\ UNCHANGED <<registry, attested, git_tags, releases>>
    BY <1>8, Zenon DEF Locate, At
  <2>2. Goto(r, "rescan") \/ Ends(r, "failed")
    BY <1>8, Zenon DEF Locate
  <2> QED
    BY <1>6, <2>1, <2>2, GotoStep, EndStep, Zenon
<1>9. CASE Rescan(r)
  BY <1>6, <1>9, GotoStep, Zenon DEF Rescan, At
<1>10. CASE Approve(r)
  BY <1>6, <1>10, GotoStep, Zenon DEF Approve, At
<1>11. CASE Validate(r)
  <2> DEFINE want == run[r].want
             v == VersionOf(want.sha)
             rec == [run[r] EXCEPT !.pc = "publish", !.todo = publication_tags(v)]
  <2>1. run[r].state = "running" /\ UNCHANGED <<registry, attested, git_tags, releases>>
    BY <1>11, Zenon DEF Validate, At
  <2>2. CASE Ends(r, "failed")
    BY <2>1, <2>2, EndStep, Zenon
  <2>3. CASE /\ validate_promotion(ManifestOf(want), want, list_tags)
             /\ run' = [run EXCEPT ![r].pc = "publish", ![r].todo = publication_tags(v)]
    <3>1. want \in Wants /\ want.sha \in Shas /\ v \in Versions /\ v \in Tags /\ Latest \in Tags
      BY <2>1, Given, TagFacts, Zenon
    <3>2. v \notin list_tags
      BY <2>3, Zenon DEF validate_promotion, ManifestOf, build_promotion_manifest, VersionOf
    <3>3. registry[v] = None
      BY <3>1, <3>2, Zenon DEF list_tags
    <3>4. publication_tags(v) \subseteq {v, Latest} /\ v \in publication_tags(v)
      BY Zenon DEF publication_tags
    <3>5. rec \in RunRecord /\ rec.state = "running" /\ rec.want = want /\ rec.pc = "publish" /\ rec.todo = publication_tags(v)
      BY <1>0, <2>1, <3>1, <3>4, Zenon DEF RunRecord, Steps
    <3>6. Knows(rec)
      BY <3>1, <3>3, <3>4, <3>5, Zenon DEF Knows
    <3>7. run' = [run EXCEPT ![r] = rec] /\ \A q \in Runs \ {r} : run[q].state # "running"
      BY <2>1, <2>3, Zenon DEF PInv, OneRunner
    <3> QED
      BY <2>1, <3>5, <3>6, <3>7, LocalStep, Zenon
  <2> QED
    BY <1>11, <2>2, <2>3, Zenon DEF Validate
<1> QED
  BY <1>1, <1>2, <1>3, <1>4, <1>5, <1>7, <1>8, <1>9, <1>10, <1>11, Zenon

\* A version tag is written over a missing one: no version that is in the
\* registry changes.
LEMMA PublishStep ==
    ASSUME PInv, NEW r \in Runs, NEW t \in run[r].todo, Publish(r, t)
    PROVE  PInv' /\ (\A v \in Versions : registry[v] # None => registry'[v] = registry[v])
<1> DEFINE sha == run[r].want.sha
           v == VersionOf(sha)
           rec == [run[r] EXCEPT !.todo = @ \ {t}, !.pc = IF run[r].todo = {t} THEN "attest" ELSE @]
<1>1. run[r].state = "running" /\ run[r].pc = "publish" /\ UNCHANGED <<attested, git_tags, releases>>
  BY Zenon DEF Publish, At
<1>2. /\ run[r] \in RunRecord /\ Knows(run[r])
      /\ run[r].want \in Wants /\ sha \in Shas /\ v \in Versions /\ t \in Tags
  <2>1. run[r] \in RunRecord /\ Knows(run[r])
    BY Zenon DEF PInv, TypeOK
  <2> QED
    BY <1>1, <2>1, Given, Zenon DEF RunRecord
<1>3. run[r].todo \subseteq {v, Latest} /\ (v \in run[r].todo => registry[v] = None) /\ (v \notin run[r].todo => registry[v] = sha)
  BY <1>1, <1>2, Zenon DEF Knows
<1>4. registry' = [registry EXCEPT ![t] = sha] /\ registry \in [Tags -> Shas \union {None}]
  BY Zenon DEF Publish, PInv, TypeOK
<1>5. t = v \/ t = Latest
  BY <1>3, Zenon
<1>6. \A w \in Versions : registry[w] # None => registry'[w] = registry[w]
  BY <1>3, <1>4, <1>5, TagFacts, Zenon
<1>7. registry'[v] = IF t = v THEN sha ELSE registry[v]
  BY <1>2, <1>4, TagFacts, Zenon
<1>8. rec \in RunRecord /\ rec.state = "running" /\ rec.want = run[r].want
  BY <1>1, <1>2, Zenon DEF RunRecord, Steps
<1>9. rec.todo = run[r].todo \ {t} /\ rec.pc = IF run[r].todo = {t} THEN "attest" ELSE "publish"
  BY <1>1, <1>2, Zenon DEF RunRecord
<1>10. run' = [run EXCEPT ![r] = rec]
  BY Zenon DEF Publish
<1>11. TypeOK'
  BY <1>1, <1>2, <1>4, <1>8, <1>10, Zenon DEF PInv, TypeOK
<1>12. OneRunner'
  BY <1>8, <1>10, <1>1, Zenon DEF PInv, TypeOK, OneRunner
<1>13. ASSUME NEW q \in Runs PROVE Knows(run[q])'
  <2>1. CASE q = r
    <3>1. run'[q] = rec
      BY <1>10, <2>1, ZenonT(60) DEF PInv, TypeOK
    <3>2. CASE run[r].todo = {t}
      <4>1. registry'[v] = sha /\ rec.pc = "attest"
        BY <1>3, <1>7, <1>9, <3>2, ZenonT(60)
      <4> QED
        BY <1>2, <1>8, <3>1, <4>1 DEF Knows, VersionOf, CommitOf
    <3>3. CASE run[r].todo # {t}
      <4>1. rec.pc = "publish" /\ rec.todo \subseteq {v, Latest}
        BY <1>3, <1>9, <3>3, Zenon
      <4>2. v \in rec.todo => registry'[v] = None
        BY <1>3, <1>7, <1>9, Zenon
      <4>3. v \notin rec.todo => registry'[v] = sha
        BY <1>3, <1>7, <1>9, Zenon
      <4> QED
        BY <1>2, <1>8, <3>1, <4>1, <4>2, <4>3 DEF Knows, VersionOf, CommitOf
    <3> QED
      BY <3>2, <3>3, Zenon
  <2>2. CASE q # r
    <3> DEFINE w == VersionOf(run[q].want.sha)
    <3>1. run'[q] = run[q] /\ run[q].state # "running" /\ Knows(run[q])
      BY <1>1, <1>10, <2>2, Zenon DEF PInv, TypeOK, OneRunner
    <3>2. CASE run[q].state = "free"
      BY <3>1, <3>2, Zenon DEF Knows, VersionOf, CommitOf
    <3>3. CASE run[q].state # "free"
      <4>1. run[q].want.sha \in Shas /\ w \in Versions
        BY <3>3, Given, Zenon
      <4>2. registry[w] = run[q].want.sha => registry'[w] = run[q].want.sha
        BY <4>1, <1>6, TagFacts, Zenon
      <4> QED
        BY <1>1, <3>1, <3>3, <4>2, ZenonT(60) DEF Knows, VersionOf, CommitOf
    <3> QED
      BY <3>2, <3>3, Zenon
  <2> QED
    BY <2>1, <2>2, Zenon
<1>14. ReleasesFollowPublication'
  BY <1>1, <1>6, TagFacts, Zenon DEF PInv, TypeOK, ReleasesFollowPublication
<1> QED
  BY <1>6, <1>11, <1>12, <1>13, <1>14, Zenon DEF PInv

\* The run that wrote the pointer goes on to the Git tag, or has failed where
\* it was.
LEMMA MovedRecord ==
    ASSUME PInv, NEW r \in Runs, MovePointer(r)
    PROVE  \E rec : /\ run' = [run EXCEPT ![r] = rec]
                    /\ rec \in RunRecord /\ rec.want = run[r].want
                    /\ \/ rec.state = "running" /\ rec.pc = "tag"
                       \/ rec.state = "failed" /\ rec.pc = "move"
<1>1. run[r] \in RunRecord /\ run[r].state = "running" /\ run[r].pc = "move"
  BY Zenon DEF MovePointer, At, PInv, TypeOK
<1>2. CASE run' = [run EXCEPT ![r].pc = "tag", ![r].updated = TRUE]
  <2> DEFINE rec == [run[r] EXCEPT !.pc = "tag", !.updated = TRUE]
  <2>1. rec \in RunRecord /\ rec.state = "running" /\ rec.pc = "tag" /\ rec.want = run[r].want
    BY <1>1, Zenon DEF RunRecord, Steps
  <2>2. run' = [run EXCEPT ![r] = rec]
    BY <1>2, Zenon
  <2> QED
    BY <2>1, <2>2, Zenon
<1>3. CASE Ends(r, "failed")
  <2> DEFINE rec == [run[r] EXCEPT !.state = "failed"]
  <2>1. rec \in RunRecord /\ rec.state = "failed" /\ rec.pc = "move" /\ rec.want = run[r].want
    BY <1>1, Zenon DEF RunRecord
  <2>2. run' = [run EXCEPT ![r] = rec]
    BY <1>3, Zenon DEF Ends
  <2> QED
    BY <2>1, <2>2, Zenon
<1> QED
  BY <1>2, <1>3, Zenon DEF MovePointer

\* The steps after publication.
LEMMA LateStep ==
    ASSUME PInv, NEW r \in Runs,
           Attest(r) \/ CheckPointer(r) \/ MovePointer(r) \/ CreateTag(r) \/ CreateRelease(r)
    PROVE  PInv' /\ (\A v \in Versions : registry'[v] = registry[v])
<1> DEFINE sha == run[r].want.sha
           v == VersionOf(sha)
<1>1. /\ run[r].state = "running"
      /\ run[r].pc \in {"attest", "pointer", "move", "tag", "release"}
  BY Zenon DEF Attest, CheckPointer, MovePointer, CreateTag, CreateRelease, At
<1>2. run[r] \in RunRecord /\ Knows(run[r])
  BY Zenon DEF PInv, TypeOK
<1>3. run[r].want \in Wants /\ sha \in Shas /\ v \in Versions /\ v \in Tags
  BY <1>1, Given, TagFacts, Zenon
<1>4. registry[v] = sha /\ (run[r].pc # "attest" => sha \in attested) /\ (run[r].pc = "release" => git_tags[v] = sha)
  BY <1>1, <1>2, Zenon DEF Knows
<1>5. \A q \in Runs \ {r} : run[q].state # "running"
  BY <1>1, Zenon DEF PInv, OneRunner
<1>6. CASE Attest(r)
  <2>1. /\ attested' = attested \union {sha} /\ UNCHANGED <<registry, git_tags, releases>>
        /\ run[r].pc = "attest"
    BY <1>6, Zenon DEF Attest, At
  <2>2. PICK rec \in RunRecord : /\ run' = [run EXCEPT ![r] = rec]
                               /\ rec.want = run[r].want
                               /\ rec.pc \in {"pointer", "tag", "end"}
                               /\ rec.state \in {"running", "done"}
    <3>1. CASE run[r].want.channel = "beta"
      <4> DEFINE rec == [run[r] EXCEPT !.pc = "pointer"]
      <4>1. rec \in RunRecord /\ rec.want = run[r].want /\ rec.pc = "pointer" /\ rec.state = "running"
        BY <1>1, <1>2, Zenon DEF RunRecord, Steps
      <4>2. run' = [run EXCEPT ![r] = rec]
        BY <1>6, <3>1, Zenon DEF Attest, Goto
      <4> QED
        BY <4>1, <4>2, Zenon
    <3>2. CASE run[r].want.channel = "ga"
      <4> DEFINE rec == [run[r] EXCEPT !.pc = "tag"]
      <4>1. rec \in RunRecord /\ rec.want = run[r].want /\ rec.pc = "tag" /\ rec.state = "running"
        BY <1>1, <1>2, Zenon DEF RunRecord, Steps
      <4>2. run' = [run EXCEPT ![r] = rec]
        BY <1>6, <3>2, Zenon DEF Attest, Goto
      <4> QED
        BY <4>1, <4>2, Zenon
    <3>3. CASE run[r].want.channel \notin {"beta", "ga"}
      <4> DEFINE rec == [run[r] EXCEPT !.pc = "end", !.state = "done"]
      <4>1. rec \in RunRecord /\ rec.want = run[r].want /\ rec.pc = "end" /\ rec.state = "done"
        BY <1>1, <1>2, Zenon DEF RunRecord, Steps
      <4>2. run' = [run EXCEPT ![r] = rec]
        BY <1>6, <3>3, Zenon DEF Attest
      <4> QED
        BY <4>1, <4>2, Zenon
    <3> QED
      BY <3>1, <3>2, <3>3, Zenon
  <2>3. TypeOK'
    BY <1>3, <2>1, <2>2, Zenon DEF PInv, TypeOK
  <2>4. OneRunner'
    BY <1>5, <2>2, ZenonT(60) DEF PInv, TypeOK, OneRunner
  <2>5. ASSUME NEW q \in Runs PROVE Knows(run[q])'
    <3>1. CASE q = r
      BY <1>3, <1>4, <2>1, <2>2, <3>1, SMTT(60) DEF PInv, TypeOK, Knows, VersionOf, CommitOf
    <3>2. CASE q # r
      BY <2>1, <2>2, <3>2, ZenonT(60) DEF PInv, TypeOK, Knows, VersionOf, CommitOf
    <3> QED
      BY <3>1, <3>2, Zenon
  <2>6. ReleasesFollowPublication'
    BY <2>1, Zenon DEF PInv, ReleasesFollowPublication
  <2> QED
    BY <2>1, <2>3, <2>4, <2>5, <2>6, Zenon DEF PInv
<1>7. CASE CheckPointer(r)
  <2>1. UNCHANGED <<registry, attested, git_tags, releases>> /\ run[r].pc = "pointer"
    BY <1>7, Zenon DEF CheckPointer, At
  <2>2. Goto(r, "tag") \/ Goto(r, "move") \/ Ends(r, "failed")
    BY <1>7, Zenon DEF CheckPointer
  <2>3. ASSUME NEW pc \in {"tag", "move"} PROVE pc \in Steps \ {"publish"} /\ Knows([run[r] EXCEPT !.pc = pc])
    BY <1>2, <1>3, <1>4, <2>1, Zenon DEF RunRecord, Steps, Knows
  <2> QED
    BY <1>1, <2>1, <2>2, <2>3, GotoStep, EndStep, Zenon
<1>8. CASE MovePointer(r)
  <2>1. /\ registry' = [registry EXCEPT ![BetaLatest] = sha] /\ UNCHANGED <<attested, git_tags, releases>>
        /\ run[r].pc = "move"
    BY <1>8, Zenon DEF MovePointer, At
  <2>2. \A w \in Versions : registry'[w] = registry[w]
    BY <2>1, TagFacts, Zenon DEF PInv, TypeOK
  <2>3. PICK rec : /\ run' = [run EXCEPT ![r] = rec]
                   /\ rec \in RunRecord /\ rec.state \in {"running", "failed"} /\ rec.pc \in {"tag", "move"}
                   /\ rec.want = run[r].want
    BY <1>8, <1>1, MovedRecord, Zenon
  <2>4. TypeOK'
    BY <1>3, <2>1, <2>3, Zenon DEF PInv, TypeOK
  <2>5. OneRunner'
    BY <1>5, <2>1, <2>3, ZenonT(60) DEF PInv, TypeOK, OneRunner
  <2>6. ASSUME NEW q \in Runs PROVE Knows(run[q])'
    <3>1. CASE q = r
      BY <1>3, <1>4, <2>1, <2>2, <2>3, <3>1 DEF PInv, TypeOK, Knows, VersionOf, CommitOf
    <3>2. CASE q # r
      <4>1. run'[q] = run[q] /\ Knows(run[q])
        BY <2>3, <3>2, Zenon DEF PInv, TypeOK
      <4>2. CASE run[q].state = "free"
        BY <4>1, <4>2, Zenon DEF Knows
      <4>3. CASE run[q].state # "free"
        <5> DEFINE w == VersionOf(run[q].want.sha)
        <5>1. w \in Versions
          BY <4>3, Given, Zenon
        <5>2. registry[w] = run[q].want.sha => registry'[w] = run[q].want.sha
          BY <2>2, <5>1, Zenon
        <5>3. run[q].state # "running" /\ UNCHANGED <<attested, git_tags>>
          BY <1>5, <2>1, <3>2, Zenon
        <5> QED
          BY <4>1, <4>3, <5>2, <5>3, ZenonT(60) DEF Knows, VersionOf, CommitOf
      <4> QED
        BY <4>2, <4>3, Zenon
    <3> QED
      BY <3>1, <3>2, Zenon
  <2>7. ReleasesFollowPublication'
    BY <2>1, <2>2, Zenon DEF PInv, TypeOK, ReleasesFollowPublication
  <2> QED
    BY <2>2, <2>4, <2>5, <2>6, <2>7, Zenon DEF PInv
<1>9. CASE CreateTag(r)
  <2>1. UNCHANGED <<registry, attested, releases>> /\ run[r].pc = "tag"
    BY <1>9, Zenon DEF CreateTag, At
  <2>2. CASE Ends(r, "failed") /\ UNCHANGED git_tags
    BY <1>1, <2>1, <2>2, EndStep, Zenon
  <2>3. CASE git_tags[v] \in {None, sha} /\ git_tags' = [git_tags EXCEPT ![v] = sha] /\ Goto(r, "release")
    <3> DEFINE rec == [run[r] EXCEPT !.pc = "release"]
    <3>1. rec \in RunRecord /\ rec.state = "running" /\ rec.pc = "release" /\ rec.want = run[r].want
      BY <1>1, <1>2, Zenon DEF RunRecord, Steps
    <3>2. run' = [run EXCEPT ![r] = rec]
      BY <2>3, Zenon DEF Goto
    <3>3. git_tags'[v] = sha /\ \A w \in Versions, s \in Shas : git_tags[w] = s => git_tags'[w] = s
      BY <1>3, <2>3, TagFacts, Zenon DEF PInv, TypeOK
    <3>4. TypeOK'
      BY <1>3, <2>1, <2>3, <3>1, <3>2, Zenon DEF PInv, TypeOK
    <3>5. OneRunner'
      BY <1>5, <3>1, <3>2, Zenon DEF PInv, TypeOK, OneRunner
    <3>6. ASSUME NEW q \in Runs PROVE Knows(run[q])'
      <4>1. CASE q = r
        <5>1. registry[v] = sha /\ sha \in attested /\ run[r].want \in Wants
          BY <1>3, <1>4, <2>1, Zenon
        <5>2. run'[q] = rec /\ rec.want = run[r].want
          BY <1>3, <3>1, <3>2, <4>1, Zenon DEF PInv, TypeOK
        <5> HIDE DEF rec
        <5> QED
          BY <2>1, <3>1, <3>3, <5>1, <5>2, ZenonT(60) DEF Knows, VersionOf, CommitOf
      <4>2. CASE q # r
        <5>1. run'[q] = run[q] /\ Knows(run[q])
          BY <3>2, <4>2, Zenon DEF PInv, TypeOK
        <5>2. CASE run[q].state = "free"
          BY <5>1, <5>2, Zenon DEF Knows
        <5>3. CASE run[q].state # "free"
          <6> DEFINE w == VersionOf(run[q].want.sha)
          <6>1. w \in Versions /\ run[q].want.sha \in Shas
            BY <5>3, Given, Zenon
          <6>2. git_tags[w] = run[q].want.sha => git_tags'[w] = run[q].want.sha
            BY <3>3, <6>1, ZenonT(60)
          <6> QED
            BY <2>1, <5>1, <5>3, <6>2, ZenonT(60) DEF Knows, VersionOf, CommitOf
        <5> QED
          BY <5>2, <5>3, Zenon
      <4> QED
        BY <4>1, <4>2, Zenon
    <3>7. ReleasesFollowPublication'
      BY <2>1, <3>3, Zenon DEF PInv, TypeOK, ReleasesFollowPublication
    <3> QED
      BY <2>1, <3>4, <3>5, <3>6, <3>7, Zenon DEF PInv
  <2> QED
    BY <1>9, <2>1, <2>2, <2>3, Zenon DEF CreateTag
<1>10. CASE CreateRelease(r)
  <2>1. UNCHANGED <<registry, attested, git_tags>> /\ run[r].pc = "release"
    BY <1>10, Zenon DEF CreateRelease, At
  <2>2. CASE Ends(r, "failed") /\ UNCHANGED releases
    BY <1>1, <2>1, <2>2, EndStep, Zenon
  <2>3. CASE run' = [run EXCEPT ![r].pc = "end", ![r].state = "done"]
    <3> DEFINE rec == [run[r] EXCEPT !.pc = "end", !.state = "done"]
    <3>1. rec \in RunRecord /\ rec.state = "done" /\ rec.pc = "end" /\ rec.want = run[r].want
      BY <1>1, <1>2, Zenon DEF RunRecord, Steps
    <3>2. run' = [run EXCEPT ![r] = rec]
      BY <2>3, Zenon
    <3>3. \A rel \in releases' : rel \in releases \/ (rel.version = v /\ rel.digest = sha)
      <4> DEFINE note == [version |-> v, digest |-> sha, pointer |-> run[r].updated,
                          since |-> previous_release_tag(v, {w \in Versions : git_tags[w] # None})]
      <4>1. releases' = releases \/ releases' = releases \union {note}
        BY <1>10, Zenon DEF CreateRelease
      <4>2. note.version = v /\ note.digest = sha
        BY Zenon
      <4> HIDE DEF note
      <4> QED
        BY <4>1, <4>2, Zenon
    <3>4. TypeOK'
      BY <1>3, <2>1, <3>1, <3>2, <3>3, Zenon DEF PInv, TypeOK
    <3>5. OneRunner'
      BY <3>1, <3>2, Zenon DEF PInv, TypeOK, OneRunner
    <3>6. ASSUME NEW q \in Runs PROVE Knows(run[q])'
      BY <1>3, <2>1, <3>1, <3>2, ZenonT(60) DEF PInv, TypeOK, Knows, VersionOf, CommitOf
    <3>7. ReleasesFollowPublication'
      BY <1>4, <2>1, <3>3, Zenon DEF PInv, ReleasesFollowPublication
    <3> QED
      BY <2>1, <3>4, <3>5, <3>6, <3>7, Zenon DEF PInv
  <2> QED
    BY <1>10, <2>1, <2>2, <2>3, Zenon DEF CreateRelease
<1> QED
  BY <1>6, <1>7, <1>8, <1>9, <1>10, Zenon

-----------------------------------------------------------------------------

\* What every step keeps, and that no step changes a published version.
LEMMA Step ==
    ASSUME PInv, [Next]_vars
    PROVE  PInv' /\ (\A v \in Versions : registry[v] # None => registry'[v] = registry[v])
<1>1. CASE UNCHANGED vars
  <2>1. UNCHANGED <<run, registry, attested, git_tags, releases>>
    BY <1>1, Zenon DEF vars
  <2> QED
    BY <2>1, ZenonT(60) DEF PInv, TypeOK, OneRunner, Knows, VersionOf, CommitOf, ReleasesFollowPublication
<1>2. ASSUME NEW r \in Runs,
             \/ \E c \in Candidates : CiCompleted(r, c)
             \/ \E want \in Manual : Dispatch(r, want)
             \/ Admit(r) \/ Rerun(r) \/ Fail(r)
             \/ \E available \in BOOLEAN : Resolve(r, available)
             \/ Locate(r) \/ Rescan(r) \/ Approve(r) \/ Validate(r)
      PROVE  PInv' /\ registry' = registry
  <2>1. registry' = registry
    BY <1>2, Zenon DEF CiCompleted, Dispatch, Admit, Rerun, Fail, Resolve, Locate, Rescan, Approve, Validate
  <2> QED
    BY <1>2, <2>1, EarlyStep, Zenon
<1>3. ASSUME NEW r \in Runs, \E t \in run[r].todo : Publish(r, t)
      PROVE  PInv' /\ (\A v \in Versions : registry[v] # None => registry'[v] = registry[v])
  BY <1>3, PublishStep, Zenon
<1>4. ASSUME NEW r \in Runs,
             Attest(r) \/ CheckPointer(r) \/ MovePointer(r) \/ CreateTag(r) \/ CreateRelease(r)
      PROVE  PInv' /\ (\A v \in Versions : registry'[v] = registry[v])
  BY <1>4, LateStep, Zenon
<1>5. CASE Next
  <2>1. PICK r \in Runs :
           \/ \E c \in Candidates : CiCompleted(r, c)
           \/ \E want \in Manual : Dispatch(r, want)
           \/ Admit(r) \/ Rerun(r) \/ Fail(r)
           \/ \E available \in BOOLEAN : Resolve(r, available)
           \/ Locate(r) \/ Rescan(r) \/ Approve(r) \/ Validate(r)
           \/ \E t \in run[r].todo : Publish(r, t)
           \/ Attest(r) \/ CheckPointer(r) \/ MovePointer(r) \/ CreateTag(r) \/ CreateRelease(r)
    BY <1>5, Zenon DEF Next
  <2> QED
    BY <1>2, <1>3, <1>4, <2>1, Zenon
<1> QED
  BY <1>1, <1>5, Zenon

\* The knowledge of the runs is an invariant.
THEOREM PromotionInvariant == Spec => []PInv
<1>1. PInv /\ [Next]_vars => PInv'
  BY Step, Zenon
<1> QED
  BY <1>1, InitPInv, PTL DEF Spec

\* Every variable keeps its type.
THEOREM PromotionTypeCorrect == Spec => []TypeOK
<1>1. PInv => TypeOK
  BY Zenon DEF PInv
<1> QED
  BY <1>1, PromotionInvariant, PTL

\* No promotion, however it fails and is started again, moves a version tag
\* that is in the registry, although the question whether it is there was
\* asked before the approval and again only before the first tag is written.
THEOREM VersionsAreImmutable == Spec => PublishedVersionsAreImmutable
<1>1. PInv /\ [Next]_vars => [\A v \in Versions : registry[v] # None => registry'[v] = registry[v]]_vars
  BY Step, Zenon
<1> QED
  BY <1>1, PromotionInvariant, PTL DEF Spec, PublishedVersionsAreImmutable

\* A Release is never ahead of the image, the attestation and the Git tag it
\* names, and none of them is later taken away or moved.
THEOREM ReleasesAreLast == Spec => []ReleasesFollowPublication
<1>1. PInv => ReleasesFollowPublication
  BY Zenon DEF PInv
<1> QED
  BY <1>1, PromotionInvariant, PTL

-----------------------------------------------------------------------------
(* The pointer.  A beta may go on to its Release once it is covered; a     *)
(* newer beta that covers it by being unreleased is itself covered when it *)
(* is released.                                                            *)

\* The pointer is frozen, or is not behind v, or a newer beta is still to be
\* released.
Covered(v) ==
    \/ registry[MvpVersion] # None
    \/ registry[BetaLatest] # None /\ ~Older(VersionOf(registry[BetaLatest]), v)
    \/ \E w \in list_tags : IsMvpBeta(w) /\ Older(v, w) /\ ~Released(w)

\* What a run record says about the pointer.
Sees(rec) ==
    LET v == VersionOf(rec.want.sha)
    IN  /\ rec.pc \in {"publish", "attest", "pointer", "move", "tag", "release"} => v.channel = rec.want.channel
        /\ rec.pc = "move" =>
               /\ rec.state # "pending"
               /\ rec.state = "running" => should_update_beta_latest(v, list_tags)
        /\ rec.pc \in {"tag", "release"} /\ IsMvpBeta(v) => Covered(v)

PointerInv ==
    /\ registry[BetaLatest] # None => IsMvpBeta(VersionOf(registry[BetaLatest]))
    /\ \A r \in Runs : Sees(run[r])
    /\ PointerCoversFinishedBetas

\* The betas of one release are ordered by their number.
LEMMA BetaOrder ==
    ASSUME NEW v \in Versions, NEW w \in Versions, IsMvpBeta(v), IsMvpBeta(w)
    PROVE  v.n \in Nat /\ w.n \in Nat /\ (Older(v, w) <=> v.n < w.n)
<1>1. MVP_RELEASE \in Nat /\ v.n \in Nat /\ w.n \in Nat
  BY ReleaseAssumption, Zenon DEF Versions
<1>2. v.base = MVP_RELEASE /\ w.base = MVP_RELEASE /\ v.channel = "beta" /\ w.channel = "beta"
  BY Zenon DEF IsMvpBeta
<1> QED
  BY <1>1, <1>2, SMTT(60) DEF Older, Rank

\* An MVP beta in the registry is the version of a commit.
LEMMA BetaTags ==
    ASSUME NEW w \in list_tags, IsMvpBeta(w)
    PROVE  w \in Versions
BY SMTT(60) DEF list_tags, Tags, IsMvpBeta, Latest, BetaLatest, MvpVersion, Version

\* What covers a newer beta covers an older one.
LEMMA CoverDown ==
    ASSUME PInv, PointerInv, NEW v \in Versions, NEW w \in Versions,
           IsMvpBeta(v), IsMvpBeta(w), Older(v, w), Covered(w)
    PROVE  Covered(v)
<1>1. CASE registry[BetaLatest] # None /\ ~Older(VersionOf(registry[BetaLatest]), w)
  <2> DEFINE p == VersionOf(registry[BetaLatest])
  <2>1. p \in Versions /\ IsMvpBeta(p)
    BY <1>1, TagFacts, Zenon DEF PInv, TypeOK, PointerInv
  <2>2. ~Older(p, v)
    <3>1. p.n \in Nat /\ v.n \in Nat /\ w.n \in Nat /\ v.n < w.n /\ ~(p.n < w.n)
      BY <1>1, <2>1, BetaOrder, Zenon
    <3>2. ~(p.n < v.n)
      <4> HIDE DEF p
      <4> QED
        BY <3>1
    <3> QED
      BY <2>1, <3>2, BetaOrder, Zenon
  <2> QED
    BY <1>1, <2>2, Zenon DEF Covered
<1>2. CASE \E u \in list_tags : IsMvpBeta(u) /\ Older(w, u) /\ ~Released(u)
  <2>1. PICK u \in list_tags : IsMvpBeta(u) /\ Older(w, u) /\ ~Released(u)
    BY <1>2, Zenon
  <2>2. u \in Versions
    BY <2>1, BetaTags, Zenon
  <2>3. v.n \in Nat /\ w.n \in Nat /\ u.n \in Nat /\ v.n < w.n /\ w.n < u.n
    BY <2>1, <2>2, BetaOrder, Zenon
  <2>4. v.n < u.n
    BY <2>3
  <2>5. Older(v, u)
    BY <2>1, <2>2, <2>4, BetaOrder, Zenon
  <2> QED
    BY <2>1, <2>5, Zenon DEF Covered
<1> QED
  BY <1>1, <1>2, Zenon DEF Covered

\* No beta is older than itself.
LEMMA BetaIrreflexive ==
    ASSUME NEW v \in Versions, IsMvpBeta(v)
    PROVE  ~Older(v, v)
<1>1. v.n \in Nat
  BY BetaOrder, Zenon
<1>2. ~(v.n < v.n)
  BY <1>1
<1> QED
  BY <1>2, BetaOrder, Zenon

\* At the start there is no pointer and no Release.
LEMMA InitPointer == Init => PointerInv
<1> SUFFICES ASSUME Init PROVE PointerInv
  BY Zenon
<1>1. registry[BetaLatest] = None
  BY TagFacts, Zenon DEF Init
<1>2. \A r \in Runs : Sees(run[r])
  BY Zenon DEF Init, FreeRun, Sees
<1>3. PointerCoversFinishedBetas
  BY Zenon DEF Init, PointerCoversFinishedBetas
<1> QED
  BY <1>1, <1>2, <1>3, Zenon DEF PointerInv

\* A step that changes one run record and neither the registry nor the
\* Releases keeps the invariant when the new record is true.
LEMMA LocalPointer ==
    ASSUME PInv, PointerInv, NEW r \in Runs, NEW rec, Sees(rec),
           run' = [run EXCEPT ![r] = rec], UNCHANGED <<registry, releases>>
    PROVE  PointerInv'
<1>1. list_tags' = list_tags
  BY Zenon DEF list_tags
<1>2. \A v : Released(v)' <=> Released(v)
  BY Zenon DEF Released
<1>3. \A v : Covered(v)' <=> Covered(v)
  BY <1>1, <1>2, Zenon DEF Covered
<1>4. ASSUME NEW q \in Runs PROVE Sees(run[q])'
  <2>1. Sees(run'[q])
    BY Zenon DEF PInv, TypeOK, PointerInv
  <2> QED
    BY <1>1, <1>3, <2>1, Zenon DEF Sees
<1>5. PointerCoversFinishedBetas'
  BY <1>1, <1>2, Zenon DEF PointerInv, PointerCoversFinishedBetas
<1> QED
  BY <1>4, <1>5, Zenon DEF PointerInv

\* Joining the queue says nothing new of the pointer.
LEMMA QueuePointer ==
    ASSUME PInv, PointerInv, NEW r \in Runs, NEW rec, Sees(rec), Queue(r, rec),
           UNCHANGED <<registry, releases>>
    PROVE  PointerInv'
<1>1. list_tags' = list_tags
  BY Zenon DEF list_tags
<1>2. \A v : Released(v)' <=> Released(v)
  BY Zenon DEF Released
<1>3. \A v : Covered(v)' <=> Covered(v)
  BY <1>1, <1>2, Zenon DEF Covered
<1>4. ASSUME NEW q \in Runs PROVE Sees(run[q])'
  <2>1. Sees(run[q]) /\ run[q] \in RunRecord
    BY Zenon DEF PInv, TypeOK, PointerInv
  <2>2. Sees([run[q] EXCEPT !.state = "cancelled"])
    BY <2>1, Zenon DEF Sees, RunRecord
  <2>3. Sees(run'[q])
    BY <2>1, <2>2, Zenon DEF Queue
  <2> QED
    BY <1>1, <1>3, <2>3, Zenon DEF Sees
<1>5. PointerCoversFinishedBetas'
  BY <1>1, <1>2, Zenon DEF PointerInv, PointerCoversFinishedBetas
<1> QED
  BY <1>4, <1>5, Zenon DEF PointerInv

\* A run that fails or ends.
LEMMA EndPointer ==
    ASSUME PInv, PointerInv, NEW r \in Runs, NEW state \in {"failed", "done"}, Ends(r, state),
           UNCHANGED <<registry, releases>>
    PROVE  PointerInv'
<1> DEFINE rec == [run[r] EXCEPT !.state = state]
<1>1. run[r] \in RunRecord /\ Sees(run[r])
  BY Zenon DEF PInv, TypeOK, PointerInv
<1>2. Sees(rec)
  BY <1>1, Zenon DEF RunRecord, Sees
<1>3. run' = [run EXCEPT ![r] = rec]
  BY Zenon DEF Ends
<1> QED
  BY <1>2, <1>3, LocalPointer, Zenon

\* A run that goes on to a step with a true record.
LEMMA GotoPointer ==
    ASSUME PInv, PointerInv, NEW r \in Runs, NEW pc, Goto(r, pc),
           Sees([run[r] EXCEPT !.pc = pc]), UNCHANGED <<registry, releases>>
    PROVE  PointerInv'
<1> DEFINE rec == [run[r] EXCEPT !.pc = pc]
<1>1. run' = [run EXCEPT ![r] = rec]
  BY Zenon DEF Goto
<1> QED
  BY <1>1, LocalPointer, Zenon

\* The steps before publication say nothing of the pointer; Validate finds
\* the channel of the version.
LEMMA EarlyPointer ==
    ASSUME PInv, PointerInv, NEW r \in Runs,
           \/ \E c \in Candidates : CiCompleted(r, c)
           \/ \E want \in Manual : Dispatch(r, want)
           \/ Admit(r) \/ Rerun(r) \/ Fail(r)
           \/ \E available \in BOOLEAN : Resolve(r, available)
           \/ Locate(r) \/ Rescan(r) \/ Approve(r) \/ Validate(r)
    PROVE  PointerInv'
<1>0. run[r] \in RunRecord /\ Sees(run[r])
  BY Zenon DEF PInv, TypeOK, PointerInv
<1>1. UNCHANGED <<registry, releases>>
  BY Zenon DEF CiCompleted, Dispatch, Admit, Rerun, Fail, Resolve, Locate, Rescan, Approve, Validate
<1>2. ASSUME NEW c \in Candidates, CiCompleted(r, c) PROVE PointerInv'
  <2> DEFINE want == [sha |-> c.sha, branch |-> c.branch, channel |-> BranchChannel(c.branch),
                      tag |-> IF BranchChannel(c.branch) = "ga" THEN c.version ELSE NoTag]
             rec == [state |-> "pending", pc |-> "resolve", want |-> want, todo |-> {}, updated |-> FALSE]
  <2>1. Sees(rec)
    BY Zenon DEF Sees
  <2>2. Queue(r, rec)
    BY <1>2, Zenon DEF CiCompleted
  <2> QED
    BY <1>1, <2>1, <2>2, QueuePointer, Zenon
<1>3. ASSUME NEW want \in Manual, Dispatch(r, want) PROVE PointerInv'
  <2> DEFINE rec == [state |-> "pending", pc |-> "locate", want |-> want, todo |-> {}, updated |-> FALSE]
  <2>1. Sees(rec)
    BY Zenon DEF Sees
  <2>2. Queue(r, rec)
    BY <1>3, Zenon DEF Dispatch
  <2> QED
    BY <1>1, <2>1, <2>2, QueuePointer, Zenon
<1>4. CASE Admit(r)
  <2> DEFINE rec == [run[r] EXCEPT !.state = "running"]
  <2>1. Sees(rec)
    BY <1>0, <1>4, Zenon DEF Admit, RunRecord, Sees
  <2>2. run' = [run EXCEPT ![r] = rec]
    BY <1>4, Zenon DEF Admit
  <2> QED
    BY <1>1, <2>1, <2>2, LocalPointer, Zenon
<1>5. CASE Rerun(r)
  <2> DEFINE rec == [run[r] EXCEPT !.state = "pending", !.pc = JobStart(@), !.todo = {}]
  <2>1. JobStart(run[r].pc) \in {"publish", "attest", "pointer", "move", "tag", "release"}
            => JobStart(run[r].pc) = "tag" /\ run[r].pc \in {"tag", "release"}
    BY <1>0, Zenon DEF JobStart, RunRecord, Steps
  <2>2. rec.want = run[r].want /\ rec.pc = JobStart(run[r].pc)
    BY <1>0, Zenon DEF RunRecord
  <2>3. Sees(rec)
    BY <1>0, <2>1, <2>2, Zenon DEF Sees
  <2>4. Queue(r, rec)
    BY <1>5, Zenon DEF Rerun
  <2> QED
    BY <1>1, <2>3, <2>4, QueuePointer, Zenon
<1>6. CASE Fail(r)
  BY <1>1, <1>6, EndPointer, Zenon DEF Fail
<1>7. ASSUME NEW pc \in {"locate", "rescan", "approval", "validate"} PROVE Sees([run[r] EXCEPT !.pc = pc])
  BY <1>0, Zenon DEF RunRecord, Sees
<1>8. ASSUME NEW available \in BOOLEAN, Resolve(r, available) PROVE PointerInv'
  <2>1. Goto(r, "locate") \/ Ends(r, "done") \/ Ends(r, "failed")
    BY <1>8, Zenon DEF Resolve
  <2> QED
    BY <1>1, <1>7, <2>1, GotoPointer, EndPointer, Zenon
<1>9. CASE Locate(r) \/ Rescan(r) \/ Approve(r)
  <2>1. Goto(r, "rescan") \/ Goto(r, "approval") \/ Goto(r, "validate") \/ Ends(r, "failed")
    BY <1>9, Zenon DEF Locate, Rescan, Approve
  <2> QED
    BY <1>1, <1>7, <2>1, GotoPointer, EndPointer, Zenon
<1>10. CASE Validate(r)
  <2> DEFINE want == run[r].want
             v == VersionOf(want.sha)
             rec == [run[r] EXCEPT !.pc = "publish", !.todo = publication_tags(v)]
  <2>1. CASE Ends(r, "failed")
    BY <1>1, <2>1, EndPointer, Zenon
  <2>2. CASE /\ validate_promotion(ManifestOf(want), want, list_tags)
             /\ run' = [run EXCEPT ![r].pc = "publish", ![r].todo = publication_tags(v)]
    <3>1. v.channel = want.channel
      BY <2>2, Zenon DEF validate_promotion, ManifestMatches, ManifestOf, build_promotion_manifest, VersionOf
    <3>2. rec.want = want /\ rec.pc = "publish"
      BY <1>0, Zenon DEF RunRecord
    <3>3. Sees(rec)
      BY <3>1, <3>2, Zenon DEF Sees
    <3>4. run' = [run EXCEPT ![r] = rec]
      BY <2>2, Zenon
    <3> QED
      BY <1>1, <3>3, <3>4, LocalPointer, Zenon
  <2> QED
    BY <1>10, <2>1, <2>2, Zenon DEF Validate
<1> QED
  BY <1>2, <1>3, <1>4, <1>5, <1>6, <1>8, <1>9, <1>10, Zenon

\* A tag that is written uncovers no beta.
LEMMA PublishPointer ==
    ASSUME PInv, PointerInv, NEW r \in Runs, NEW t \in run[r].todo, Publish(r, t)
    PROVE  PointerInv'
<1> DEFINE sha == run[r].want.sha
           rec == [run[r] EXCEPT !.todo = @ \ {t}, !.pc = IF run[r].todo = {t} THEN "attest" ELSE @]
<1>1. run[r].state = "running" /\ run[r].pc = "publish" /\ UNCHANGED releases
  BY Zenon DEF Publish, At
<1>2. run[r] \in RunRecord /\ Knows(run[r]) /\ sha \in Shas /\ VersionOf(sha) \in Versions
  BY <1>1, Given, Zenon DEF PInv
<1>3. t \in Tags /\ t # BetaLatest
  <2>1. t \in {VersionOf(sha), Latest}
    BY <1>1, <1>2, Zenon DEF Knows
  <2>2. Latest # BetaLatest
    BY SMTT(60) DEF Latest, BetaLatest, Version
  <2> QED
    BY <1>2, <2>1, <2>2, TagFacts, Zenon
<1>4. /\ registry' = [registry EXCEPT ![t] = sha] /\ registry \in [Tags -> Shas \union {None}]
      /\ run' = [run EXCEPT ![r] = rec]
  BY Zenon DEF Publish, PInv, TypeOK
<1>5. registry'[BetaLatest] = registry[BetaLatest]
  BY <1>3, <1>4, TagFacts, Zenon
<1>6. sha # None
  BY <1>2, TagFacts, Zenon
<1>7. \A u \in Tags : registry[u] # None => registry'[u] # None
  BY <1>3, <1>4, <1>6, Zenon
<1>8. list_tags \subseteq list_tags'
  BY <1>7, Zenon DEF list_tags
<1>9. \A v : Released(v)' <=> Released(v)
  BY <1>1, Zenon DEF Released
<1>10. MvpVersion \in Tags
  BY Zenon DEF Tags
<1>11. \A v : Covered(v) => Covered(v)'
  BY <1>5, <1>7, <1>8, <1>9, <1>10, Zenon DEF Covered, VersionOf, CommitOf
<1>12. ASSUME NEW q \in Runs PROVE Sees(run[q])'
  <2>1. CASE q = r
    <3>1. run'[q] = rec
      BY <1>4, <2>1, Zenon DEF PInv, TypeOK
    <3>2. rec.want = run[r].want /\ rec.pc \in {"publish", "attest"}
      BY <1>1, <1>2, Zenon DEF RunRecord
    <3>3. VersionOf(sha).channel = run[r].want.channel
      BY <1>1, Zenon DEF PointerInv, Sees
    <3> QED
      BY <3>1, <3>2, <3>3, ZenonT(60) DEF Sees, VersionOf, CommitOf
  <2>2. CASE q # r
    <3>1. run'[q] = run[q] /\ run[q].state # "running" /\ Sees(run[q])
      BY <1>1, <1>4, <2>2, Zenon DEF PInv, TypeOK, OneRunner, PointerInv
    <3> QED
      BY <1>11, <3>1, Zenon DEF Sees, VersionOf, CommitOf
  <2> QED
    BY <2>1, <2>2, Zenon
<1>13. \A rel \in releases : IsMvpBeta(rel.version) => Covered(rel.version)
  BY Zenon DEF PointerInv, PointerCoversFinishedBetas, Covered
<1>14. PointerCoversFinishedBetas'
  BY <1>1, <1>11, <1>13, Zenon DEF PointerCoversFinishedBetas, Covered
<1> QED
  BY <1>5, <1>12, <1>14, Zenon DEF PointerInv, VersionOf, CommitOf

\* A run whose beta may not take the pointer leaves it to 2.0.0 or to a newer
\* beta, which is covered if it is released.
LEMMA CheckedPointer ==
    ASSUME PInv, PointerInv, NEW v \in Versions, v \in list_tags, IsMvpBeta(v),
           ~should_update_beta_latest(v, list_tags)
    PROVE  Covered(v)
<1>1. CASE MvpVersion \in list_tags
  BY <1>1, Zenon DEF list_tags, Covered
<1>2. CASE \E t \in list_tags : IsMvpBeta(t) /\ Older(v, t)
  <2>1. PICK t \in list_tags : IsMvpBeta(t) /\ Older(v, t)
    BY <1>2, Zenon
  <2>2. CASE ~Released(t)
    BY <2>1, <2>2, Zenon DEF Covered
  <2>3. CASE Released(t)
    <3>1. Covered(t)
      BY <2>1, <2>3, Zenon DEF Released, PointerInv, PointerCoversFinishedBetas, Covered
    <3>2. t \in Versions
      BY <2>1, BetaTags, Zenon
    <3> QED
      BY <2>1, <3>1, <3>2, CoverDown, Zenon
  <2> QED
    BY <2>2, <2>3, Zenon
<1> QED
  BY <1>1, <1>2, Zenon DEF should_update_beta_latest

\* The pointer moves to the newest beta: it is behind none.
LEMMA MovedPointer ==
    ASSUME PInv, PointerInv, NEW r \in Runs, MovePointer(r)
    PROVE  PointerInv'
<1> DEFINE sha == run[r].want.sha
           v == VersionOf(sha)
<1>0. PICK rec : /\ run' = [run EXCEPT ![r] = rec]
                 /\ rec \in RunRecord /\ rec.want = run[r].want
                 /\ \/ rec.state = "running" /\ rec.pc = "tag"
                    \/ rec.state = "failed" /\ rec.pc = "move"
  BY MovedRecord, Zenon
<1>1. run[r].state = "running" /\ run[r].pc = "move" /\ UNCHANGED releases
  BY Zenon DEF MovePointer, At
<1>2. run[r] \in RunRecord /\ Sees(run[r]) /\ sha \in Shas /\ v \in Versions /\ sha # None
  BY <1>1, Given, TagFacts, Zenon DEF PInv, PointerInv
<1>3. should_update_beta_latest(v, list_tags) /\ v.channel = run[r].want.channel
  BY <1>1, <1>2, Zenon DEF Sees
<1>4. /\ registry' = [registry EXCEPT ![BetaLatest] = sha] /\ registry \in [Tags -> Shas \union {None}]
      /\ run' = [run EXCEPT ![r] = rec]
  BY <1>0, Zenon DEF MovePointer, PInv, TypeOK
<1>5. registry'[BetaLatest] = sha
  BY <1>4, TagFacts, Zenon
<1>6. ASSUME NEW u \in list_tags, IsMvpBeta(u) PROVE Covered(u)'
  <2>1. ~Older(v, u)
    BY <1>3, <1>6, Zenon DEF should_update_beta_latest
  <2> QED
    BY <1>2, <1>5, <2>1, Zenon DEF Covered, VersionOf, CommitOf
<1>7. ASSUME NEW q \in Runs PROVE Sees(run[q])'
  <2>1. /\ run'[q].want = run[q].want
        /\ run'[q].state = "running" => run'[q].pc = "tag"
        /\ run'[q].pc = "move" => run[q].pc = "move" /\ run'[q].state \in {run[q].state, "failed"}
    <3>1. CASE q = r
      BY <1>0, <1>1, <1>2, <1>4, <3>1, Zenon DEF PInv, TypeOK, RunRecord
    <3>2. CASE q # r
      <4>1. run'[q] = run[q] /\ run[q].state # "running"
        BY <1>1, <1>4, <3>2, Zenon DEF PInv, TypeOK, OneRunner
      <4> QED
        BY <4>1, Zenon
    <3> QED
      BY <3>1, <3>2, Zenon
  <2>2. run'[q].pc \in {"publish", "attest", "pointer", "move", "tag", "release"}
            => run[q].pc \in {"publish", "attest", "pointer", "move", "tag", "release"}
    BY <1>0, <1>1, <1>4, Zenon DEF PInv, TypeOK
  <2>3. run'[q].pc \in {"tag", "release"} => run[q].pc \in {"move", "tag", "release"}
    BY <1>0, <1>1, <1>4, Zenon DEF PInv, TypeOK
  <2>4. ASSUME run'[q].pc \in {"tag", "release"}, NEW w, w = VersionOf(run[q].want.sha), IsMvpBeta(w)
        PROVE  Covered(w)'
    <3>1. run[q].state # "free" /\ registry[w] = run[q].want.sha
      BY <2>3, <2>4, Zenon DEF PInv, Knows
    <3>2. w \in Tags /\ registry[w] # None
      BY <2>4, <3>1, Given, TagFacts, Zenon
    <3>3. w \in list_tags
      BY <3>2, Zenon DEF list_tags
    <3> QED
      BY <1>6, <2>4, <3>3, Zenon
  <2>5. Sees(run[q])
    BY Zenon DEF PointerInv
  <2> QED
    BY <2>1, <2>2, <2>4, <2>5, ZenonT(60) DEF Sees, VersionOf, CommitOf
<1>8. ASSUME NEW rel \in releases, IsMvpBeta(rel.version) PROVE Covered(rel.version)'
  <2>1. rel.version \in Tags /\ registry[rel.version] # None
    BY TagFacts, Zenon DEF PInv, TypeOK, ReleasesFollowPublication
  <2>2. rel.version \in list_tags
    BY <2>1, Zenon DEF list_tags
  <2> QED
    BY <1>6, <1>8, <2>2, Zenon
<1>9. PointerCoversFinishedBetas'
  BY <1>1, <1>8, Zenon DEF PointerCoversFinishedBetas, Covered
<1>10. IsMvpBeta(VersionOf(registry'[BetaLatest]))
  BY <1>3, <1>5, Zenon DEF should_update_beta_latest
<1> QED
  BY <1>7, <1>9, <1>10, Zenon DEF PointerInv, VersionOf, CommitOf

\* A beta that is released no longer covers the older ones by being
\* unreleased, but what covers it covers them.
LEMMA ReleasedPointer ==
    ASSUME PInv, PointerInv, NEW r \in Runs, CreateRelease(r)
    PROVE  PointerInv'
<1> DEFINE rec == [run[r] EXCEPT !.pc = "end", !.state = "done"]
<1>0. PICK v : v = VersionOf(run[r].want.sha)
  BY Zenon
<1>1. run[r].state = "running" /\ run[r].pc = "release" /\ UNCHANGED registry
  BY Zenon DEF CreateRelease, At
<1>2. run[r] \in RunRecord /\ Sees(run[r]) /\ v \in Versions
  BY <1>0, <1>1, Given, Zenon DEF PInv, PointerInv
<1>3. CASE Ends(r, "failed") /\ UNCHANGED releases
  BY <1>1, <1>3, EndPointer, Zenon
<1>4. CASE run' = [run EXCEPT ![r] = rec] /\ UNCHANGED releases
  <2>1. Sees(rec)
    BY <1>2, Zenon DEF RunRecord, Sees
  <2> QED
    BY <1>1, <1>4, <2>1, LocalPointer, Zenon
<1>5. ASSUME NEW note, note.version = v, run' = [run EXCEPT ![r] = rec], releases' = releases \union {note}
      PROVE  PointerInv'
  <2>1. list_tags' = list_tags
    BY <1>1, Zenon DEF list_tags
  <2>2. \A w : Released(w)' <=> Released(w) \/ w = v
    BY <1>5, Zenon DEF Released
  <2>3. IsMvpBeta(v) => Covered(v)
    BY <1>0, <1>1, <1>2, Zenon DEF Sees
  <2>4. ASSUME IsMvpBeta(v) PROVE Covered(v)'
    <3>1. ~Older(v, v)
      BY <1>2, <2>4, BetaIrreflexive, Zenon
    <3> QED
      BY <1>1, <2>1, <2>2, <2>3, <2>4, <3>1, Zenon DEF Covered, VersionOf, CommitOf
  <2>5. ASSUME NEW u \in Versions, IsMvpBeta(u), Covered(u) PROVE Covered(u)'
    <3>1. CASE \E w \in list_tags : IsMvpBeta(w) /\ Older(u, w) /\ ~Released(w) /\ w # v
      BY <2>1, <2>2, <3>1, Zenon DEF Covered
    <3>2. CASE IsMvpBeta(v) /\ Older(u, v)
      <4>1. \/ registry[MvpVersion] # None
            \/ registry[BetaLatest] # None /\ ~Older(VersionOf(registry[BetaLatest]), u)
            \/ \E w \in list_tags : IsMvpBeta(w) /\ Older(u, w) /\ ~Released(w) /\ w # v
        <5>1. CASE registry[MvpVersion] # None \/ (registry[BetaLatest] # None /\ ~Older(VersionOf(registry[BetaLatest]), v))
          <6> DEFINE p == VersionOf(registry[BetaLatest])
          <6>1. CASE registry[BetaLatest] # None /\ ~Older(p, v)
            <7>1. p \in Versions /\ IsMvpBeta(p)
              BY <6>1, TagFacts, Zenon DEF PInv, TypeOK, PointerInv
            <7>2. p.n \in Nat /\ u.n \in Nat /\ v.n \in Nat /\ u.n < v.n /\ ~(p.n < v.n)
              BY <1>2, <2>5, <3>2, <6>1, <7>1, BetaOrder, Zenon
            <7>3. ~(p.n < u.n)
              <8> HIDE DEF p
              <8> QED
                BY <7>2
            <7> QED
              BY <2>5, <6>1, <7>1, <7>3, BetaOrder, Zenon
          <6> QED
            BY <5>1, <6>1, Zenon
        <5>2. CASE \E w \in list_tags : IsMvpBeta(w) /\ Older(v, w) /\ ~Released(w)
          <6>1. PICK w \in list_tags : IsMvpBeta(w) /\ Older(v, w) /\ ~Released(w)
            BY <5>2, Zenon
          <6>2. w \in Versions
            BY <6>1, BetaTags, Zenon
          <6>3. u.n \in Nat /\ v.n \in Nat /\ w.n \in Nat /\ u.n < v.n /\ v.n < w.n
            BY <1>2, <2>5, <3>2, <6>1, <6>2, BetaOrder, Zenon
          <6>4. u.n < w.n /\ w.n # v.n
            BY <6>3
          <6>5. Older(u, w) /\ w # v
            BY <2>5, <6>1, <6>2, <6>4, BetaOrder, Zenon
          <6> QED
            BY <6>1, <6>5, Zenon
        <5> QED
          BY <2>3, <3>2, <5>1, <5>2, Zenon DEF Covered
      <4> QED
        BY <1>1, <2>1, <2>2, <4>1, Zenon DEF Covered, VersionOf, CommitOf
    <3> QED
      BY <1>1, <2>5, <3>1, <3>2, Zenon DEF Covered, VersionOf, CommitOf
  <2>6. ASSUME NEW q \in Runs PROVE Sees(run[q])'
    <3>1. CASE q = r
      <4>1. run'[q] = rec /\ rec.pc = "end"
        BY <1>2, <1>5, <3>1, Zenon DEF PInv, TypeOK, RunRecord
      <4> QED
        BY <4>1, Zenon DEF Sees
    <3>2. CASE q # r
      <4>1. run'[q] = run[q] /\ Sees(run[q]) /\ Knows(run[q])
        BY <1>5, <3>2, Zenon DEF PInv, TypeOK, PointerInv
      <4>2. run[q].pc \in {"tag", "release"} => VersionOf(run[q].want.sha) \in Versions
        BY <4>1, Given, Zenon DEF Knows
      <4> QED
        BY <2>1, <2>5, <4>1, <4>2, ZenonT(60) DEF Sees, VersionOf, CommitOf
    <3> QED
      BY <3>1, <3>2, Zenon
  <2>7. ASSUME NEW rel \in releases', IsMvpBeta(rel.version) PROVE Covered(rel.version)'
    <3>1. CASE rel = note
      BY <1>5, <2>4, <2>7, <3>1, Zenon
    <3>2. CASE rel \in releases
      <4>1. rel.version \in Versions /\ Covered(rel.version)
        BY <2>7, <3>2, Zenon DEF PInv, TypeOK, PointerInv, PointerCoversFinishedBetas, Covered
      <4> QED
        BY <2>5, <2>7, <4>1, Zenon
    <3> QED
      BY <1>5, <3>1, <3>2, Zenon
  <2>8. PointerCoversFinishedBetas'
    BY <2>7, Zenon DEF PointerCoversFinishedBetas, Covered
  <2> QED
    BY <1>1, <2>6, <2>8, Zenon DEF PointerInv, VersionOf, CommitOf
<1>6. CASE \E note : note.version = v /\ run' = [run EXCEPT ![r] = rec] /\ releases' = releases \union {note}
  BY <1>5, <1>6, Zenon
<1> QED
  BY <1>0, <1>3, <1>4, <1>6, Zenon DEF CreateRelease

\* The other steps after publication: a run reaches its Git tag with a version
\* that is no MVP beta, or with one that is covered.
LEMMA LatePointer ==
    ASSUME PInv, PointerInv, NEW r \in Runs, Attest(r) \/ CheckPointer(r) \/ CreateTag(r)
    PROVE  PointerInv'
<1> DEFINE sha == run[r].want.sha
           v == VersionOf(sha)
<1>1. run[r].state = "running" /\ run[r].pc \in {"attest", "pointer", "tag"} /\ UNCHANGED <<registry, releases>>
  BY Zenon DEF Attest, CheckPointer, CreateTag, At
<1>2. run[r] \in RunRecord /\ Sees(run[r]) /\ v \in Versions /\ v.channel = run[r].want.channel
  <2>1. run[r] \in RunRecord /\ Sees(run[r]) /\ v \in Versions
    BY <1>1, Given, Zenon DEF PInv, PointerInv
  <2> QED
    BY <1>1, <2>1, Zenon DEF Sees
<1>3. CASE Attest(r)
  <2>1. CASE run[r].want.channel = "beta"
    <3>1. Sees([run[r] EXCEPT !.pc = "pointer"])
      BY <1>2, Zenon DEF Sees, RunRecord
    <3>2. Goto(r, "pointer")
      BY <1>3, <2>1, Zenon DEF Attest
    <3> QED
      BY <1>1, <3>1, <3>2, GotoPointer, Zenon
  <2>2. CASE run[r].want.channel = "ga"
    <3>1. ~IsMvpBeta(v)
      BY <1>2, <2>2 DEF IsMvpBeta
    <3>2. Sees([run[r] EXCEPT !.pc = "tag"])
      BY <1>2, <3>1, Zenon DEF Sees, RunRecord
    <3>3. Goto(r, "tag")
      BY <1>3, <2>2, Zenon DEF Attest
    <3> QED
      BY <1>1, <3>2, <3>3, GotoPointer, Zenon
  <2>3. CASE run[r].want.channel \notin {"beta", "ga"}
    <3> DEFINE rec == [run[r] EXCEPT !.pc = "end", !.state = "done"]
    <3>1. Sees(rec)
      BY <1>2, Zenon DEF Sees, RunRecord
    <3>2. run' = [run EXCEPT ![r] = rec]
      BY <1>3, <2>3, Zenon DEF Attest
    <3> QED
      BY <1>1, <3>1, <3>2, LocalPointer, Zenon
  <2> QED
    BY <2>1, <2>2, <2>3, Zenon
<1>4. CASE CheckPointer(r)
  <2>1. CASE Ends(r, "failed")
    BY <1>1, <2>1, EndPointer, Zenon
  <2>2. CASE v \in list_tags /\ ~should_update_beta_latest(v, list_tags) /\ Goto(r, "tag")
    <3>1. IsMvpBeta(v) => Covered(v)
      BY <1>2, <2>2, CheckedPointer, Zenon
    <3>2. Sees([run[r] EXCEPT !.pc = "tag"])
      BY <1>2, <3>1, Zenon DEF Sees, RunRecord
    <3> QED
      BY <1>1, <2>2, <3>2, GotoPointer, Zenon
  <2>3. CASE should_update_beta_latest(v, list_tags) /\ Goto(r, "move")
    <3>1. Sees([run[r] EXCEPT !.pc = "move"])
      BY <1>1, <1>2, <2>3, Zenon DEF Sees, RunRecord
    <3> QED
      BY <1>1, <2>3, <3>1, GotoPointer, Zenon
  <2> QED
    BY <1>4, <2>1, <2>2, <2>3, Zenon DEF CheckPointer
<1>5. CASE CreateTag(r)
  <2>1. CASE Ends(r, "failed")
    BY <1>1, <2>1, EndPointer, Zenon
  <2>2. CASE Goto(r, "release")
    <3>1. run[r].pc = "tag"
      BY <1>5, Zenon DEF CreateTag, At
    <3>2. Sees([run[r] EXCEPT !.pc = "release"])
      BY <1>2, <3>1, Zenon DEF Sees, RunRecord
    <3> QED
      BY <1>1, <2>2, <3>2, GotoPointer, Zenon
  <2> QED
    BY <1>5, <2>1, <2>2, Zenon DEF CreateTag
<1> QED
  BY <1>3, <1>4, <1>5, Zenon

\* Every step keeps the invariant of the pointer.
LEMMA PointerStep ==
    ASSUME PInv, PointerInv, [Next]_vars
    PROVE  PointerInv'
<1>1. CASE UNCHANGED vars
  <2>1. UNCHANGED <<run, registry, releases>>
    BY <1>1, Zenon DEF vars
  <2>2. list_tags' = list_tags
    BY <2>1, Zenon DEF list_tags
  <2>3. \A v : Released(v)' <=> Released(v)
    BY <2>1, Zenon DEF Released
  <2>4. \A v : Covered(v)' <=> Covered(v)
    BY <2>1, <2>2, <2>3, Zenon DEF Covered
  <2>5. ASSUME NEW q \in Runs PROVE Sees(run[q])'
    <3>1. Sees(run'[q])
      BY <2>1, Zenon DEF PointerInv
    <3> QED
      BY <2>2, <2>4, <3>1, Zenon DEF Sees
  <2>6. PointerCoversFinishedBetas'
    BY <2>1, <2>2, <2>3, Zenon DEF PointerInv, PointerCoversFinishedBetas
  <2> QED
    BY <2>1, <2>5, <2>6, Zenon DEF PointerInv
<1>2. CASE Next
  <2>1. PICK r \in Runs :
           \/ \/ \E c \in Candidates : CiCompleted(r, c)
              \/ \E want \in Manual : Dispatch(r, want)
              \/ Admit(r) \/ Rerun(r) \/ Fail(r)
              \/ \E available \in BOOLEAN : Resolve(r, available)
              \/ Locate(r) \/ Rescan(r) \/ Approve(r) \/ Validate(r)
           \/ \E t \in run[r].todo : Publish(r, t)
           \/ Attest(r) \/ CheckPointer(r) \/ CreateTag(r)
           \/ MovePointer(r)
           \/ CreateRelease(r)
    BY <1>2, Zenon DEF Next
  <2> QED
    BY <2>1, EarlyPointer, PublishPointer, LatePointer, MovedPointer, ReleasedPointer, Zenon
<1> QED
  BY <1>1, <1>2, Zenon

\* Whatever runs overlap, stop and are started again, no beta reaches its
\* Release while the pointer stays on an older one, unless 2.0.0 froze the
\* pointer or a newer beta is still to be released.
THEOREM PointerIsNotLeftBehind == Spec => []PointerCoversFinishedBetas
<1>1. PInv /\ PointerInv /\ [Next]_vars => PointerInv'
  BY PointerStep, Zenon
<1>2. PointerInv => PointerCoversFinishedBetas
  BY Zenon DEF PointerInv
<1> QED
  BY <1>1, <1>2, InitPointer, PromotionInvariant, PTL DEF Spec
=============================================================================
