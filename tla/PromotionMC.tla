----------------------------- MODULE PromotionMC -----------------------------
(***************************************************************************)
(* Small instances of Promotion.  Base 2 is the MVP release 2.0.0, base 3  *)
(* the next one.                                                           *)
(***************************************************************************)
EXTENDS Promotion, TLC

Commit(sha, branch, version, changelog) ==
    [sha |-> sha, branch |-> branch, version |-> version, changelog |-> changelog]

Mvp == 2
Next3 == 3
Release2 == Branch("release", Mvp)
Main == Branch("main", 0)

\* Two commits that carry one beta version, the beta after it, and 2.0.0.
Beta1 == Commit("a", Release2, Version("beta", Mvp, 1), TRUE)
Beta1Again == Commit("b", Release2, Version("beta", Mvp, 1), TRUE)
Beta2 == Commit("c", Release2, Version("beta", Mvp, 2), FALSE)
Ga2 == Commit("d", Main, Version("ga", Mvp, 0), TRUE)
\* The next GA, and a commit whose version its branch does not publish.
Ga3 == Commit("f", Main, Version("ga", Next3, 0), FALSE)
Misplaced == Commit("h", Release2, Version("beta", Next3, 1), TRUE)

Want(c, tag) == [sha |-> c.sha, branch |-> c.branch, channel |-> BranchChannel(c.branch), tag |-> tag]

MCCandidates == {Beta1, Beta1Again, Beta2, Ga2, Ga3, Misplaced}
MCManual == {Want(Beta1, NoTag), Want(Ga2, Ga3.version)}

\* Git tags that someone made by hand, on the commit of another version.
MCStrays == {{}, {<<Ga2.version, "f">>, <<Beta2.version, "d">>}}

RunsMayBeExchanged == Permutations(Runs)
=============================================================================
