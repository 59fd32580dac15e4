----------------------------- MODULE MCSelection -----------------------------
(***************************************************************************)
(* Selection for TLC: PullPilot and a mate in one project, an alien in     *)
(* another, whose image is the mate's under a second repository and digest *)
(* (which comes first in the image's RepoDigests).                         *)
(***************************************************************************)
EXTENDS Selection, TLC

CONSTANTS pilot, mate, alien, ours, theirs, repo, mirror, a1, a2, m1, c1, c2

TheProjects == (pilot :> ours) @@ (mate :> ours) @@ (alien :> theirs)
TheRepos    == (pilot :> repo) @@ (mate :> repo) @@ (alien :> mirror)
TheDigests  == (repo :> {a1, a2}) @@ (mirror :> {m1})
TheContents == (a1 :> c1) @@ (a2 :> c2) @@ (m1 :> c1)
TheRanks    == (m1 :> 0) @@ (a1 :> 1) @@ (a2 :> 2)

TheScopes ==
    {[mode |-> "project", project |-> None], [mode |-> "project", project |-> theirs],
     [mode |-> "all", project |-> None], [mode |-> "invalid", project |-> None]}

TheLabels ==
    (pilot :> {{}, {"self"}}) @@ (alien :> {{}, {"self"}}) @@
    (mate :> {{}, {"exclude"}, {"monitor"}, {"enabled", "wt-disabled"}, {"disabled", "wt-enabled"},
              {"wt-monitor"}})

TheKnown == {{<<repo, a1>>, <<mirror, m1>>}, {<<repo, a1>>}, {}}
=============================================================================
