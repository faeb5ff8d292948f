--------------------------- MODULE MCSitePublish ---------------------------
(* Small instances of SitePublish. *)
EXTENDS SitePublish, TLC

\* Safety does not tell the jobs apart, nor the upstreams.
Symmetry == Permutations(Jobs) \cup Permutations(Upstreams)

\* The upstream of a route is the one of its row once nothing is at work:
\* refuted with two upstreams (see the README).
RouteFollowsRow ==
    (\A j \in Jobs : Idle(j)) /\ ~ssh /\ site.st \in RouteStatuses => route \in {None, site.up}
=============================================================================
