---------------------------- MODULE MC_Placement ----------------------------
(* The depot has two workers, the site none: what is to run there goes to the depot *)
(* or is refused.  Any two of five submissions.                                     *)
EXTENDS Placement, TLC

CONSTANTS depot, site, w1, w2, near, local, mobile, anywhere, spread, each, d1, d2

Ranks == (depot :> 1 @@ site :> 2)
Policies == (depot :> "wait" @@ site :> "failover")
FailFast == (depot :> "none" @@ site :> "none")
ToTheDepot == (depot :> <<>> @@ site :> <<depot>>)
\* The depot has its campus and all below it, the site some of that: d1, not d2, is in
\* both.  A rule of the site asks for two things of which d2 has one; one is empty.
Rule(location, below, role, prefix, group) ==
  [location |-> location, descendants |-> below, role |-> role, prefix |-> prefix,
   group |-> group]
Overlapping ==
  (depot :> {Rule({"campus"}, TRUE, {}, {}, {})} @@
   site  :> {Rule({"campus", "lab"}, FALSE, {"switch"}, {}, {}),
             Rule({}, TRUE, {}, {"v6"}, {"core"}), Rule({}, TRUE, {}, {}, {})})
Equipment ==
  (d1 :> [location |-> {"lab"}, above |-> {"campus"}, role |-> {"switch"}, prefix |-> {},
          group |-> {}] @@
   d2 :> [location |-> {"office"}, above |-> {"campus"}, role |-> {"switch"},
          prefix |-> {"v6"}, group |-> {}])
Depot == [w \in Workers |-> depot]
OneSlot == [w \in Workers |-> 1]
Abilities == [w \in Workers |-> Submissions]

Def(policy, home, isLocal, devices) ==
  [policy |-> policy, home |-> home, local |-> isLocal, devices |-> devices]
Everything ==
  (near     :> Def("pinned", depot, TRUE, {}) @@
   local    :> Def("pinned", site, TRUE, {}) @@
   mobile   :> Def("pinned", site, FALSE, {}) @@
   anywhere :> Def("any", depot, FALSE, {}) @@
   spread   :> Def("fan_out", depot, TRUE, {d1, d2}) @@
   each     :> Def("per_device", depot, TRUE, {d1}))
Definitions == [s \in Submissions |-> Everything[s]]

Symmetry == Permutations({w1, w2})
=============================================================================
