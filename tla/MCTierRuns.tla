----------------------------- MODULE MCTierRuns -----------------------------
(* Constant values for model-checking TierRuns: tiers of two runs. *)
EXTENDS TierRuns, TLC

CONSTANTS drive, gmail, d1, d2, g1

MCDefaultUrl == (drive :> d1 @@ gmail :> g1)
MCTwins == {drive, gmail}
MCUrls == {d1, d2, g1}

NoUrls == [t \in MCTwins |-> "missing"]
Command == [kind |-> "command", retries |-> 1, timed |-> TRUE, seeds |-> {drive},
            urls |-> NoUrls, policy |-> "missing", env |-> [v \in {} |-> "missing"],
            plugins |-> {}]
Http == [Command EXCEPT !.kind = "http", !.seeds = {gmail}]
Workflow == [Command EXCEPT !.kind = "workflow", !.policy = "true", !.plugins = {"plugin"},
                            !.env = (drive :> d1)]
OtherTwin == [Command EXCEPT !.urls = (drive :> d2 @@ gmail :> "missing"), !.seeds = {},
                             !.retries = 0, !.policy = "false", !.plugins = {"plugin"}]

MCJobs ==
    {[tier |-> <<a, b>>, reset |-> r, assertAfter |-> s, stopOnFailure |-> ~s,
      unsafePlugins |-> r, exported |-> (UnsafePlugins :> u @@ drive :> d @@ gmail :> "missing")] :
        a \in {Command, Http, Workflow, OtherTwin}, b \in {Command, Http, Workflow, OtherTwin},
        r \in BOOLEAN, s \in BOOLEAN, u \in {"missing", "false"}, d \in {"missing", d2}}
=============================================================================
