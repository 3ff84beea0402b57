--------------------------- MODULE MCRecommendations ---------------------------
(* Instances of Recommendations for TLC. *)
EXTENDS Recommendations, TLC

MCAgents == {"spark_rca", "cluster_tuning"}
MCStatuses == {"proposed", "accepted", "applied", "rejected"}
MCLabels == {"human_label", "rerun_success"}

\* Forward moves only, with the two the tests make (proposed to accepted and to
\* applied) among them; the real table lives in the store's package.
MCAllowed ==
    {<<"proposed", s>> : s \in {"accepted", "applied", "rejected"}}
        \cup {<<"accepted", "applied">>, <<"accepted", "rejected">>}

\* The same, where repeating the present status is allowed as well.
MCAllowedSame == MCAllowed \cup {<<s, s>> : s \in MCStatuses}

Symmetry == Permutations(Ids) \cup Permutations(Clients)
===============================================================================
