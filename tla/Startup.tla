-------------------------------- MODULE Startup --------------------------------
(***************************************************************************)
(* main.py's lifespan: the planes are configured from the environment one  *)
(* after the other, most failures are logged and passed over, the agents   *)
(* are loaded, their Cosmos bindings replace two of the stores, the agent  *)
(* catalog is mirrored into the state store, and the process serves.       *)
(*                                                                         *)
(* A plane is where its provider came from; a raising configure call       *)
(* leaves the plane's provider as it was.  What a run of lifespan reads    *)
(* once (store names, bindings) is chosen in Init; what decides whether    *)
(* the validation raises (EDIM_STRICT_STARTUP) is read by its library.     *)
(***************************************************************************)
EXTENDS Naturals, Sequences, FiniteSets

\* The optional planes, each in a try of its own; failures are logged.
Planes == {"secrets", "observability", "state", "checkpointer",
           "recommendations", "retrieval", "web", "tasks"}

\* Stores that bindings.cosmos may replace.
Stores == {"state", "recommendations"}

VARIABLES
    step,       \* index into Order of the step that comes next
    phase,      \* "starting", "serving", "failed", "stopped"
    plane,      \* per plane: "default", "env", "none" or "bindings"
    catalog,    \* where the catalog went: the state store's origin, or "unsynced"
    failed,     \* history: the steps that raised
    bindings,   \* some agent declares bindings.cosmos
    cosmos      \* the stores whose environment name is cosmos

inputs == <<bindings, cosmos>>
vars   == <<step, phase, plane, catalog, failed, inputs>>

\* Variant: the catalog is mirrored before the bindings are applied.
CatalogFirst ==
    <<"logging", "secrets", "observability", "state", "checkpointer",
      "recommendations", "retrieval", "web", "validate", "bootstrap",
      "catalog", "bindState", "bindRecommendations", "llm", "tasks", "serve">>

\* The order of the steps in the source.
Order ==
    <<"logging", "secrets", "observability", "state", "checkpointer",
      "recommendations", "retrieval", "web", "validate", "bootstrap",
      "bindState", "bindRecommendations", "catalog", "llm", "tasks", "serve">>

\* The step that applies bindings.cosmos to a store.
BindStep == [state |-> "bindState", recommendations |-> "bindRecommendations"]

\* What follows the bindings' except clause.
AfterBindings == 1 + CHOOSE i \in 1..Len(Order) : Order[i] = "bindRecommendations"

At(name) == phase = "starting" /\ Order[step] = name

Init ==
    /\ step     = 1
    /\ phase    = "starting"
    /\ plane    = [p \in Planes |-> "default"]
    /\ catalog  = "unsynced"
    /\ failed   = {}
    /\ bindings \in BOOLEAN
    /\ cosmos   \in SUBSET Stores

Advance == step' = step + 1

Passes == Advance /\ UNCHANGED failed
Raises(name) == failed' = failed \cup {name}
-------------------------------------------------------------------------------
\* configure_request_id_logging and set_llm_provider(_LazyFoundry()) assign in the
\* process only; _LazyFoundry defers every failure to the first invocation.
SetUp ==
    /\ At("logging") \/ At("llm")
    /\ Passes
    /\ UNCHANGED <<phase, plane, catalog, inputs>>

\* A configure_*_from_env call that returns.
Configure(p) ==
    /\ At(p)
    /\ plane' = [plane EXCEPT ![p] = "env"]
    /\ Passes
    /\ UNCHANGED <<phase, catalog, inputs>>

\* A raising one: logged, passed over.
ConfigureRaises(p) ==
    /\ At(p)
    /\ p # "recommendations"
    /\ Raises(p)
    /\ Advance
    /\ UNCHANGED <<phase, plane, catalog, inputs>>

\* Variant: the recommendation store is treated like the other planes.
NoNoneFallback ==
    /\ At("recommendations")
    /\ Raises("recommendations")
    /\ Advance
    /\ UNCHANGED <<phase, plane, catalog, inputs>>

\* A raising recommendation store is replaced by NoneRecommendationStore, if
\* that can be done.
RecommendationsRaise ==
    /\ At("recommendations")
    /\ \/ /\ plane' = [plane EXCEPT !["recommendations"] = "none"]
          /\ Raises("recommendations")
       \/ /\ failed' = failed \cup {"recommendations", "noneFallback"}
          /\ UNCHANGED plane
    /\ Advance
    /\ UNCHANGED <<phase, catalog, inputs>>

\* Variant: every exception of the validation ends the startup.
ValidateReraises ==
    /\ At("validate")
    /\ \/ Passes /\ UNCHANGED phase
       \/ Raises("validate") /\ phase' = "failed" /\ UNCHANGED step
    /\ UNCHANGED <<plane, catalog, inputs>>

\* validate_runtime_env: a RuntimeError, whatever raised it, is raised again, which
\* is how strict validation stops the process; any other exception is logged.
Validate ==
    /\ At("validate")
    /\ \/ Passes /\ UNCHANGED phase
       \/ Raises("validate") /\ Advance /\ UNCHANGED phase
       \/ Raises("RuntimeError") /\ phase' = "failed" /\ UNCHANGED step
    /\ UNCHANGED <<plane, catalog, inputs>>

\* bootstrap_agents is called outside any try.
BootstrapAgents ==
    /\ At("bootstrap")
    /\ \/ Passes /\ UNCHANGED phase
       \/ Raises("bootstrap") /\ phase' = "failed" /\ UNCHANGED step
    /\ UNCHANGED <<plane, catalog, inputs>>

\* One store of the bindings try: reconfigured when an agent binds Cosmos and the
\* store's name is cosmos.
ApplyBinding(s) ==
    /\ At(BindStep[s])
    /\ plane' = IF bindings /\ s \in cosmos THEN [plane EXCEPT ![s] = "bindings"] ELSE plane
    /\ Passes
    /\ UNCHANGED <<phase, catalog, inputs>>

\* It raises: both stores share one except clause, so what comes after is skipped
\* and what came before stays.
ApplyBindingRaises(s) ==
    /\ At(BindStep[s])
    /\ s = "state" \/ bindings
    /\ Raises("bindings")
    /\ step' = AfterBindings
    /\ UNCHANGED <<phase, plane, catalog, inputs>>

\* Variant: the catalog is mirrored into the other store.
SyncIntoRecommendations ==
    /\ At("catalog")
    /\ \/ catalog' = plane["recommendations"] /\ UNCHANGED failed
       \/ Raises("catalog") /\ UNCHANGED catalog
    /\ Advance
    /\ UNCHANGED <<phase, plane, inputs>>

\* sync_registered_agents_to_store writes into the state store of the moment.
SyncCatalog ==
    /\ At("catalog")
    /\ \/ catalog' = plane["state"] /\ UNCHANGED failed
       \/ Raises("catalog") /\ UNCHANGED catalog
    /\ Advance
    /\ UNCHANGED <<phase, plane, inputs>>

\* lifespan yields.
Serve ==
    /\ At("serve")
    /\ phase' = "serving"
    /\ UNCHANGED <<step, plane, catalog, failed, inputs>>

\* The finally clause; a raising shutdown of the workers is passed over.
Shutdown ==
    /\ phase = "serving"
    /\ phase' = "stopped"
    /\ UNCHANGED <<step, plane, catalog, failed, inputs>>

Next ==
    \/ SetUp
    \/ \E p \in Planes : Configure(p) \/ ConfigureRaises(p)
    \/ RecommendationsRaise
    \/ Validate
    \/ BootstrapAgents
    \/ \E s \in Stores : ApplyBinding(s) \/ ApplyBindingRaises(s)
    \/ SyncCatalog
    \/ Serve
    \/ Shutdown

Spec == Init /\ [][Next]_vars
-------------------------------------------------------------------------------
(* Properties. *)

\* Every variable has its type.
TypeOK ==
    /\ step \in 1..Len(Order)
    /\ phase \in {"starting", "serving", "failed", "stopped"}
    /\ plane \in [Planes -> {"default", "env", "none", "bindings"}]
    /\ catalog \in {"unsynced", "default", "env", "bindings"}
    /\ failed \subseteq Planes \cup {"noneFallback", "validate", "RuntimeError",
                                    "bootstrap", "bindings", "catalog"}
    /\ bindings \in BOOLEAN /\ cosmos \subseteq Stores

\* "Failures in optional planes are logged and swallowed so /health remains
\* reachable" (main.py:72-75): whatever combination of steps raises, startup fails
\* for a RuntimeError of the validation or for the agents, and for nothing else;
\* and neither of these is swallowed.
FailsOnlyWhenFatal ==
    phase = "failed" <=> "RuntimeError" \in failed \/ "bootstrap" \in failed

\* The agent catalog is mirrored into the state store the process then serves
\* with, although the bindings may replace that store during startup.
CatalogInServingStore ==
    phase = "serving" /\ catalog # "unsynced" => catalog = plane["state"]

\* A recommendation store that could not be configured leaves persistence off, or
\* a store the bindings configured: never the library's default store.
NoAccidentalStore ==
    phase = "serving" /\ "recommendations" \in failed /\ "noneFallback" \notin failed
        => plane["recommendations"] \in {"none", "bindings"}

\* "Cosmos bindings apply failed; keeping process store config" (main.py:227).
KeepsConfigOnBindingFailure ==
    phase = "serving" /\ "bindings" \in failed =>
        \A s \in Stores : plane[s] # "bindings"
===============================================================================
