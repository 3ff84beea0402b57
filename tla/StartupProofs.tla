------------------------------ MODULE StartupProofs ------------------------------
(***************************************************************************)
(* Startup's invariants as theorems: whatever combination of steps raises. *)
(* They rest on where each step stands in the source (Positions).          *)
(***************************************************************************)
EXTENDS Startup, TLAPS

\* Where the steps stand that replace a store or mirror the catalog.
LEMMA Positions ==
  /\ Len(Order) = 16
  /\ \A i \in 1..16 :
        /\ Order[i] = "state" => i = 4
        /\ Order[i] = "recommendations" => i = 6
        /\ Order[i] = "bindState" => i = 11
        /\ Order[i] = "bindRecommendations" <=> i = 12
        /\ Order[i] = "catalog" => i = 13
        /\ Order[i] = "serve" <=> i = 16
<1>1. Len(Order) = 16
  BY DEF Order
<1>2. ASSUME NEW i \in 1..16
      PROVE  /\ Order[i] = "state" => i = 4
             /\ Order[i] = "recommendations" => i = 6
             /\ Order[i] = "bindState" => i = 11
             /\ Order[i] = "bindRecommendations" <=> i = 12
             /\ Order[i] = "catalog" => i = 13
             /\ Order[i] = "serve" <=> i = 16
  <2>1. i \in {1, 2, 3, 4, 5, 6, 7, 8, 9, 10, 11, 12, 13, 14, 15, 16}
    OBVIOUS
  <2> QED
    BY <2>1 DEF Order
<1> QED
  BY <1>1, <1>2

\* Raising bindings go on with the catalog.
LEMMA BindingsSkipTo == AfterBindings = 13
<1>1. \A i \in 1..Len(Order) : Order[i] = "bindRecommendations" <=> i = 12
  BY Positions
<1>2. 12 \in 1..Len(Order)
  BY Positions
<1> DEFINE next == CHOOSE i \in 1..Len(Order) : Order[i] = "bindRecommendations"
<1>3. next \in 1..Len(Order) /\ Order[next] = "bindRecommendations"
  BY <1>1, <1>2, Zenon
<1>4. next = 12
  BY <1>1, <1>3
<1>5. AfterBindings = 1 + next
  BY Zenon DEF AfterBindings
<1> HIDE DEF next
<1> QED
  BY <1>4, <1>5

\* The recommendation store has failed only once its step is behind; the catalog is
\* mirrored only once nothing replaces the state store any more.
Behind ==
    /\ "recommendations" \in failed => step > 6
    /\ catalog # "unsynced" => step > 13
    /\ plane["state"] # "none"

CatalogStands == catalog # "unsynced" => catalog = plane["state"]

FallbackStands ==
    "recommendations" \in failed /\ "noneFallback" \notin failed
        => plane["recommendations"] \in {"none", "bindings"}

SInv == TypeOK /\ Behind /\ CatalogStands /\ FallbackStands

\* Every step of the lifespan keeps the invariant.
LEMMA SInvStep == SInv /\ [Next]_vars => SInv'
<1> SUFFICES ASSUME SInv, [Next]_vars PROVE SInv'
  OBVIOUS
<1> USE DEF SInv, TypeOK, Behind, CatalogStands, FallbackStands,
            At, Passes, Advance, Raises, inputs
<1>1. Len(Order) = 16 /\ step \in 1..16
  BY Positions
<1>2. ASSUME NEW p \in Planes, Configure(p) PROVE SInv'
  <2>1. step # 16 /\ (p = "state" => step = 4) /\ (p = "recommendations" => step = 6)
    BY <1>1, <1>2, Positions DEF Configure, Planes
  <2>2. plane' = [plane EXCEPT ![p] = "env"] /\ step' = step + 1
        /\ UNCHANGED <<phase, catalog, failed, inputs>>
    BY <1>2 DEF Configure
  <2>3. step' \in 1..16 /\ plane' \in [Planes -> {"default", "env", "none", "bindings"}]
    BY <1>1, <2>1, <2>2
  <2>4. p # "state" => plane'["state"] = plane["state"]
    BY <2>2 DEF Planes
  <2>5. p # "recommendations" => plane'["recommendations"] = plane["recommendations"]
    BY <2>2 DEF Planes
  <2>6. plane'["state"] # "none"
    BY <2>2, <2>4 DEF Planes
  <2> QED
    BY <1>1, <2>1, <2>2, <2>3, <2>4, <2>5, <2>6
<1>3. ASSUME NEW p \in Planes, ConfigureRaises(p) PROVE SInv'
  <2>1. step # 16
    BY <1>1, <1>3, Positions DEF ConfigureRaises, Planes
  <2> QED
    BY <1>1, <1>3, <2>1 DEF ConfigureRaises
<1>4. ASSUME RecommendationsRaise PROVE SInv'
  <2>1. step = 6
    BY <1>1, <1>4, Positions DEF RecommendationsRaise
  <2>2. plane' \in [Planes -> {"default", "env", "none", "bindings"}]
        /\ plane'["state"] = plane["state"]
    BY <1>4 DEF RecommendationsRaise, Planes
  <2>3. "noneFallback" \notin failed' => plane'["recommendations"] = "none"
    BY <1>4 DEF RecommendationsRaise, Planes
  <2>4. step' = 7 /\ UNCHANGED <<phase, catalog, inputs>>
    BY <1>4, <2>1 DEF RecommendationsRaise
  <2>5. failed' \subseteq failed \cup {"recommendations", "noneFallback"}
    BY <1>4 DEF RecommendationsRaise
  <2> QED
    BY <2>1, <2>2, <2>3, <2>4, <2>5, Positions DEF Planes
<1>5. ASSUME Validate \/ BootstrapAgents PROVE SInv'
  <2>1. step # 16
    BY <1>1, <1>5, Positions DEF Validate, BootstrapAgents
  <2>2. step' \in {step, step + 1} /\ UNCHANGED <<plane, catalog, inputs>>
        /\ phase' \in {phase, "failed"} /\ failed' \subseteq failed \cup {"validate", "RuntimeError", "bootstrap"}
    BY <1>5 DEF Validate, BootstrapAgents
  <2>3. failed' \subseteq Planes \cup {"noneFallback", "validate", "RuntimeError",
                                       "bootstrap", "bindings", "catalog"}
    BY <2>2
  <2>4. /\ "recommendations" \in failed' => "recommendations" \in failed
        /\ "noneFallback" \in failed => "noneFallback" \in failed'
    BY <1>5 DEF Validate, BootstrapAgents
  <2>5. step' \in 1..16 /\ step' >= step
    BY <1>1, <2>1, <2>2
  <2> QED
    BY <1>1, <2>2, <2>3, <2>4, <2>5
<1>6. ASSUME NEW s \in Stores, ApplyBinding(s) PROVE SInv'
  <2>1. step \in {11, 12}
    BY <1>1, <1>6, Positions DEF ApplyBinding, BindStep, Stores
  <2>2. plane' \in [Planes -> {"default", "env", "none", "bindings"}]
    BY <1>6 DEF ApplyBinding
  <2>3. plane'["state"] # "none"
        /\ plane'["recommendations"] \in {plane["recommendations"], "bindings"}
    BY <1>6 DEF ApplyBinding, Stores, Planes
  <2>4. step' = step + 1 /\ UNCHANGED <<phase, catalog, failed, inputs>>
    BY <1>6 DEF ApplyBinding
  <2> QED
    BY <1>1, <2>1, <2>2, <2>3, <2>4
<1>7. ASSUME NEW s \in Stores, ApplyBindingRaises(s) PROVE SInv'
  <2>1. step \in {11, 12}
    BY <1>1, <1>7, Positions DEF ApplyBindingRaises, BindStep, Stores
  <2> QED
    BY <1>1, <1>7, <2>1, BindingsSkipTo DEF ApplyBindingRaises, Planes
<1>8. ASSUME SyncCatalog PROVE SInv'
  <2>1. step = 13
    BY <1>1, <1>8, Positions DEF SyncCatalog
  <2>2. plane["state"] \in {"default", "env", "bindings"}
    BY DEF Planes
  <2>3. catalog' \in {catalog, plane["state"]} /\ step' = 14
        /\ UNCHANGED <<phase, plane, inputs>> /\ failed' \subseteq failed \cup {"catalog"}
    BY <1>8, <2>1 DEF SyncCatalog
  <2>4. failed' \subseteq Planes \cup {"noneFallback", "validate", "RuntimeError",
                                       "bootstrap", "bindings", "catalog"}
    BY <2>3
  <2>5. /\ "recommendations" \in failed' => "recommendations" \in failed
        /\ "noneFallback" \in failed => "noneFallback" \in failed'
    BY <1>8 DEF SyncCatalog
  <2> QED
    BY <1>1, <2>1, <2>2, <2>3, <2>4, <2>5
<1>9. ASSUME Serve \/ Shutdown PROVE SInv'
  BY <1>1, <1>9 DEF Serve, Shutdown
<1>10. CASE SetUp
  <2>1. step # 16
    BY <1>1, <1>10, Positions DEF SetUp
  <2> QED
    BY <1>1, <1>10, <2>1 DEF SetUp
<1>11. CASE UNCHANGED vars
  BY <1>1, <1>11 DEF vars
<1> QED
  BY <1>2, <1>3, <1>4, <1>5, <1>6, <1>7, <1>8, <1>9, <1>10, <1>11 DEF Next

\* The invariant holds throughout the lifespan.
LEMMA SInvHolds == Spec => []SInv
<1>1. Init => SInv
  BY Positions DEF Init, SInv, TypeOK, Behind, CatalogStands, FallbackStands,
                   Planes
<1> QED
  BY <1>1, SInvStep, PTL DEF Spec

\* Every reachable state of the lifespan is well typed.
THEOREM StartupTypeCorrect == Spec => []TypeOK
<1>1. SInv => TypeOK
  BY DEF SInv
<1> QED
  BY <1>1, SInvHolds, PTL

\* main.py:72-75, 191-192: startup fails for a RuntimeError of the validation or for
\* the agents, whichever other steps raise, and for one of these it does fail.
THEOREM FailsOnlyFatally == Spec => []FailsOnlyWhenFatal
<1>1. Init => FailsOnlyWhenFatal
  BY DEF Init, FailsOnlyWhenFatal
<1>2. FailsOnlyWhenFatal /\ [Next]_vars => FailsOnlyWhenFatal'
  <2> SUFFICES ASSUME FailsOnlyWhenFatal, [Next]_vars PROVE FailsOnlyWhenFatal'
    OBVIOUS
  <2> USE DEF FailsOnlyWhenFatal, At, Passes, Raises, inputs
  <2>1. ASSUME NEW p \in Planes, Configure(p) \/ ConfigureRaises(p)
        PROVE  FailsOnlyWhenFatal'
    BY <2>1 DEF Configure, ConfigureRaises, Planes
  <2>2. CASE RecommendationsRaise
    BY <2>2 DEF RecommendationsRaise
  <2>3. CASE Validate
    BY <2>3 DEF Validate
  <2>4. CASE BootstrapAgents
    BY <2>4 DEF BootstrapAgents
  <2>5. ASSUME NEW s \in Stores, ApplyBinding(s) \/ ApplyBindingRaises(s)
        PROVE  FailsOnlyWhenFatal'
    BY <2>5 DEF ApplyBinding, ApplyBindingRaises
  <2>6. CASE SyncCatalog
    BY <2>6 DEF SyncCatalog
  <2>7. CASE SetUp
    BY <2>7 DEF SetUp
  <2>8. CASE Serve \/ Shutdown
    BY <2>8 DEF Serve, Shutdown
  <2>9. CASE UNCHANGED vars
    BY <2>9 DEF vars
  <2> QED
    BY <2>1, <2>2, <2>3, <2>4, <2>5, <2>6, <2>7, <2>8, <2>9 DEF Next
<1> QED
  BY <1>1, <1>2, PTL DEF Spec

\* The catalog is in the state store the process serves with, although bindings may
\* replace that store on the way.
THEOREM CatalogServed == Spec => []CatalogInServingStore
<1>1. SInv => CatalogInServingStore
  BY DEF SInv, CatalogStands, CatalogInServingStore
<1> QED
  BY <1>1, SInvHolds, PTL

\* A recommendation store that raised is never left at the library's default.
THEOREM NoAccidentalDefault == Spec => []NoAccidentalStore
<1>1. SInv => NoAccidentalStore
  BY DEF SInv, FallbackStands, NoAccidentalStore
<1> QED
  BY <1>1, SInvHolds, PTL
===============================================================================
