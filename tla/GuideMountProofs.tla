--------------------------- MODULE GuideMountProofs ---------------------------
(***************************************************************************)
(* What /debug/guide reports is what was mounted, for any list of          *)
(* candidate directories.  The two loops of guide.py are told apart in     *)
(* GuideMount by what they say of the site they choose; both choose the    *)
(* least index, which exists because the natural numbers are well founded. *)
(***************************************************************************)
EXTENDS GuideMount, WellFoundedInduction, TLAPS

Found(disk) == {i \in DOMAIN Sites : Sites[i] \in disk}

\* The first candidate with an index.
LEMMA FirstFound ==
  ASSUME NEW disk, Candidates \cap disk # {}
  PROVE  \E i \in Found(disk) : \A j \in Found(disk) : i <= j
<1>1. Found(disk) # {} /\ Found(disk) \subseteq Nat
  BY SitesAssumption DEF Found, Candidates
<1>2. PICK i \in Found(disk) : \A j \in Found(disk) : <<j, i>> \notin OpToRel(<, Nat)
  BY <1>1, NatLessThanWellFounded, WFMin
<1>3. ASSUME NEW j \in Found(disk) PROVE i <= j
  <2>1. i \in Nat /\ j \in Nat /\ ~(j < i)
    BY <1>1, <1>2 DEF OpToRel
  <2> QED
    BY <2>1
<1> QED
  BY <1>3

\* Both loops end at the same candidate.
LEMMA SameSite ==
  ASSUME NEW disk, Candidates \cap disk # {}
  PROVE  /\ Resolved(disk) \in Candidates
         /\ \A onApps, optIn \in BOOLEAN :
                ~(onApps /\ ~optIn) => ResolveGuideSiteDir(onApps, optIn, disk) = Resolved(disk)
<1> DEFINE Least(i) == Sites[i] \in disk /\ \A j \in DOMAIN Sites : Sites[j] \in disk => i <= j
           First(i) == Sites[i] \in disk /\ \A j \in 1..i-1 : Sites[j] \notin disk
           l == CHOOSE i \in DOMAIN Sites : Least(i)
           f == CHOOSE i \in DOMAIN Sites : First(i)
<1>1. DOMAIN Sites = 1..Len(Sites) /\ Len(Sites) \in Nat
  BY SitesAssumption
<1>2. \E i \in DOMAIN Sites : Least(i)
  BY FirstFound DEF Found
<1>3. \A i \in DOMAIN Sites : First(i) <=> Least(i)
  BY <1>1
<1>4. l \in DOMAIN Sites /\ Least(l)
  BY <1>2
<1>5. f \in DOMAIN Sites /\ First(f)
  BY <1>2, <1>3
<1>6. l <= f /\ f <= l
  BY <1>3, <1>4, <1>5
<1>7. l = f
  <2> HIDE DEF l, f
  <2>1. l \in Int /\ f \in Int
    BY <1>1, <1>4, <1>5
  <2> QED
    BY <1>6, <2>1
<1>8. Resolved(disk) = Sites[f]
  BY DEF Resolved
<1>9. ASSUME NEW onApps \in BOOLEAN, NEW optIn \in BOOLEAN, ~(onApps /\ ~optIn)
      PROVE  ResolveGuideSiteDir(onApps, optIn, disk) = Sites[l]
  BY <1>9 DEF ResolveGuideSiteDir
<1> HIDE DEF l, f
<1> QED
  BY <1>5, <1>7, <1>8, <1>9 DEF Candidates

\* guide.py:52-86, 88-111: the report of an unchanged disk is what was mounted.
THEOREM GuideReportIsTrue == DiagnosticsAgree
<1>1. ASSUME NEW onApps \in BOOLEAN, NEW optIn \in BOOLEAN, NEW disk \in SUBSET Candidates
      PROVE  MountGuide(onApps, optIn, disk) =
                IF GuideDiagnostics(onApps, optIn, disk).mounted
                THEN {GuideDiagnostics(onApps, optIn, disk).resolved} ELSE {}
  <2>1. CASE onApps /\ ~optIn
    BY <2>1 DEF MountGuide, GuideDiagnostics, ResolveGuideSiteDir
  <2>2. CASE ~(onApps /\ ~optIn) /\ Candidates \cap disk = {}
    BY <2>2 DEF MountGuide, GuideDiagnostics, ResolveGuideSiteDir, Resolved
  <2>3. CASE ~(onApps /\ ~optIn) /\ Candidates \cap disk # {}
    <3>1. /\ Resolved(disk) # NoSite
          /\ ResolveGuideSiteDir(onApps, optIn, disk) = Resolved(disk)
      BY <2>3, SameSite, SitesAssumption DEF Candidates
    <3> QED
      BY <2>3, <3>1 DEF MountGuide, GuideDiagnostics
  <2> QED
    BY <2>1, <2>2, <2>3
<1> QED
  BY <1>1 DEF DiagnosticsAgree
===============================================================================
