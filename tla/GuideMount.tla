------------------------------ MODULE GuideMount ------------------------------
(***************************************************************************)
(* The engineer guide of guide.py.  mount_guide runs once, when main.py is *)
(* imported; guide_diagnostics runs at every request for /debug/guide and  *)
(* makes the same choice in code of its own.  A site is a candidate        *)
(* directory with an index.html; disk is the set of candidates that have   *)
(* one at that moment.                                                     *)
(***************************************************************************)
EXTENDS Naturals, Sequences

CONSTANTS
    Sites,      \* _site_candidates(): directories, in order of preference
    NoSite      \* no directory

ASSUME SitesAssumption == Sites \in Seq(STRING) /\ NoSite \notin {Sites[i] : i \in DOMAIN Sites}

Candidates == {Sites[i] : i \in DOMAIN Sites}

\* resolve_guide_site_dir: nothing on Apps without the opt-in, else the first
\* candidate with an index.
ResolveGuideSiteDir(onApps, optIn, disk) ==
    IF (onApps /\ ~optIn) \/ Candidates \cap disk = {}
    THEN NoSite
    ELSE Sites[CHOOSE i \in DOMAIN Sites :
                /\ Sites[i] \in disk
                /\ \A j \in DOMAIN Sites : Sites[j] \in disk => i <= j]

\* The loop of guide_diagnostics over every candidate: resolved is set once.
Resolved(disk) ==
    IF Candidates \cap disk = {}
    THEN NoSite
    ELSE Sites[CHOOSE i \in DOMAIN Sites :
                /\ Sites[i] \in disk
                /\ \A j \in 1..i-1 : Sites[j] \notin disk]

\* The directories mount_guide serves under /guide.
MountGuide(onApps, optIn, disk) == {ResolveGuideSiteDir(onApps, optIn, disk)} \ {NoSite}

GuideDiagnostics(onApps, optIn, disk) ==
    [resolved |-> Resolved(disk),
     mounted  |-> Resolved(disk) # NoSite /\ ~(onApps /\ ~optIn)]

\* What /debug/guide reports of an unchanged disk is what was mounted: the same
\* verdict, and the same directory although two loops look for it
\* (guide.py:52-86, 88-111).
DiagnosticsAgree ==
    \A onApps, optIn \in BOOLEAN, disk \in SUBSET Candidates :
        LET told == GuideDiagnostics(onApps, optIn, disk)
        IN  MountGuide(onApps, optIn, disk) = IF told.mounted THEN {told.resolved} ELSE {}
===============================================================================
