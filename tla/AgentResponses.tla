---------------------------- MODULE AgentResponses ----------------------------
(***************************************************************************)
(* What the service makes of data on its way out: the counts of the        *)
(* tuning projection (schemas.py), the compact copy of an RCA response     *)
(* that is stored (routes.py), and the message of an exception that goes   *)
(* into a log line or an answer (safe_logging.py).                         *)
(*                                                                         *)
(* A text that is only cut is its length.  A text that is redacted is a    *)
(* sequence of "c" (ordinary) and "s" (character of a secret); the         *)
(* patterns recognise a secret by its length, as that of a JWT does: a run *)
(* of at least MinSecret.  The message made of a text is the sequence of   *)
(* the positions it shows, with a Mark for each character that is not of   *)
(* the text.                                                               *)
(***************************************************************************)
EXTENDS Integers, Sequences, FiniteSets

CONSTANTS
    MaxEvidence,    \* excerpts of a stored evidence pack (20)
    MaxExcerpt,     \* characters of a stored excerpt (500)
    MaxSection,     \* characters of a stored section (2000)
    MessageLimit,   \* characters of a safe message (500)
    MinSecret,      \* shortest run the patterns take for a secret
    MarkLength,     \* characters of "[REDACTED]" (10)
    Numbers,        \* numbers an agent may report
    Lengths,        \* lengths of the texts an agent may report
    MaxPack,        \* bound: evidence items of a pack
    MaxText         \* bound: characters of an exception's text

ASSUME CopyAssumption ==
    MaxEvidence \in Nat /\ MaxExcerpt \in Nat /\ MaxSection \in Nat /\ MaxPack \in Nat
ASSUME MessageAssumption ==
    /\ MessageLimit \in Nat /\ MessageLimit >= 3
    /\ MinSecret \in Nat /\ MarkLength \in Nat /\ MaxText \in Nat
ASSUME InputAssumption == Numbers \subseteq Int /\ Lengths \subseteq Nat

Smaller(a, b) == IF a <= b THEN a ELSE b
-------------------------------------------------------------------------------
(* Counts: absent, a number, or something int() refuses. *)

Counts ==
    [kind : {"number"}, value : Numbers] \cup [kind : {"absent", "text"}, value : {0}]

IsNone(c) == c.kind = "absent"
IsFalsy(c) == IsNone(c) \/ (c.kind = "number" /\ c.value = 0)

\* int(...) of both counts: a ValueError when one is no number.
Projectable(attempts, retries) == attempts.kind # "text" /\ retries.kind # "text"

SizingAttempts(attempts) == IF IsFalsy(attempts) THEN 1 ELSE attempts.value

\* Variant: "or" in place of "is None": a reported zero counts as absent.
RetriesOrDerived(attempts, retries) ==
    IF IsFalsy(retries)
    THEN IF SizingAttempts(attempts) > 1 THEN SizingAttempts(attempts) - 1 ELSE 0
    ELSE retries.value

\* Reported, or derived: max(0, attempts - 1).
GuardrailRetries(attempts, retries) ==
    IF IsNone(retries)
    THEN IF SizingAttempts(attempts) > 1 THEN SizingAttempts(attempts) - 1 ELSE 0
    ELSE retries.value

\* A retry count the agent reported is the one answered, zero included; one it did
\* not report is never negative and stays below the number of attempts, of which
\* there is none equal to zero (schemas.py:471-474).
CountsProjected ==
    \A attempts, retries \in Counts : Projectable(attempts, retries) =>
        LET n == SizingAttempts(attempts)
            k == GuardrailRetries(attempts, retries)
        IN  /\ n # 0
            /\ retries.kind = "number" => k = retries.value
            /\ IsNone(retries) => k >= 0 /\ (n >= 1 => k < n)
-------------------------------------------------------------------------------
(* The stored copy of an evidence pack. *)

\* label: ref and source together; excerpt: the excerpt.
Items == [dict : BOOLEAN, label : Lengths, excerpt : Lengths]
Packs == UNION {[1..n -> Items] : n \in 0..MaxPack}
Keys  == {"driver", "executor"}

\* Variant: every item that is a dict, the slice forgotten.
KeepAllItems(pack) == {i \in DOMAIN pack : pack[i].dict}

\* [:20] first; items that are no dict are dropped afterwards.
KeptItems(pack) == {i \in 1..Smaller(Len(pack), MaxEvidence) : pack[i].dict}

\* Each kept position: the excerpt is cut, the label copied.
StoredEvidence(pack) ==
    [i \in KeptItems(pack) |->
        [label |-> pack[i].label, excerpt |-> Smaller(pack[i].excerpt, MaxExcerpt)]]

StoredSections(sections) == [k \in DOMAIN sections |-> Smaller(sections[k], MaxSection)]

\* "a truncated evidence_pack (anchors + <=20 excerpts + <=2k section text)": of any
\* pack at most MaxEvidence items are stored, no excerpt and no section text beyond
\* its limit, and what is within the limits is stored whole (routes.py:847, 872-888).
CopyIsCut ==
    /\ \A pack \in Packs :
        LET stored == StoredEvidence(pack)
        IN  /\ Cardinality(DOMAIN stored) <= MaxEvidence
            /\ \A i \in DOMAIN stored : stored[i].excerpt <= MaxExcerpt
            /\ \A i \in DOMAIN pack :
                pack[i].dict /\ pack[i].excerpt <= MaxExcerpt /\ Len(pack) <= MaxEvidence
                    => /\ i \in DOMAIN stored
                       /\ stored[i] = [label |-> pack[i].label, excerpt |-> pack[i].excerpt]
    /\ \A sections \in [Keys -> Lengths] : \A k \in Keys :
        StoredSections(sections)[k] <= MaxSection

\* "RecommendationStore rows stay bounded": no text of the stored evidence is longer
\* than the longest of the limits (routes.py:842-843).  The labels are.
CopyStaysBounded ==
    \A pack \in Packs : \A i \in KeptItems(pack) :
        LET stored == StoredEvidence(pack)[i]
        IN  \A n \in {stored.label, stored.excerpt} : n <= MaxExcerpt \/ n <= MaxSection
-------------------------------------------------------------------------------
(* The message of an exception. *)

Texts == UNION {[1..n -> {"c", "s"}] : n \in 0..MaxText}

\* Position i lies in a run of secret characters the patterns recognise.
InSecret(text, i) ==
    \E a, b \in DOMAIN text :
        /\ a <= i /\ i <= b
        /\ b - a + 1 >= MinSecret
        /\ \A j \in a..b : text[j] = "s"

\* What is shown of a text, and where its secrets begin.
Shown(text)  == {i \in DOMAIN text : ~InSecret(text, i)}
Starts(text) == {i \in DOMAIN text : InSecret(text, i) /\ ~InSecret(text, i - 1)}

\* Characters of the redacted text that stand before what was at position i.
Offset(text, i) ==
    Cardinality({j \in Shown(text) : j < i})
        + MarkLength * Cardinality({j \in Starts(text) : j < i})

Mark == 0

\* redact_secrets_and_pii: each secret becomes a mark, be that shorter or longer.
Redact(text) ==
    [k \in 1..Offset(text, Len(text) + 1) |->
        IF \E i \in Shown(text) : Offset(text, i) + 1 = k
        THEN CHOOSE i \in Shown(text) : Offset(text, i) + 1 = k
        ELSE Mark]

Dots == <<Mark, Mark, Mark>>

Truncate(msg) ==
    IF Len(msg) > MessageLimit THEN SubSeq(msg, 1, MessageLimit - 3) \o Dots ELSE msg

\* Variant: cut first, redact what is left.
TruncateThenRedact(text) ==
    IF Len(text) > MessageLimit
    THEN Redact(SubSeq(text, 1, MessageLimit - 3)) \o Dots
    ELSE Redact(text)

SafeExcMessage(text) == Truncate(Redact(text))

\* A message is never longer than its limit, also when the marks make it longer than
\* the text was; it shows no character of a secret, also of one that the cut would
\* have split; and what is within the limit once redacted is not cut
\* (safe_logging.py:90-103).
MessageSafe ==
    \A text \in Texts :
        LET msg == SafeExcMessage(text)
        IN  /\ Len(msg) <= MessageLimit
            /\ \A k \in DOMAIN msg : msg[k] # Mark => ~InSecret(text, msg[k])
            /\ Len(Redact(text)) <= MessageLimit => msg = Redact(text)
===============================================================================
