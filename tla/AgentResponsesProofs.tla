-------------------------- MODULE AgentResponsesProofs --------------------------
(***************************************************************************)
(* What AgentResponses says of its operators holds for every limit and all *)
(* inputs, the code's 20, 500 and 2000 among them.                         *)
(***************************************************************************)
EXTENDS AgentResponses, FiniteSetTheorems, TLAPS

\* schemas.py:471-474: a reported retry count is answered, a missing one derived
\* without falling below zero.
THEOREM RetryCountsProjected == CountsProjected
<1>1. ASSUME NEW attempts \in Counts, NEW retries \in Counts,
             Projectable(attempts, retries)
      PROVE  /\ SizingAttempts(attempts) # 0
             /\ retries.kind = "number" =>
                    GuardrailRetries(attempts, retries) = retries.value
             /\ IsNone(retries) =>
                    /\ GuardrailRetries(attempts, retries) >= 0
                    /\ SizingAttempts(attempts) >= 1 =>
                        GuardrailRetries(attempts, retries) < SizingAttempts(attempts)
  <2>1. attempts.value \in Int /\ attempts.kind \in {"number", "absent", "text"}
    <3>1. CASE attempts \in [kind : {"number"}, value : Numbers]
      BY <3>1, InputAssumption
    <3>2. CASE attempts \in [kind : {"absent", "text"}, value : {0}]
      BY <3>2
    <3> QED
      BY <3>1, <3>2 DEF Counts
  <2> DEFINE n == SizingAttempts(attempts)
             k == GuardrailRetries(attempts, retries)
  <2>2. n \in Int /\ n # 0
    BY <1>1, <2>1 DEF SizingAttempts, IsNone, IsFalsy, Projectable
  <2>3. retries.kind = "number" => k = retries.value
    BY DEF GuardrailRetries, IsNone
  <2>4. IsNone(retries) => k = IF n > 1 THEN n - 1 ELSE 0
    BY DEF GuardrailRetries
  <2> HIDE DEF n, k
  <2>5. IsNone(retries) => k >= 0 /\ (n >= 1 => k < n)
    BY <2>2, <2>4
  <2> QED
    BY <2>2, <2>3, <2>5 DEF n, k
<1> QED
  BY <1>1, Zenon DEF CountsProjected
-------------------------------------------------------------------------------
\* A pack is a sequence of items.
LEMMA PackTyped ==
  ASSUME NEW pack \in Packs
  PROVE  Len(pack) \in Nat /\ DOMAIN pack = 1..Len(pack)
         /\ \A i \in DOMAIN pack : pack[i].excerpt \in Nat
<1> PICK n \in 0..MaxPack : pack \in [1..n -> Items]
  BY DEF Packs
<1>1. n \in Nat
  BY CopyAssumption
<1>2. \A i \in 1..n : pack[i].excerpt \in Nat
  BY InputAssumption DEF Items
<1> QED
  BY <1>1, <1>2

\* The smaller of two numbers is below both, and one of them.
LEMMA SmallerIsLess ==
  ASSUME NEW a \in Nat, NEW b \in Nat
  PROVE  Smaller(a, b) \in Nat /\ Smaller(a, b) <= a /\ Smaller(a, b) <= b
         /\ (a <= b => Smaller(a, b) = a)
BY DEF Smaller

\* routes.py:847, 872-888: the stored copy is cut as documented, and nothing within the
\* limits is lost.
THEOREM StoredCopyIsCut == CopyIsCut
<1>1. ASSUME NEW pack \in Packs
      PROVE  LET stored == StoredEvidence(pack)
             IN  /\ Cardinality(DOMAIN stored) <= MaxEvidence
                 /\ \A i \in DOMAIN stored : stored[i].excerpt <= MaxExcerpt
                 /\ \A i \in DOMAIN pack :
                     pack[i].dict /\ pack[i].excerpt <= MaxExcerpt /\ Len(pack) <= MaxEvidence
                         => /\ i \in DOMAIN stored
                            /\ stored[i] = [label |-> pack[i].label, excerpt |-> pack[i].excerpt]
  <2>1. MaxEvidence \in Nat /\ MaxExcerpt \in Nat
    BY CopyAssumption
  <2>2. /\ Len(pack) \in Nat /\ DOMAIN pack = 1..Len(pack)
        /\ \A i \in DOMAIN pack : pack[i].excerpt \in Nat
    BY PackTyped
  <2>3. /\ Smaller(Len(pack), MaxEvidence) \in Nat
        /\ Smaller(Len(pack), MaxEvidence) <= MaxEvidence
        /\ Smaller(Len(pack), MaxEvidence) <= Len(pack)
        /\ Len(pack) <= MaxEvidence => Smaller(Len(pack), MaxEvidence) = Len(pack)
    BY <2>1, <2>2, SmallerIsLess
  <2>4. KeptItems(pack) \in SUBSET (1..MaxEvidence) /\ KeptItems(pack) \subseteq DOMAIN pack
    BY <2>1, <2>2, <2>3 DEF KeptItems
  <2>5. IsFiniteSet(1..MaxEvidence) /\ Cardinality(1..MaxEvidence) = MaxEvidence
    BY <2>1, FS_Interval
  <2>6. Cardinality(KeptItems(pack)) <= MaxEvidence
    BY <2>4, <2>5, FS_Subset
  <2>7. DOMAIN StoredEvidence(pack) = KeptItems(pack)
    BY DEF StoredEvidence
  <2>8. \A i \in KeptItems(pack) :
            /\ StoredEvidence(pack)[i].excerpt <= MaxExcerpt
            /\ pack[i].excerpt <= MaxExcerpt =>
                StoredEvidence(pack)[i] = [label |-> pack[i].label, excerpt |-> pack[i].excerpt]
    BY <2>1, <2>2, <2>4, SmallerIsLess DEF StoredEvidence
  <2>9. ASSUME NEW i \in DOMAIN pack, pack[i].dict, Len(pack) <= MaxEvidence
        PROVE  i \in KeptItems(pack)
    BY <2>2, <2>3, <2>9 DEF KeptItems
  <2> QED
    BY <2>6, <2>7, <2>8, <2>9
<1>2. ASSUME NEW sections \in [Keys -> Lengths], NEW k \in Keys
      PROVE  StoredSections(sections)[k] <= MaxSection
  BY CopyAssumption, InputAssumption, SmallerIsLess DEF StoredSections
<1> QED
  BY <1>1, <1>2 DEF CopyIsCut
-------------------------------------------------------------------------------
\* The elements of a concatenation.
LEMMA ConcatIndices ==
  ASSUME NEW S, NEW s \in Seq(S), NEW t \in Seq(S)
  PROVE  /\ s \o t \in Seq(S) /\ Len(s \o t) = Len(s) + Len(t)
         /\ \A i \in 1..Len(s) : (s \o t)[i] = s[i]
         /\ \A i \in Len(s)+1..Len(s)+Len(t) : (s \o t)[i] = t[i - Len(s)]
OBVIOUS

\* Offsets are numbers.
LEMMA OffsetIsNat ==
  ASSUME NEW text \in Texts, NEW i
  PROVE  Offset(text, i) \in Nat
<1> PICK n \in 0..MaxText : text \in [1..n -> {"c", "s"}]
  BY DEF Texts
<1> DEFINE before(S) == {j \in S : j < i}
<1>1. n \in Nat /\ DOMAIN text = 1..n
  BY MessageAssumption
<1>2. IsFiniteSet(1..n)
  BY <1>1, FS_Interval
<1>3. before(Shown(text)) \subseteq 1..n /\ before(Starts(text)) \subseteq 1..n
  BY <1>1 DEF Shown, Starts
<1>4. /\ Cardinality(before(Shown(text))) \in Nat
      /\ Cardinality(before(Starts(text))) \in Nat
  BY <1>2, <1>3, FS_Subset, FS_CardinalityType
<1> HIDE DEF before
<1>5. MarkLength * Cardinality(before(Starts(text))) \in Nat
  BY <1>4, MessageAssumption
<1> QED
  BY <1>4, <1>5 DEF Offset, before

\* A redacted text is a sequence of marks and of positions that are no secret's.
LEMMA RedactedShowsNoSecret ==
  ASSUME NEW text \in Texts
  PROVE  /\ Redact(text) \in Seq(Shown(text) \cup {Mark})
         /\ \A k \in DOMAIN Redact(text) :
                Redact(text)[k] # Mark => ~InSecret(text, Redact(text)[k])
<1> DEFINE n == Offset(text, Len(text) + 1)
<1>1. n \in Nat
  BY OffsetIsNat
<1> HIDE DEF n
<1>2. \A k \in 1..n : Redact(text)[k] \in Shown(text) \cup {Mark}
  BY DEF Redact, n
<1>3. Redact(text) \in [1..n -> Shown(text) \cup {Mark}]
  <2>1. Redact(text) = [k \in 1..n |-> Redact(text)[k]]
    BY DEF Redact, n
  <2> QED
    BY <1>2, <2>1
<1>4. \A i \in Shown(text) : ~InSecret(text, i)
  BY DEF Shown
<1> QED
  BY <1>1, <1>3, <1>4

\* safe_logging.py:90-103: a safe message stays within its limit and shows nothing of
\* a secret, because what is cut has been redacted before.
THEOREM MessagesAreSafe == MessageSafe
<1> SUFFICES ASSUME NEW text \in Texts
             PROVE  /\ Len(SafeExcMessage(text)) <= MessageLimit
                    /\ \A k \in DOMAIN SafeExcMessage(text) :
                            SafeExcMessage(text)[k] # Mark =>
                                ~InSecret(text, SafeExcMessage(text)[k])
                    /\ Len(Redact(text)) <= MessageLimit =>
                            SafeExcMessage(text) = Redact(text)
  BY DEF MessageSafe
<1> DEFINE red == Redact(text)
           S   == Shown(text) \cup {Mark}
<1>1. red \in Seq(S) /\ \A k \in DOMAIN red : red[k] # Mark => ~InSecret(text, red[k])
  BY RedactedShowsNoSecret
<1> HIDE DEF red
<1>2. CASE Len(red) <= MessageLimit
  <2>1. SafeExcMessage(text) = red
    BY <1>1, <1>2, MessageAssumption DEF SafeExcMessage, Truncate, red
  <2> QED
    BY <1>1, <1>2, <2>1 DEF red
<1>3. CASE Len(red) > MessageLimit
  <2> DEFINE head == SubSeq(red, 1, MessageLimit - 3)
             cut  == head \o Dots
  <2>1. SafeExcMessage(text) = cut
    BY <1>3 DEF SafeExcMessage, Truncate, red
  <2> HIDE DEF S
  <2>2. /\ head \in Seq(S) /\ Len(head) = MessageLimit - 3
        /\ \A k \in 1..(MessageLimit - 3) : head[k] = red[k] /\ k \in DOMAIN red
    BY <1>1, <1>3, MessageAssumption
  <2>3. Dots \in Seq(S) /\ Len(Dots) = 3 /\ \A k \in 1..3 : Dots[k] = Mark
    BY DEF Dots, S
  <2> HIDE DEF head
  <2>4. /\ cut \in Seq(S) /\ Len(cut) = Len(head) + Len(Dots)
        /\ \A k \in 1..Len(head) : cut[k] = head[k]
        /\ \A k \in Len(head)+1..Len(head)+Len(Dots) : cut[k] = Dots[k - Len(head)]
    BY <2>2, <2>3, ConcatIndices
  <2>5. Len(cut) = MessageLimit /\ DOMAIN cut = 1..MessageLimit
    BY <2>2, <2>3, <2>4, MessageAssumption
  <2> HIDE DEF cut
  <2>6. ASSUME NEW k \in 1..MessageLimit, cut[k] # Mark
        PROVE  ~InSecret(text, cut[k])
    <3>1. CASE k \in 1..(MessageLimit - 3)
      <4>1. cut[k] = red[k] /\ k \in DOMAIN red
        BY <2>2, <2>4, <3>1
      <4> QED
        BY <1>1, <2>6, <4>1
    <3>2. CASE k \in (MessageLimit - 3)+1..MessageLimit
      <4>1. k - Len(head) \in 1..3 /\ cut[k] = Dots[k - Len(head)]
        BY <2>2, <2>3, <2>4, <3>2, MessageAssumption
      <4> QED
        BY <2>3, <2>6, <4>1
    <3> QED
      BY <3>1, <3>2, MessageAssumption
  <2>7. ~(Len(Redact(text)) <= MessageLimit)
    BY <1>1, <1>3, MessageAssumption DEF red
  <2>8. MessageLimit <= MessageLimit
    BY MessageAssumption
  <2> QED
    BY <2>1, <2>5, <2>6, <2>7, <2>8
<1> QED
  BY <1>1, <1>2, <1>3, MessageAssumption
===============================================================================
