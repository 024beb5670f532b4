---------------------------- MODULE ReportProofs ----------------------------
(***************************************************************************)
(* Parsing and normalization for responses of any length, any label tables *)
(* and any RDAP object: what a report claims is what was said, placeholders *)
(* are not repeated, and the confidence is honest.                         *)
(***************************************************************************)
EXTENDS Report, FiniteSetTheorems, WellFoundedInduction, TLAPS

-----------------------------------------------------------------------------
(* Least and greatest elements.                                            *)

LEMMA LeastOf ==
    ASSUME NEW T \in SUBSET Nat, T # {}
    PROVE  \E x \in T : \A y \in T : x <= y
  <1> DEFINE R == OpToRel(<, Nat)
  <1>1. IsWellFoundedOn(R, Nat)
    BY NatLessThanWellFounded
  <1>2. PICK x \in T : \A y \in T : ~(<<y, x>> \in R)
    <2> HIDE DEF R
    <2> QED  BY <1>1, WFMin
  <1>3. ASSUME NEW y \in T
        PROVE  x <= y
    <2>1. ~(<<y, x>> \in R)
      BY <1>2
    <2>2. ~(y < x)
      BY <2>1 DEF OpToRel
    <2> QED  BY <2>2
  <1> QED  BY <1>3

LEMMA GreatestOf ==
    ASSUME NEW n \in Nat, NEW T \in SUBSET (0 .. n), T # {}
    PROVE  Max(T) \in T /\ \A y \in T : y <= Max(T)
  <1> DEFINE U == {k \in Nat : \A y \in T : y <= k}
  <1>1. n \in U
    OBVIOUS
  <1>2. PICK x \in U : \A y \in U : x <= y
    <2> HIDE DEF U
    <2>1. U \in SUBSET Nat
      BY DEF U
    <2> QED  BY <1>1, <2>1, LeastOf
  <1>3. x \in T
    <2> SUFFICES ASSUME x \notin T PROVE FALSE
      OBVIOUS
    <2>1. PICK z \in T : TRUE
      OBVIOUS
    <2>2. x \in Nat /\ \A y \in T : y \in Nat /\ y <= x /\ y # x
      BY <1>2
    <2>3. x # 0 /\ x - 1 \in Nat
      BY <2>1, <2>2
    <2>4. \A y \in T : y <= x - 1
      BY <2>2
    <2>5. x - 1 \in U
      BY <2>3, <2>4
    <2> QED  BY <1>2, <2>2, <2>5
  <1>4. \E z \in T : \A y \in T : z >= y
    BY <1>2, <1>3
  <1>5. Max(T) \in T /\ \A y \in T : Max(T) >= y
    BY <1>4 DEF Max
  <1> QED  BY <1>5

LEMMA MinOfTwo ==
    ASSUME NEW a \in Int, NEW b \in Int
    PROVE  Min({a, b}) = IF a <= b THEN a ELSE b
  <1>1. \E x \in {a, b} : \A y \in {a, b} : x =< y
    OBVIOUS
  <1>2. /\ Min({a, b}) \in {a, b}
        /\ \A y \in {a, b} : Min({a, b}) =< y
    BY <1>1 DEF Min
  <1> QED  BY <1>2

LEMMA MaxOfTwo ==
    ASSUME NEW a \in Int, NEW b \in Int
    PROVE  Max({a, b}) = IF a >= b THEN a ELSE b
  <1>1. \E x \in {a, b} : \A y \in {a, b} : x >= y
    OBVIOUS
  <1>2. /\ Max({a, b}) \in {a, b}
        /\ \A y \in {a, b} : Max({a, b}) >= y
    BY <1>1 DEF Max
  <1> QED  BY <1>2

-----------------------------------------------------------------------------
(* The score.                                                              *)

LEMMA OneMore ==
    ASSUME NEW S, NEW x, NEW n \in Nat, IsFiniteSet(S), Cardinality(S) <= n
    PROVE  IsFiniteSet(S \cup {x}) /\ Cardinality(S \cup {x}) <= n + 1
  <1>1. Cardinality(S) \in Nat
    BY FS_CardinalityType
  <1>2. /\ IsFiniteSet(S \cup {x})
        /\ Cardinality(S \cup {x}) = IF x \in S THEN Cardinality(S) ELSE Cardinality(S) + 1
    BY FS_AddElement
  <1> QED  BY <1>1, <1>2

LEMMA FoundBounded ==
    /\ Found \in 0 .. 6
    /\ Found = 0 => \A f \in coreFields : parse.fields[f] = <<>>
    /\ Found = 6 => \A f \in coreFields : parse.fields[f] # <<>>
  <1> DEFINE T == {f \in coreFields : parse.fields[f] # <<>>}
             C1 == {} \cup {"domain"}
             C2 == C1 \cup {"registrar"}
             C3 == C2 \cup {"status"}
             C4 == C3 \cup {"nameserver"}
             C5 == C4 \cup {"created"}
             C6 == C5 \cup {"expires"}
  <1>1. IsFiniteSet({}) /\ Cardinality({}) <= 0
    BY FS_EmptySet
  <1>2. IsFiniteSet(C1) /\ Cardinality(C1) <= 1
    BY <1>1, OneMore, 0 + 1 = 1
  <1>3. IsFiniteSet(C2) /\ Cardinality(C2) <= 2
    <2> HIDE DEF C1
    <2> QED  BY <1>2, OneMore, 1 + 1 = 2
  <1>4. IsFiniteSet(C3) /\ Cardinality(C3) <= 3
    <2> HIDE DEF C2
    <2> QED  BY <1>3, OneMore, 2 + 1 = 3
  <1>5. IsFiniteSet(C4) /\ Cardinality(C4) <= 4
    <2> HIDE DEF C3
    <2> QED  BY <1>4, OneMore, 3 + 1 = 4
  <1>6. IsFiniteSet(C5) /\ Cardinality(C5) <= 5
    <2> HIDE DEF C4
    <2> QED  BY <1>5, OneMore, 4 + 1 = 5
  <1>7. IsFiniteSet(C6) /\ Cardinality(C6) <= 6
    <2> HIDE DEF C5
    <2> QED  BY <1>6, OneMore, 5 + 1 = 6
  <1>8. IsFiniteSet(coreFields) /\ Cardinality(coreFields) \in 0 .. 6
    <2>1. coreFields = C6
      BY DEF coreFields
    <2> HIDE DEF C6
    <2> QED  BY <1>7, <2>1, FS_CardinalityType
  <1>9. T \subseteq coreFields
    OBVIOUS
  <1>10. /\ IsFiniteSet(T) /\ Cardinality(T) \in Nat /\ Cardinality(T) <= Cardinality(coreFields)
         /\ Cardinality(T) = Cardinality(coreFields) => T = coreFields
    <2> HIDE DEF T
    <2> QED  BY <1>8, <1>9, FS_Subset, FS_CardinalityType
  <1>11. Cardinality(T) = 0 => T = {}
    <2> HIDE DEF T
    <2> QED  BY <1>10, FS_EmptySet
  <1>12. Cardinality(T) = 6 => T = coreFields
    BY <1>8, <1>10
  <1>13. Found = Cardinality(T)
    BY DEF Found
  <1> QED  BY <1>8, <1>10, <1>11, <1>12, <1>13

\* What score adds up, before rounding.
Exact(found, hasTpl, p) == (IF hasTpl THEN 90 * found + 60 ELSE 85 * found) - 6 * p

Bounded(b) == IF b <= 30 THEN 30 ELSE IF b >= 600 THEN 600 ELSE b

LEMMA ScoreIs ==
    ASSUME NEW found \in 1 .. 6, NEW hasTpl \in BOOLEAN, NEW unknown \in Nat,
           NEW h \in score(found, hasTpl, unknown)
    PROVE  \E p \in 0 .. 15 :
               /\ p = Min({unknown, 15})
               /\ h \in 0 .. 100
               /\ 6 * h - 3 <= Bounded(Exact(found, hasTpl, p))
               /\ Bounded(Exact(found, hasTpl, p)) <= 6 * h + 3
  <1>1. PICK p : p = Min({unknown, 15})
    OBVIOUS
  <1>2. p \in 0 .. 15
    BY <1>1, MinOfTwo
  <1>3. PICK x \in Int : x = Exact(found, hasTpl, p)
    BY <1>2 DEF Exact
  <1>4. PICK y \in Int : y = Max({30, x})
    BY <1>3, MaxOfTwo
  <1>5. Min({600, y}) = Bounded(x)
    BY <1>3, <1>4, MaxOfTwo, MinOfTwo DEF Bounded
  <1>6. score(found, hasTpl, unknown) =
            {g \in 0 .. 100 : 6 * g - 3 <= Min({600, y}) /\ Min({600, y}) <= 6 * g + 3}
    BY <1>1, <1>3, <1>4 DEF score, Exact
  <1> QED  BY <1>1, <1>2, <1>3, <1>5, <1>6

HonestScore(found, hasTpl, unknown, h) ==
    /\ h = 100 => hasTpl /\ unknown = 0 /\ found = 6
    /\ \A g \in score(found, TRUE, unknown) : ~hasTpl => h <= g
    /\ \A n \in 0 .. found - 1 : \A g \in score(n, hasTpl, unknown) : g <= h
    /\ h = 0 => found = 0

LEMMA ScoreHonest ==
    ASSUME NEW found \in 0 .. 6, NEW hasTpl \in BOOLEAN, NEW unknown \in Nat,
           NEW h \in score(found, hasTpl, unknown)
    PROVE  HonestScore(found, hasTpl, unknown, h)
  <1>1. CASE found = 0
    BY <1>1 DEF score, HonestScore
  <1>2. CASE found # 0
    <2>1. found \in 1 .. 6
      BY <1>2
    <2>2. PICK p \in 0 .. 15 :
               /\ p = Min({unknown, 15})
               /\ h \in 0 .. 100
               /\ 6 * h - 3 <= Bounded(Exact(found, hasTpl, p))
               /\ Bounded(Exact(found, hasTpl, p)) <= 6 * h + 3
      BY <2>1, ScoreIs
    <2>3. h # 0
      BY <2>1, <2>2 DEF Bounded, Exact
    <2>4. ASSUME h = 100
          PROVE  hasTpl /\ unknown = 0 /\ found = 6
      <3>1. hasTpl /\ p = 0 /\ found = 6
        BY <2>1, <2>2, <2>4 DEF Bounded, Exact
      <3>2. Min({unknown, 15}) = IF unknown <= 15 THEN unknown ELSE 15
        BY MinOfTwo
      <3>3. unknown = 0
        BY <2>2, <3>1, <3>2
      <3> QED  BY <3>1, <3>3
    <2>5. ASSUME ~hasTpl, NEW g \in score(found, TRUE, unknown)
          PROVE  h <= g
      <3>1. /\ g \in 0 .. 100
            /\ Bounded(Exact(found, TRUE, p)) <= 6 * g + 3
        BY <2>1, <2>2, ScoreIs
      <3> QED  BY <2>1, <2>2, <2>5, <3>1 DEF Bounded, Exact
    <2>6. ASSUME NEW n \in 0 .. found - 1, NEW g \in score(n, hasTpl, unknown)
          PROVE  g <= h
      <3>1. CASE n = 0
        BY <2>2, <2>6, <3>1 DEF score
      <3>2. CASE n # 0
        <4>1. n \in 1 .. 6 /\ n + 1 <= found
          BY <2>1, <2>6, <3>2
        <4>2. /\ g \in 0 .. 100
              /\ 6 * g - 3 <= Bounded(Exact(n, hasTpl, p))
          BY <2>2, <4>1, ScoreIs
        <4> QED  BY <2>1, <2>2, <4>1, <4>2 DEF Bounded, Exact
      <3> QED  BY <3>1, <3>2
    <2> QED  BY <2>3, <2>4, <2>5, <2>6 DEF HonestScore
  <1> QED  BY <1>1, <1>2

-----------------------------------------------------------------------------
(* A report is made once, and of everything that was read.                 *)

WhoisClean(cs) == \A c \in cs : \A v \in Named(c) : ~Marked(v)

RdapClean(cs) ==
    \A c \in cs : /\ \A v \in Named(c) : ~Withheld(v)
                  /\ c.redacted => Named(c) \cup {c.phone} = {NoValue}

\* What is true of the contacts of a report whatever it was made of.
Sound ==
    /\ report.protocol = "whois" => WhoisClean(report.contacts)
    /\ report.protocol = "rdap" => RdapClean(report.contacts)

ReportMade ==
    \/ report.protocol \in {"none", "rdap"}
    \/ /\ ~Reading
       /\ \E h \in score(Found, templated, Cardinality(parse.unknown)) : report = whoisReport(h)

ReportInv ==
    /\ templated \in BOOLEAN
    /\ IsFiniteSet(parse.unknown)
    /\ object \in Objects \cup {NoObject}
    /\ ReportMade
    /\ Sound

LEMMA ReportInvInit == ReportInit => ReportInv
  <1> SUFFICES ASSUME ReportInit PROVE ReportInv
    OBVIOUS
  <1>1. parse.unknown = {} /\ templated \in BOOLEAN
    BY DEF ReportInit, ParseInit
  <1>2. ReportMade /\ Sound
    BY DEF ReportInit, NoReport, ReportMade, Sound
  <1> QED  BY <1>1, <1>2, FS_EmptySet DEF ReportInit, ReportInv

LEMMA UnknownFinite ==
    ASSUME IsFiniteSet(parse.unknown), ParseNext
    PROVE  IsFiniteSet(parse'.unknown)
  <1>1. parse'.unknown \in {parse.unknown, parse.unknown \cup {parse.at}}
    BY DEF ParseNext, SkipLine, UnknownLabel, ReadBlock, ReadField, Read
  <1> QED  BY <1>1, FS_AddElement

\* No contact names a marker of its own protocol's list.
LEMMA WhoisContactsClean == WhoisClean(contacts)
  <1>1. ~Marked(NoValue)
    BY ParseConstants DEF Marked, NoValue
  <1>2. ASSUME NEW n, NEW o, NEW e, NEW p
        PROVE  /\ ~Marked(contact(n, o, e, p).name)
               /\ ~Marked(contact(n, o, e, p).org)
               /\ ~Marked(contact(n, o, e, p).email)
    BY <1>1 DEF contact
  <1>3. \A c \in contacts : \E n, o, e, p : c = contact(n, o, e, p)
    BY DEF contacts
  <1> QED  BY <1>2, <1>3 DEF WhoisClean, Named

LEMMA RdapContactsClean == RdapClean(rdapReport.contacts)
  <1>1. ~Withheld(NoValue)
    BY ReportConstants DEF Withheld, NoValue
  <1>2. ASSUME NEW e
        PROVE  /\ \A v \in Named(entity(e)) : ~Withheld(v)
               /\ entity(e).redacted => Named(entity(e)) \cup {entity(e).phone} = {NoValue}
    <2>1. CASE detectRedaction(e)
      BY <1>1, <2>1 DEF entity, Named
    <2>2. CASE ~detectRedaction(e)
      BY <2>2 DEF entity, Named, detectRedaction
    <2> QED  BY <2>1, <2>2
  <1>3. \A c \in rdapReport.contacts : \E e : c = entity(e)
    BY DEF rdapReport
  <1> QED  BY <1>2, <1>3 DEF RdapClean

LEMMA ReportInvStep == ReportInv /\ [ReportNext]_reportVars => ReportInv'
  <1> SUFFICES ASSUME ReportInv, [ReportNext]_reportVars PROVE ReportInv'
    OBVIOUS
  <1>1. CASE UNCHANGED reportVars
    <2>1. UNCHANGED <<lines, templated, parse, object, report>>
      BY <1>1 DEF reportVars, parseVars
    <2>2. ASSUME NEW h
          PROVE  whoisReport(h)' = whoisReport(h)
      BY <2>1 DEF whoisReport, first, contacts, date, normalizeNameservers
    <2>3. Found' = Found /\ Reading' = Reading
      BY <2>1 DEF Found, Reading
    <2>4. ReportMade'
      BY <2>1, <2>2, <2>3 DEF ReportInv, ReportMade
    <2> QED  BY <2>1, <2>4 DEF ReportInv, Sound
  <1>2. CASE ParseNext /\ UNCHANGED <<object, report>>
    <2>1. Reading /\ UNCHANGED <<lines, templated>>
      BY <1>2 DEF ParseNext, SkipLine, UnknownLabel, ReadBlock, ReadField, Read
    <2>2. report.protocol \in {"none", "rdap"}
      BY <2>1 DEF ReportInv, ReportMade
    <2>3. ReportMade' /\ Sound'
      BY <1>2, <2>2 DEF ReportInv, ReportMade, Sound
    <2> QED  BY <1>2, <2>1, <2>3, UnknownFinite DEF ReportInv
  <1>3. CASE FromWHOIS
    <2>1. UNCHANGED <<lines, templated, parse, object>> /\ ~Reading
      BY <1>3 DEF FromWHOIS, parseVars
    <2>2. PICK h \in score(Found, templated, Cardinality(parse.unknown)) : report' = whoisReport(h)
      BY <1>3 DEF FromWHOIS
    <2>3. h \in score(Found', templated', Cardinality(parse'.unknown))
      BY <2>1, <2>2 DEF Found
    <2>4. whoisReport(h)' = whoisReport(h)
      BY <2>1 DEF whoisReport, first, contacts, date, normalizeNameservers
    <2>5. ReportMade'
      BY <2>1, <2>2, <2>3, <2>4 DEF ReportMade, Reading
    <2>6. report'.contacts = contacts /\ report'.protocol = "whois"
      BY <2>2 DEF whoisReport
    <2>7. Sound'
      BY <2>6, WhoisContactsClean DEF Sound, WhoisClean, Named, Marked
    <2> QED  BY <2>1, <2>5, <2>7 DEF ReportInv
  <1>4. CASE FromRDAP
    <2>1. UNCHANGED <<lines, templated, parse, object>> /\ report' = rdapReport
      BY <1>4 DEF FromRDAP, parseVars
    <2>2. ReportMade'
      BY <2>1 DEF ReportMade, rdapReport
    <2>3. report'.protocol = "rdap"
      BY <2>1 DEF rdapReport
    <2>4. Sound'
      BY <2>1, <2>3, RdapContactsClean DEF Sound, RdapClean, Named, Withheld
    <2> QED  BY <2>1, <2>2, <2>4 DEF ReportInv
  <1> QED  BY <1>1, <1>2, <1>3, <1>4 DEF ReportNext, Handed

(* The report is made once and never changed: a WHOIS report after Parse   *)
(* read its last line, with a confidence score may give, and either one    *)
(* without a marker of its protocol's list in a contact.                   *)
THEOREM ReportInvariant == ReportSpec => []ReportInv
  BY ReportInvInit, ReportInvStep, PTL DEF ReportSpec

(* For any label tables, any two lists of markers, any responses and RDAP  *)
(* objects: no contact names a marker of its own protocol's list as name,  *)
(* organisation or address, a WHOIS report whose registrant held one says  *)
(* it was redacted, and a redacted RDAP contact keeps no detail (contact,  *)
(* entityFromRDAP).                                                        *)
THEOREM MarkersStayOut == ReportSpec => []MarkersNeverReported
  <1>1. ReportInv => MarkersNeverReported
    <2> SUFFICES ASSUME ReportInv PROVE MarkersNeverReported
      OBVIOUS
    <2>1. Sound
      BY DEF ReportInv
    <2>2. ASSUME report.protocol = "whois",
                 NEW f \in {"registrant_name", "registrant_org", "registrant_email"},
                 Marked(first(f))
          PROVE  \E c \in report.contacts : c.redacted
      <3>1. PICK h : report = whoisReport(h)
        BY <2>2 DEF ReportInv, ReportMade
      <3>2. report.contacts = contacts
        BY <3>1 DEF whoisReport
      <3>3. first(f) # NoValue
        <4>1. NoValue.word \notin WhoisMarkers
          BY ParseConstants DEF NoValue
        <4>2. first(f).word \in WhoisMarkers
          BY <2>2 DEF Marked
        <4> QED  BY <4>1, <4>2
      <3> DEFINE c == contact(first("registrant_name"), first("registrant_org"),
                              first("registrant_email"), first("registrant_phone"))
      <3>4. c \in contacts
        BY <2>2, <3>3 DEF contacts
      <3>5. c.redacted
        BY <2>2 DEF contact
      <3> QED  BY <3>2, <3>4, <3>5
    <2> QED  BY <2>1, <2>2 DEF MarkersNeverReported, Sound, WhoisClean, RdapClean
  <1> QED  BY <1>1, ReportInvariant, PTL

(* For any response: only a templated parse of every core field with no    *)
(* unknown label claims certainty, a heuristic parse never claims more     *)
(* than a templated one, fewer core fields never score higher and one is   *)
(* told from none, whatever the penalty takes (score).                     *)
THEOREM ConfidenceAlwaysHonest == ReportSpec => []ConfidenceHonest
  <1>1. ReportInv => ConfidenceHonest
    <2> SUFFICES ASSUME ReportInv, report.protocol = "whois" PROVE ConfidenceHonest
      BY DEF ConfidenceHonest
    <2>1. PICK h \in score(Found, templated, Cardinality(parse.unknown)) : report = whoisReport(h)
      BY DEF ReportInv, ReportMade
    <2>2. PICK n, u : n = Found /\ u = Cardinality(parse.unknown)
      OBVIOUS
    <2>3. n \in 0 .. 6 /\ u \in Nat /\ templated \in BOOLEAN
      BY <2>2, FoundBounded, FS_CardinalityType DEF ReportInv
    <2>4. h \in score(n, templated, u)
      BY <2>1, <2>2
    <2>5. /\ h = 100 => templated /\ u = 0 /\ n = 6
          /\ \A g \in score(n, TRUE, u) : ~templated => h <= g
          /\ \A k \in 0 .. n - 1 : \A g \in score(k, templated, u) : g <= h
          /\ h = 0 => n = 0
      <3>1. HonestScore(n, templated, u, h)
        BY <2>3, <2>4, ScoreHonest
      <3> QED  BY <3>1 DEF HonestScore
    <2>6. report.confidence = h
      BY <2>1 DEF whoisReport
    <2> QED  BY <2>2, <2>5, <2>6, FoundBounded DEF ConfidenceHonest
  <1> QED  BY <1>1, ReportInvariant, PTL

-----------------------------------------------------------------------------
(* The loop of Parse over a response L, with a template or not (t).  The   *)
(* loop at line i has recorded what the lines before i state, and no block *)
(* begun before i reaches it.                                              *)

LabelsIn(L, t, j, f) == IsField(L[j]) /\ canonical(L[j].label, t) = f

Bare(L, t, j, f) == LabelsIn(L, t, j, f) /\ L[j].value = NoValue

InBlock(L, j, m) == m - j <= MaxBlock /\ \A k \in j + 1 .. m : Continues(L[k])

Stating(L, t, f) ==
    {m \in DOMAIN L :
        \/ LabelsIn(L, t, m, f) /\ L[m].value # NoValue
        \/ \E j \in 1 .. m - 1 : Bare(L, t, j, f) /\ InBlock(L, j, m)}

Said(L, t, f, i) == {m \in Stating(L, t, f) : L[m].value # NoValue /\ m < i}

WordsOf(L, S) == {L[m].value.word : m \in S}

\* values is what the lines S say of the field f.
Says(L, f, values, S) ==
    IF f \in multiValued
    THEN /\ values \in Seq({L[m].value : m \in DOMAIN L})
         /\ {v.word : v \in ToSet(values)} = WordsOf(L, S)
         /\ IsFiniteSet(WordsOf(L, S))
         /\ Len(values) = Cardinality(WordsOf(L, S))
    ELSE \/ S = {} /\ values = <<>>
         \/ \E w \in S : values = <<L[w].value>> /\ \A y \in S : w <= y

Recorded(L, t, fs, i) ==
    /\ fs = [f \in Field |-> fs[f]]
    /\ \A f \in Field : Says(L, f, fs[f], Said(L, t, f, i))

Untouched(L, t, i) ==
    i <= Len(L) => \A j \in 1 .. i - 1, f \in Field : ~(Bare(L, t, j, f) /\ InBlock(L, j, i))

Clear(L) == \A m \in DOMAIN L : ~(IsField(L[m]) /\ Continues(L[m]))

LoopOK(L, t, p) ==
    /\ p.at \in 1 .. Len(L) + 1
    /\ Clear(L) => Recorded(L, t, p.fields, p.at) /\ Untouched(L, t, p.at)

Lines(L) == Len(L) \in Nat /\ DOMAIN L = 1 .. Len(L)

LEMMA SaidNext ==
    ASSUME NEW L, Lines(L), NEW t, NEW f, NEW i \in DOMAIN L
    PROVE  /\ i \in Stating(L, t, f) /\ L[i].value # NoValue
                  => Said(L, t, f, i + 1) = Said(L, t, f, i) \cup {i}
           /\ ~(i \in Stating(L, t, f) /\ L[i].value # NoValue)
                  => Said(L, t, f, i + 1) = Said(L, t, f, i)
  <1>1. Stating(L, t, f) \subseteq DOMAIN L /\ DOMAIN L \subseteq Nat
    BY DEF Stating, Lines
  <1>2. \A m \in DOMAIN L : m < i + 1 <=> m < i \/ m = i
    BY <1>1
  <1> QED  BY <1>1, <1>2 DEF Said

LEMMA SaidBefore ==
    ASSUME NEW L, Lines(L), NEW t, NEW f, NEW i
    PROVE  Said(L, t, f, i) \subseteq DOMAIN L /\ \A m \in Said(L, t, f, i) : m < i
  BY DEF Said, Stating

\* appendUnique adds a word exactly when it is new.
LEMMA UniqueAdded ==
    ASSUME NEW V, NEW s \in Seq(V), NEW v \in V, NEW W, {x.word : x \in ToSet(s)} = W,
           IsFiniteSet(W), Len(s) = Cardinality(W)
    PROVE  /\ appendUnique(s, v) \in Seq(V)
           /\ {x.word : x \in ToSet(appendUnique(s, v))} = W \cup {v.word}
           /\ IsFiniteSet(W \cup {v.word})
           /\ Len(appendUnique(s, v)) = Cardinality(W \cup {v.word})
  <1>1. /\ IsFiniteSet(W \cup {v.word})
        /\ Cardinality(W \cup {v.word}) =
               IF v.word \in W THEN Cardinality(W) ELSE Cardinality(W) + 1
    BY FS_AddElement
  <1>2. v.word \in W <=> \E i \in DOMAIN s : EqualFold(s[i], v)
    BY DEF ToSet, EqualFold
  <1>3. CASE v.word \in W
    <2>1. appendUnique(s, v) = s
      BY <1>2, <1>3 DEF appendUnique
    <2>2. W \cup {v.word} = W
      BY <1>3
    <2> QED  BY <1>1, <2>1, <2>2
  <1>4. CASE v.word \notin W
    <2>1. appendUnique(s, v) = Append(s, v)
      BY <1>2, <1>4 DEF appendUnique
    <2>2. Append(s, v) \in Seq(V) /\ Len(Append(s, v)) = Len(s) + 1
      OBVIOUS
    <2>3. ToSet(Append(s, v)) = ToSet(s) \cup {v}
      <3>1. PICK n \in Nat : n = Len(s)
        OBVIOUS
      <3>2. DOMAIN s = 1 .. n /\ DOMAIN Append(s, v) = 1 .. n + 1
        BY <2>2, <3>1
      <3>3. Append(s, v)[n + 1] = v /\ \A i \in 1 .. n : Append(s, v)[i] = s[i]
        BY <3>1
      <3>4. 1 .. n + 1 = (1 .. n) \cup {n + 1}
        BY <3>1
      <3> QED  BY <3>2, <3>3, <3>4 DEF ToSet
    <2>4. {x.word : x \in ToSet(Append(s, v))} = W \cup {v.word}
      BY <2>3
    <2> QED  BY <1>1, <1>4, <2>1, <2>2, <2>4
  <1> QED  BY <1>3, <1>4

\* record at a line that states the field adds just what the line says.
LEMMA SaysMore ==
    ASSUME NEW L, Lines(L), NEW f, NEW values, NEW S \in SUBSET DOMAIN L, NEW m \in DOMAIN L,
           \A y \in S : y < m, Says(L, f, values, S)
    PROVE  Says(L, f, IF f \in multiValued THEN appendUnique(values, L[m].value)
                      ELSE IF values = <<>> THEN <<L[m].value>> ELSE values, S \cup {m})
  <1>1. CASE f \in multiValued
    <2>1. WordsOf(L, S \cup {m}) = WordsOf(L, S) \cup {L[m].value.word}
      BY DEF WordsOf
    <2>2. PICK V, v, W : V = {L[k].value : k \in DOMAIN L} /\ v = L[m].value /\ W = WordsOf(L, S)
      OBVIOUS
    <2>3. v \in V /\ values \in Seq(V) /\ {x.word : x \in ToSet(values)} = W
      BY <1>1, <2>2 DEF Says
    <2>4. IsFiniteSet(W) /\ Len(values) = Cardinality(W)
      BY <1>1, <2>2 DEF Says
    <2>5. /\ appendUnique(values, v) \in Seq(V)
          /\ {x.word : x \in ToSet(appendUnique(values, v))} = W \cup {v.word}
          /\ IsFiniteSet(W \cup {v.word})
          /\ Len(appendUnique(values, v)) = Cardinality(W \cup {v.word})
      BY <2>3, <2>4, UniqueAdded
    <2> QED  BY <1>1, <2>1, <2>2, <2>5 DEF Says
  <1>2. CASE f \notin multiValued /\ S = {}
    <2>1. values = <<>>
      BY <1>2 DEF Says
    <2>2. m \in S \cup {m} /\ \A y \in S \cup {m} : m <= y
      BY <1>2 DEF Lines
    <2> QED  BY <1>2, <2>1, <2>2 DEF Says
  <1>3. CASE f \notin multiValued /\ S # {}
    <2>1. PICK w \in S : values = <<L[w].value>> /\ \A y \in S : w <= y
      BY <1>3 DEF Says
    <2>2. values # <<>>
      BY <2>1
    <2>3. w \in Nat /\ m \in Nat /\ w < m
      BY DEF Lines
    <2>4. \A y \in S \cup {m} : w <= y
      BY <2>1, <2>3
    <2> QED  BY <1>3, <2>1, <2>2, <2>4 DEF Says
  <1> QED  BY <1>1, <1>2, <1>3

\* A line that states nothing new leaves the record right for the next line.
LEMMA RecordedSkip ==
    ASSUME NEW L, Lines(L), NEW t, NEW i \in DOMAIN L, NEW fs, Recorded(L, t, fs, i),
           \A f \in Field : ~(i \in Stating(L, t, f) /\ L[i].value # NoValue)
    PROVE  Recorded(L, t, fs, i + 1)
  <1>1. \A f \in Field : Said(L, t, f, i + 1) = Said(L, t, f, i)
    BY SaidNext
  <1> QED  BY <1>1 DEF Recorded

LEMMA RecordedLine ==
    ASSUME NEW L, Lines(L), NEW t, NEW i \in DOMAIN L, NEW fs, Recorded(L, t, fs, i),
           NEW key \in Field, \A f \in Field : i \in Stating(L, t, f) <=> f = key
    PROVE  Recorded(L, t, record(fs, key, L[i].value), i + 1)
  <1>1. CASE L[i].value = NoValue
    BY <1>1, RecordedSkip DEF record
  <1>2. CASE L[i].value # NoValue
    <2> DEFINE new == IF key \in multiValued THEN appendUnique(fs[key], L[i].value)
                      ELSE IF fs[key] = <<>> THEN <<L[i].value>> ELSE fs[key]
    <2>1. record(fs, key, L[i].value) = [fs EXCEPT ![key] = new]
      BY <1>2 DEF record
    <2>2. PICK h : h = record(fs, key, L[i].value)
      OBVIOUS
    <2>3. h = [f \in Field |-> IF f = key THEN new ELSE fs[f]]
      <3> HIDE DEF new
      <3> QED  BY <2>1, <2>2 DEF Recorded
    <2>4. ASSUME NEW f \in Field
          PROVE  Says(L, f, h[f], Said(L, t, f, i + 1))
      <3>1. Says(L, f, fs[f], Said(L, t, f, i))
        BY DEF Recorded
      <3>2. CASE f # key
        <4>1. Said(L, t, f, i + 1) = Said(L, t, f, i)
          BY <3>2, SaidNext
        <4>2. h[f] = fs[f]
          BY <2>3, <3>2
        <4> QED  BY <3>1, <4>1, <4>2
      <3>3. CASE f = key
        <4>1. Said(L, t, f, i + 1) = Said(L, t, f, i) \cup {i}
          BY <1>2, <3>3, SaidNext
        <4>2. h[f] = new
          BY <2>3, <3>3
        <4>3. PICK S, w : S = Said(L, t, f, i) /\ w = fs[f]
          OBVIOUS
        <4>4. S \in SUBSET DOMAIN L /\ \A y \in S : y < i
          BY <4>3, SaidBefore
        <4>5. Says(L, f, IF f \in multiValued THEN appendUnique(w, L[i].value)
                         ELSE IF w = <<>> THEN <<L[i].value>> ELSE w, S \cup {i})
          BY <3>1, <4>3, <4>4, SaysMore
        <4>6. new = IF f \in multiValued THEN appendUnique(w, L[i].value)
                    ELSE IF w = <<>> THEN <<L[i].value>> ELSE w
          BY <3>3, <4>3
        <4> HIDE DEF new
        <4> QED  BY <4>1, <4>2, <4>3, <4>5, <4>6
      <3> QED  BY <3>2, <3>3
    <2>5. h = [f \in Field |-> h[f]]
      <3> HIDE DEF new
      <3> QED  BY <2>3
    <2> QED  BY <2>2, <2>4, <2>5 DEF Recorded
  <1> QED  BY <1>1, <1>2

-----------------------------------------------------------------------------
(* The loop at an untouched line.                                          *)

LEMMA BlockShorter ==
    ASSUME NEW L, NEW j \in Nat, NEW i \in Nat, NEW m \in Nat, j <= i, i <= m, InBlock(L, j, m)
    PROVE  InBlock(L, j, i)
  <1>1. MaxBlock \in Nat
    BY ParseConstants
  <1>2. i - j <= MaxBlock
    BY <1>1 DEF InBlock
  <1>3. \A k \in j + 1 .. i : k \in j + 1 .. m
    OBVIOUS
  <1> QED  BY <1>2, <1>3 DEF InBlock

\* Only its own label can make an untouched line state anything.
LEMMA StatingAlone ==
    ASSUME NEW L, Lines(L), NEW t, NEW i \in DOMAIN L, Untouched(L, t, i), NEW f \in Field
    PROVE  i \in Stating(L, t, f) <=> LabelsIn(L, t, i, f) /\ L[i].value # NoValue
  <1>1. i <= Len(L)
    BY DEF Lines
  <1>2. \A j \in 1 .. i - 1 : ~(Bare(L, t, j, f) /\ InBlock(L, j, i))
    BY <1>1 DEF Untouched
  <1> QED  BY <1>2 DEF Stating

LEMMA UntouchedNext ==
    ASSUME NEW L, Lines(L), NEW t, NEW i \in DOMAIN L, Untouched(L, t, i),
           \A f \in Field : ~Bare(L, t, i, f)
    PROVE  Untouched(L, t, i + 1)
  <1> SUFFICES ASSUME i + 1 <= Len(L), NEW j \in 1 .. (i + 1) - 1, NEW f \in Field,
                      Bare(L, t, j, f), InBlock(L, j, i + 1)
               PROVE  FALSE
    BY DEF Untouched
  <1>1. i \in Nat /\ i <= Len(L) /\ j \in Nat
    BY DEF Lines
  <1>2. CASE j = i
    BY <1>2
  <1>3. CASE j # i
    <2>1. j \in 1 .. i - 1
      BY <1>1, <1>3
    <2>2. InBlock(L, j, i)
      BY <1>1, <2>1, BlockShorter
    <2> QED  BY <1>1, <2>1, <2>2 DEF Untouched
  <1> QED  BY <1>2, <1>3

-----------------------------------------------------------------------------
(* A block: the recursive function of ReadBlock, by the number of lines.   *)

IsLoop(g, fs, key, L, i, n) ==
    g = [k \in 0 .. n |-> IF k = 0 THEN fs ELSE record(g[k - 1], key, L[i + k].value)]

LEMMA LoopExists ==
    ASSUME NEW fs, NEW key, NEW L, NEW i, NEW n \in Nat
    PROVE  \E g : IsLoop(g, fs, key, L, i, n)
  <1> DEFINE T == {k \in Nat : ~\E g : IsLoop(g, fs, key, L, i, k)}
  <1> SUFFICES ASSUME T # {} PROVE FALSE
    OBVIOUS
  <1>1. PICK k \in T : \A y \in T : k <= y
    <2>1. T \in SUBSET Nat
      OBVIOUS
    <2> HIDE DEF T
    <2> QED  BY <2>1, LeastOf
  <1>2. k # 0
    <2>1. PICK g : g = [x \in 0 .. 0 |-> fs]
      OBVIOUS
    <2>2. 0 .. 0 = {0}
      OBVIOUS
    <2>3. IsLoop(g, fs, key, L, i, 0)
      BY <2>1, <2>2 DEF IsLoop
    <2> QED  BY <2>3
  <1>3. PICK l \in Nat : l = k - 1
    BY <1>2
  <1>4. l \notin T
    BY <1>1, <1>3
  <1>5. PICK g : IsLoop(g, fs, key, L, i, l)
    BY <1>4
  <1>6. PICK h : h = [x \in 0 .. k |-> IF x = k THEN record(g[l], key, L[i + k].value) ELSE g[x]]
    OBVIOUS
  <1>7. ASSUME NEW x \in 0 .. k
        PROVE  h[x] = IF x = 0 THEN fs ELSE record(h[x - 1], key, L[i + x].value)
    <2>1. CASE x = k
      <3>1. h[x] = record(g[l], key, L[i + x].value)
        BY <1>6, <2>1
      <3>2. x - 1 = l /\ l \in 0 .. k /\ l # k /\ x # 0
        BY <1>2, <1>3, <2>1
      <3>3. h[x - 1] = g[l]
        BY <1>6, <3>2
      <3> QED  BY <3>1, <3>2, <3>3
    <2>2. CASE x # k
      <3>1. h[x] = g[x] /\ x \in 0 .. l
        BY <1>3, <1>6, <2>2
      <3>2. g[x] = IF x = 0 THEN fs ELSE record(g[x - 1], key, L[i + x].value)
        BY <1>5, <3>1 DEF IsLoop
      <3>3. CASE x = 0
        BY <3>1, <3>2, <3>3
      <3>4. CASE x # 0
        <4>1. x - 1 \in 0 .. k /\ x - 1 # k
          BY <1>3, <3>1, <3>4
        <4>2. h[x - 1] = g[x - 1]
          BY <1>6, <4>1
        <4> QED  BY <3>1, <3>2, <3>4, <4>2
      <3> QED  BY <3>3, <3>4
    <2> QED  BY <2>1, <2>2
  <1>8. IsLoop(h, fs, key, L, i, k)
    <2>1. h = [x \in 0 .. k |-> h[x]]
      BY <1>6
    <2> QED  BY <1>7, <2>1 DEF IsLoop
  <1> QED  BY <1>1, <1>8

\* n is what continuationValues consumes below line i.
IsBlock(L, i, n) ==
    /\ n \in 0 .. MaxBlock /\ i + n <= Len(L)
    /\ \A k \in i + 1 .. i + n : Continues(L[k])
    /\ n < MaxBlock /\ i + n < Len(L) => ~Continues(L[i + n + 1])

LEMMA ConsumedIsBlock ==
    ASSUME Lines(lines), NEW i \in DOMAIN lines
    PROVE  IsBlock(lines, i, consumed(i))
  <1> DEFINE T == {n \in 0 .. MaxBlock :
                      i + n <= Len(lines) /\ \A k \in i + 1 .. i + n : Continues(lines[k])}
  <1>1. MaxBlock \in Nat /\ i \in Nat /\ i <= Len(lines) /\ Len(lines) \in Nat
    <2>1. MaxBlock \in Nat
      BY ParseConstants
    <2>2. Len(lines) \in Nat /\ i \in 1 .. Len(lines)
      BY DEF Lines
    <2> QED  BY <2>1, <2>2
  <1>2. 0 \in T
    BY <1>1
  <1>3. consumed(i) = Max(T)
    BY DEF consumed
  <1>4. PICK n : n = Max(T)
    OBVIOUS
  <1>5. n \in T /\ \A y \in T : y <= n
    <2>1. T \in SUBSET (0 .. MaxBlock)
      OBVIOUS
    <2> HIDE DEF T
    <2> QED  BY <1>1, <1>2, <1>4, <2>1, GreatestOf
  <1>6. ASSUME n < MaxBlock, i + n < Len(lines), Continues(lines[i + n + 1])
        PROVE  FALSE
    <2>1. n \in Nat /\ n + 1 \in 0 .. MaxBlock /\ i + (n + 1) <= Len(lines)
      BY <1>1, <1>5, <1>6
    <2>2. ASSUME NEW k \in i + 1 .. i + (n + 1)
          PROVE  Continues(lines[k])
      <3>1. k \in i + 1 .. i + n \/ k = i + n + 1
        <4>1. i \in Nat /\ n \in Nat /\ k \in i + 1 .. i + (n + 1)
          BY <1>1, <2>1, <2>2
        <4> HIDE DEF T
        <4> QED  BY <4>1
      <3> QED  BY <1>5, <1>6, <3>1
    <2>3. n + 1 \in T
      BY <2>1, <2>2
    <2>4. n + 1 <= n
      BY <1>5, <2>3
    <2> QED  BY <2>1, <2>4
  <1> QED  BY <1>3, <1>4, <1>5, <1>6 DEF IsBlock

\* The lines of a block state the field of the bare label above them, and nothing else.
LEMMA InsideBlock ==
    ASSUME NEW L, Lines(L), Clear(L), NEW t, NEW i \in DOMAIN L, Untouched(L, t, i),
           NEW key \in Field, Bare(L, t, i, key), NEW n, IsBlock(L, i, n),
           NEW k \in 1 .. n, NEW f \in Field
    PROVE  i + k \in DOMAIN L /\ (i + k \in Stating(L, t, f) <=> f = key)
  <1>1. /\ i \in Nat /\ i # 0 /\ Len(L) \in Nat /\ DOMAIN L = 1 .. Len(L) /\ i <= Len(L)
        /\ k \in Nat /\ k # 0
    BY DEF Lines
  <1>2. MaxBlock \in Nat
    BY ParseConstants
  <1>3. n \in Nat /\ n <= MaxBlock /\ i + n <= Len(L) /\ k <= n
    BY <1>1, <1>2 DEF IsBlock
  <1>4. \A x \in i + 1 .. i + n : x \in DOMAIN L /\ Continues(L[x]) /\ ~IsField(L[x])
    <2>1. \A x \in i + 1 .. i + n : x \in DOMAIN L
      BY <1>1, <1>3
    <2> QED  BY <2>1 DEF IsBlock, Clear
  <1>5. PICK m : m = i + k
    OBVIOUS
  <1>6. m \in i + 1 .. i + n /\ m \in Nat
    BY <1>1, <1>3, <1>5
  <1>7. ASSUME f = key
        PROVE  m \in Stating(L, t, f)
    <2>1. m - i <= MaxBlock
      BY <1>1, <1>2, <1>3, <1>5
    <2>2. \A x \in i + 1 .. m : x \in i + 1 .. i + n
      BY <1>1, <1>3, <1>6
    <2>3. InBlock(L, i, m)
      BY <1>4, <2>1, <2>2 DEF InBlock
    <2>4. i \in 1 .. m - 1
      BY <1>1, <1>5
    <2> QED  BY <1>4, <1>6, <1>7, <2>3, <2>4 DEF Stating
  <1>8. ASSUME m \in Stating(L, t, f)
        PROVE  f = key
    <2>1. ~LabelsIn(L, t, m, f)
      BY <1>4, <1>6 DEF LabelsIn
    <2>2. PICK j \in 1 .. m - 1 : Bare(L, t, j, f) /\ InBlock(L, j, m)
      BY <1>8, <2>1 DEF Stating
    <2>3. CASE j < i
      <3>1. j \in Nat /\ j <= i /\ i <= m /\ j \in 1 .. i - 1
        BY <1>1, <1>6, <2>2, <2>3
      <3>2. InBlock(L, j, i)
        BY <1>1, <1>6, <2>2, <3>1, BlockShorter
      <3> QED  BY <1>1, <2>2, <3>1, <3>2 DEF Untouched
    <2>4. CASE j = i
      BY <2>2, <2>4 DEF Bare, LabelsIn
    <2>5. CASE j > i
      <3>1. j \in i + 1 .. i + n
        BY <1>1, <1>3, <1>6, <2>2, <2>5
      <3> QED  BY <1>4, <2>2, <3>1 DEF Bare, LabelsIn
    <2>6. j \in Nat
      BY <1>6, <2>2
    <2> QED  BY <1>1, <2>3, <2>4, <2>5, <2>6
  <1> QED  BY <1>4, <1>5, <1>6, <1>7, <1>8

LEMMA BlockRecorded ==
    ASSUME NEW L, Lines(L), Clear(L), NEW t, NEW i \in DOMAIN L, Untouched(L, t, i),
           NEW key \in Field, Bare(L, t, i, key), NEW n, IsBlock(L, i, n),
           NEW fs, Recorded(L, t, fs, i), NEW g, IsLoop(g, fs, key, L, i, n)
    PROVE  Recorded(L, t, g[n], i + n + 1)
  <1> DEFINE T == {k \in 0 .. n : ~Recorded(L, t, g[k], i + k + 1)}
  <1>0. i \in Nat /\ n \in Nat
    <2>1. MaxBlock \in Nat
      BY ParseConstants
    <2>2. i \in 1 .. Len(L) /\ n \in 0 .. MaxBlock
      BY DEF Lines, IsBlock
    <2> QED  BY <2>1, <2>2
  <1>1. ASSUME T # {} PROVE FALSE
    <2>1. PICK k \in T : \A y \in T : k <= y
      <3>1. T \in SUBSET Nat
        OBVIOUS
      <3> HIDE DEF T
      <3> QED  BY <1>1, <3>1, LeastOf
    <2>2. g[0] = fs
      BY <1>0 DEF IsLoop
    <2>3. k # 0
      <3>1. Recorded(L, t, fs, i + 1)
        BY RecordedSkip DEF Bare
      <3> QED  BY <1>0, <2>1, <2>2, <3>1
    <2>4. PICK l \in Nat : k = l + 1 /\ l \in 0 .. n
      <3>1. k \in 0 .. n
        BY <2>1
      <3> QED  BY <1>0, <2>3, <3>1, k - 1 \in Nat, k = (k - 1) + 1
    <2>5. Recorded(L, t, g[l], i + l + 1)
      BY <2>1, <2>4
    <2>6. k \in 1 .. n /\ i + l + 1 = i + k /\ k - 1 = l
      BY <1>0, <2>1, <2>3, <2>4
    <2>7. g[k] = record(g[l], key, L[i + k].value)
      <3>1. k \in 0 .. n /\ k # 0
        BY <2>1, <2>3
      <3>2. g[k] = IF k = 0 THEN fs ELSE record(g[k - 1], key, L[i + k].value)
        <4> HIDE DEF T
        <4> QED  BY <3>1 DEF IsLoop
      <3> QED  BY <2>6, <3>1, <3>2
    <2>8. /\ i + k \in DOMAIN L
          /\ \A f \in Field : i + k \in Stating(L, t, f) <=> f = key
      BY <2>6, InsideBlock
    <2>9. Recorded(L, t, g[k], i + k + 1)
      BY <2>5, <2>6, <2>7, <2>8, RecordedLine
    <2> QED  BY <2>1, <2>9
  <1> QED  BY <1>0, <1>1

LEMMA UntouchedAfter ==
    ASSUME NEW L, Lines(L), Clear(L), NEW t, NEW i \in DOMAIN L, Untouched(L, t, i),
           NEW n, IsBlock(L, i, n)
    PROVE  Untouched(L, t, i + n + 1)
  <1>1. /\ i \in Nat /\ i # 0 /\ Len(L) \in Nat /\ DOMAIN L = 1 .. Len(L) /\ i <= Len(L)
    BY DEF Lines
  <1>2. MaxBlock \in Nat
    BY ParseConstants
  <1>3. n \in Nat /\ n <= MaxBlock /\ i + n <= Len(L)
    BY <1>1, <1>2 DEF IsBlock
  <1>4. PICK m : m = i + n + 1
    OBVIOUS
  <1> SUFFICES ASSUME m <= Len(L), NEW j \in 1 .. m - 1, NEW f \in Field,
                      Bare(L, t, j, f), InBlock(L, j, m)
               PROVE  FALSE
    BY <1>4 DEF Untouched
  <1>5. m \in Nat /\ j \in Nat
    BY <1>1, <1>3, <1>4
  <1>6. CASE j < i
    <2>1. j <= i /\ i <= m /\ j \in 1 .. i - 1
      BY <1>1, <1>3, <1>4, <1>5, <1>6
    <2>2. InBlock(L, j, i)
      BY <1>1, <1>5, <2>1, BlockShorter
    <2> QED  BY <1>1, <2>1, <2>2 DEF Untouched
  <1>7. CASE j = i
    <2>1. n < MaxBlock /\ i + n < Len(L)
      BY <1>1, <1>2, <1>3, <1>4, <1>7 DEF InBlock
    <2>2. ~Continues(L[m])
      BY <1>4, <2>1 DEF IsBlock
    <2>3. m \in j + 1 .. m
      BY <1>5
    <2> QED  BY <2>2, <2>3 DEF InBlock
  <1>8. CASE j > i
    <2>1. j \in i + 1 .. i + n /\ j \in DOMAIN L
      BY <1>1, <1>3, <1>4, <1>5, <1>8
    <2> QED  BY <2>1 DEF IsBlock, Clear, Bare, LabelsIn
  <1> QED  BY <1>1, <1>5, <1>6, <1>7, <1>8

-----------------------------------------------------------------------------
(* Parse: every step of its loop.                                          *)

ParseInv == Lines(lines) /\ LoopOK(lines, templated, parse)

LEMMA ParseInvInit == ReportInit => ParseInv
  <1> SUFFICES ASSUME ReportInit PROVE ParseInv
    OBVIOUS
  <1>1. Lines(lines)
    <2>1. CASE lines \in Responses
      <3>1. lines \in Seq(ToSet(lines))
        BY <2>1, ReportConstants
      <3> QED  BY <3>1 DEF Lines
    <2>2. CASE lines = <<>>
      BY <2>2 DEF Lines
    <2> QED  BY <2>1, <2>2 DEF ReportInit, ParseInit
  <1>2. parse.at = 1 /\ parse.fields = [f \in Field |-> <<>>]
    BY DEF ReportInit, ParseInit
  <1>3. ASSUME NEW f
        PROVE  Said(lines, templated, f, 1) = {}
    <2>1. \A m \in DOMAIN lines : ~(m < 1)
      BY <1>1 DEF Lines
    <2> QED  BY <2>1 DEF Said, Stating
  <1>4. ASSUME NEW f \in Field
        PROVE  Says(lines, f, <<>>, {})
    <2>1. WordsOf(lines, {}) = {} /\ {v.word : v \in ToSet(<<>>)} = {}
      BY DEF WordsOf, ToSet
    <2>2. IsFiniteSet({}) /\ Cardinality({}) = 0 /\ Len(<<>>) = 0
      BY FS_EmptySet
    <2>3. <<>> \in Seq({lines[m].value : m \in DOMAIN lines})
      OBVIOUS
    <2> QED  BY <2>1, <2>2, <2>3 DEF Says
  <1>5. Recorded(lines, templated, parse.fields, 1)
    BY <1>2, <1>3, <1>4 DEF Recorded
  <1>6. Untouched(lines, templated, 1)
    BY DEF Untouched
  <1>7. 1 \in 1 .. Len(lines) + 1
    BY <1>1 DEF Lines
  <1> QED  BY <1>1, <1>2, <1>5, <1>6, <1>7 DEF ParseInv, LoopOK

LEMMA ParseInvStep ==
    ASSUME ParseInv, [ReportNext]_reportVars
    PROVE  ParseInv'
  <1>1. CASE UNCHANGED parseVars
    BY <1>1 DEF parseVars, ParseInv
  <1> SUFFICES ASSUME ParseNext PROVE ParseInv'
    BY <1>1 DEF ReportNext, reportVars, FromWHOIS, FromRDAP, Handed
  <1>2. PICK L, t, i, fs : L = lines /\ t = templated /\ i = parse.at /\ fs = parse.fields
    OBVIOUS
  <1>3. Reading /\ lines' = L /\ templated' = t
    BY <1>2 DEF ParseNext, SkipLine, UnknownLabel, ReadBlock, ReadField, Read
  <1>4. Lines(L) /\ i \in DOMAIN L /\ i \in Nat /\ i <= Len(L) /\ Len(L) \in Nat
    <2>1. Lines(L) /\ i \in 1 .. Len(L) + 1 /\ i <= Len(L)
      BY <1>2, <1>3 DEF ParseInv, LoopOK, Reading
    <2> QED  BY <2>1 DEF Lines
  <1>5. Clear(L) => Recorded(L, t, fs, i) /\ Untouched(L, t, i)
    BY <1>2 DEF ParseInv, LoopOK
  <1>6. Line = L[i] /\ Key = canonical(L[i].label, t)
    BY <1>2 DEF Line, Key
  <1>7. ASSUME NEW new, NEW unknown, parse' = [at |-> i + 1, fields |-> new, unknown |-> unknown],
               Clear(L) => Recorded(L, t, new, i + 1) /\ Untouched(L, t, i + 1)
        PROVE  ParseInv'
    <2>1. i + 1 \in 1 .. Len(L) + 1
      BY <1>4
    <2> QED  BY <1>3, <1>4, <1>7, <2>1 DEF ParseInv, LoopOK
  <1>8. CASE SkipLine \/ UnknownLabel
    <2>1. \A f \in Field : ~LabelsIn(L, t, i, f)
      BY <1>6, <1>8 DEF SkipLine, UnknownLabel, LabelsIn, Field, Dropped, Unknown
    <2>2. ASSUME Clear(L)
          PROVE  Recorded(L, t, fs, i + 1) /\ Untouched(L, t, i + 1)
      <3>1. \A f \in Field : i \notin Stating(L, t, f)
        BY <1>4, <1>5, <2>1, <2>2, StatingAlone
      <3>2. \A f \in Field : ~Bare(L, t, i, f)
        BY <2>1 DEF Bare
      <3> QED  BY <1>4, <1>5, <2>2, <3>1, <3>2, RecordedSkip, UntouchedNext
    <2>3. \E unknown : parse' = [at |-> i + 1, fields |-> fs, unknown |-> unknown]
      BY <1>2, <1>8 DEF SkipLine, UnknownLabel, Read
    <2> QED  BY <1>7, <2>2, <2>3
  <1>9. CASE ReadField
    <2>1. PICK key \in Field : key = Key
      BY <1>9 DEF ReadField
    <2>2. /\ IsField(L[i]) /\ L[i].value # NoValue
          /\ \A f \in Field : LabelsIn(L, t, i, f) <=> f = key
      BY <1>6, <1>9, <2>1 DEF ReadField, LabelsIn
    <2>3. ASSUME Clear(L)
          PROVE  Recorded(L, t, record(fs, key, L[i].value), i + 1) /\ Untouched(L, t, i + 1)
      <3>1. \A f \in Field : i \in Stating(L, t, f) <=> f = key
        BY <1>4, <1>5, <2>2, <2>3, StatingAlone
      <3>2. \A f \in Field : ~Bare(L, t, i, f)
        BY <2>2 DEF Bare
      <3> QED  BY <1>4, <1>5, <2>3, <3>1, <3>2, RecordedLine, UntouchedNext
    <2>4. parse' = [at |-> i + 1, fields |-> record(fs, key, L[i].value), unknown |-> parse.unknown]
      BY <1>2, <1>6, <1>9, <2>1 DEF ReadField, Read
    <2> QED  BY <1>7, <2>3, <2>4
  <1>10. CASE ReadBlock
    <2>1. PICK key \in Field : key = Key
      BY <1>10 DEF ReadBlock
    <2>2. Bare(L, t, i, key)
      BY <1>6, <1>10, <2>1 DEF ReadBlock, Bare, LabelsIn
    <2>3. PICK n : n = consumed(i)
      OBVIOUS
    <2>4. IsBlock(L, i, n)
      BY <1>2, <1>4, <2>3, ConsumedIsBlock
    <2>5. n \in Nat /\ i + n <= Len(L)
      <3>1. MaxBlock \in Nat
        BY ParseConstants
      <3>2. n \in 0 .. MaxBlock /\ i + n <= Len(L)
        BY <2>4 DEF IsBlock
      <3> QED  BY <3>1, <3>2
    <2>6. PICK g : g = CHOOSE h : IsLoop(h, fs, key, L, i, n)
      OBVIOUS
    <2>7. IsLoop(g, fs, key, L, i, n)
      BY <2>5, <2>6, LoopExists
    <2>8. parse' = [at |-> i + (n + 1), fields |-> g[n], unknown |-> parse.unknown]
      BY <1>2, <1>10, <2>1, <2>3, <2>6 DEF ReadBlock, Read, IsLoop
    <2>9. i + (n + 1) = i + n + 1 /\ i + n + 1 \in 1 .. Len(L) + 1
      BY <1>4, <2>5
    <2>10. ASSUME Clear(L)
           PROVE  Recorded(L, t, g[n], i + n + 1) /\ Untouched(L, t, i + n + 1)
      BY <1>4, <1>5, <2>2, <2>4, <2>7, <2>10, BlockRecorded, UntouchedAfter
    <2> QED  BY <1>3, <1>4, <2>8, <2>9, <2>10 DEF ParseInv, LoopOK
  <1> QED  BY <1>8, <1>9, <1>10 DEF ParseNext

LEMMA LeastIsMin ==
    ASSUME NEW T \in SUBSET Nat, NEW w \in T, \A y \in T : w <= y
    PROVE  Min(T) = w
  <1>1. PICK m : m = Min(T)
    OBVIOUS
  <1>2. m \in T /\ \A y \in T : m <= y
    BY <1>1 DEF Min
  <1>3. m <= w /\ w <= m
    BY <1>2
  <1> QED  BY <1>1, <1>2, <1>3

(* For a response of any length and any label tables: once Parse has read  *)
(* it, every single-valued field holds what the first line that states it  *)
(* says, every repeatable one each thing said of it once, and no field     *)
(* anything else, across blocks, blanks, comments and unknown labels.      *)
THEOREM ParsedAlwaysAsStated == ReportSpec => []ParsedAsStated
  <1>1. ReportSpec => []ParseInv
    <2>1. ParseInv /\ [ReportNext]_reportVars => ParseInv'
      BY ParseInvStep
    <2> QED  BY <2>1, ParseInvInit, PTL DEF ReportSpec
  <1>2. ParseInv => ParsedAsStated
    <2> SUFFICES ASSUME ParseInv, Unambiguous, ~Reading, NEW f \in Field, NEW said,
                        said = {m \in States(f) : lines[m].value # NoValue}
                 PROVE  IF f \in multiValued
                        THEN /\ {v.word : v \in ToSet(parse.fields[f])} =
                                    {lines[m].value.word : m \in said}
                             /\ Len(parse.fields[f]) =
                                    Cardinality({lines[m].value.word : m \in said})
                        ELSE parse.fields[f] =
                                 IF said = {} THEN <<>> ELSE <<lines[Min(said)].value>>
      BY DEF ParsedAsStated
    <2>1. Clear(lines)
      BY DEF Unambiguous, Clear
    <2>2. parse.at \in 1 .. Len(lines) + 1 /\ Lines(lines)
      BY DEF ParseInv, LoopOK
    <2>3. States(f) = Stating(lines, templated, f)
      BY DEF States, Stating, Labels, LabelsIn, Bare, InBlock
    <2>4. \A m \in DOMAIN lines : m \in Nat /\ m < parse.at
      <3>1. Len(lines) \in Nat /\ parse.at = Len(lines) + 1
        BY <2>2 DEF Reading, Lines
      <3> QED  BY <2>2, <3>1 DEF Lines
    <2>5. said = Said(lines, templated, f, parse.at)
      BY <2>3, <2>4 DEF Said, Stating
    <2>6. Says(lines, f, parse.fields[f], said)
      BY <2>1, <2>5 DEF ParseInv, LoopOK, Recorded
    <2>7. CASE f \in multiValued
      BY <2>6, <2>7 DEF Says, WordsOf
    <2>8. CASE f \notin multiValued
      <3>1. said \in SUBSET Nat
        BY <2>4, <2>5 DEF Said, Stating
      <3>2. CASE said = {}
        BY <2>6, <2>8, <3>2 DEF Says
      <3>3. CASE said # {}
        <4>1. PICK w \in said : parse.fields[f] = <<lines[w].value>> /\ \A y \in said : w <= y
          BY <2>6, <2>8, <3>3 DEF Says
        <4>2. Min(said) = w
          BY <3>1, <4>1, LeastIsMin
        <4> QED  BY <2>8, <3>3, <4>1, <4>2
      <3> QED  BY <3>2, <3>3
    <2> QED  BY <2>7, <2>8
  <1> QED  BY <1>1, <1>2, PTL
=============================================================================
