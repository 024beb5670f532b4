----------------------------- MODULE WhoisParse -----------------------------
(***************************************************************************)
(* Parse of internal/whois/parsers/parse.go: a WHOIS response is read line *)
(* by line into canonical fields, with or without a template for the host  *)
(* that sent it, and scored.                                               *)
(*                                                                         *)
(* A line is a record: whether it is indented, whether it holds a colon,   *)
(* its kind - blank, hash (% or #), rule (>>> or --), text, or field, the  *)
(* one splitLine takes apart - its label, and its value, which for a line  *)
(* of a block is the text itself.  A value is a word and how it is         *)
(* capitalised; what a word means is given by constants.                   *)
(***************************************************************************)
EXTENDS Integers, SequencesExt

CONSTANTS
    TemplateLabels,     \* the template's labels; Dropped for one it maps to ""
    Synonyms,           \* the shared labels
    Unqualified,        \* a label without its "registry ", "registrar ", "domain "
    ProseLabels,        \* labels isProseLabel takes for a sentence
    WhoisMarkers,       \* words that contain a redactionMarkers entry of parsers/synonyms.go
    DateOf,             \* DateOf[w]: "zoned", "bare" or "none"
    HostOf,             \* HostOf[w]: the host name in w, glue stripped, or NoHost
    MaxBlock            \* lines of one block; 20 in the code

VARIABLES
    lines,              \* the response
    templated,          \* the host has a template
    parse               \* the loop: the line it is at, the fields, UnknownLabels

parseVars == <<lines, templated, parse>>

Dropped == "dropped"
Unknown == "unknown"
NoHost == "no host"

NoValue == [word |-> "", caps |-> FALSE]

Field ==
    {"domain", "registrar", "status", "nameserver", "created", "expires", "updated",
     "registrant_name", "registrant_org", "registrant_email", "registrant_phone", "admin_name"}

coreFields == {"domain", "registrar", "status", "nameserver", "created", "expires"}

multiValued == {"nameserver", "status"}

ASSUME ParseConstants ==
    /\ MaxBlock \in Nat \ {0} /\ "" \notin WhoisMarkers
    /\ \A l \in DOMAIN TemplateLabels : TemplateLabels[l] \in Field \cup {Dropped}
    /\ \A l \in DOMAIN Synonyms : Synonyms[l] \in Field

ParseInit(responses) ==
    /\ lines \in responses
    /\ templated \in BOOLEAN
    /\ parse = [at |-> 1, fields |-> [f \in Field |-> <<>>], unknown |-> {}]

---------------------------------------------------------------------------

(* The template's own labels first, then the shared ones, then those once  *)
(* the registry's qualifier is taken off.                                  *)
canonical(label, hasTpl) ==
    IF hasTpl /\ label \in DOMAIN TemplateLabels THEN TemplateLabels[label]
    ELSE IF label \in DOMAIN Synonyms THEN Synonyms[label]
    ELSE IF label \in DOMAIN Unqualified /\ Unqualified[label] \in DOMAIN Synonyms
         THEN Synonyms[Unqualified[label]]
    ELSE Unknown

EqualFold(v, w) == v.word = w.word

appendUnique(dst, v) ==
    IF \E i \in DOMAIN dst : EqualFold(dst[i], v) THEN dst ELSE Append(dst, v)

(* Mutant: a repeated label replaces what the first one said.              *)
recordLast(fields, key, v) ==
    IF v = NoValue THEN fields
    ELSE [fields EXCEPT ![key] = IF key \in multiValued THEN appendUnique(@, v) ELSE <<v>>]

(* A single-valued field keeps its first occurrence.                       *)
record(fields, key, v) ==
    IF v = NoValue THEN fields
    ELSE [fields EXCEPT ![key] = IF key \in multiValued THEN appendUnique(@, v)
                                 ELSE IF @ = <<>> THEN <<v>> ELSE @]

(* Blank, unindented and commented lines and any with a colon end a block. *)
Continues(line) == line.indented /\ ~line.colon /\ line.kind \notin {"blank", "hash"}

(* continuationValues: how many lines after the i-th belong to its block.  *)
consumed(i) ==
    Max({n \in 0 .. MaxBlock : i + n <= Len(lines) /\ \A k \in i + 1 .. i + n : Continues(lines[k])})

(* splitLine: a rule ends as no field, and so does text without a label.   *)
IsField(line) == line.kind = "field"

---------------------------------------------------------------------------
(* The loop of Parse.                                                      *)

Reading == parse.at <= Len(lines)

Line == lines[parse.at]

Key == canonical(Line.label, templated)

Read(n, fields, unknown) ==
    /\ parse' = [at |-> parse.at + n, fields |-> fields, unknown |-> unknown]
    /\ UNCHANGED <<lines, templated>>

SkipLine == Reading /\ ~IsField(Line) /\ Read(1, parse.fields, parse.unknown)

(* A label a template silences has the empty key, like one nobody knows.   *)
UnknownLabel ==
    /\ Reading /\ IsField(Line) /\ Key \in {Dropped, Unknown}
    /\ Read(1, parse.fields,
            IF Line.label \in ProseLabels THEN parse.unknown ELSE parse.unknown \cup {parse.at})

(* A bare label introduces an indented block.                              *)
ReadBlock ==
    /\ Reading /\ IsField(Line) /\ Key \in Field /\ Line.value = NoValue
    /\ LET n == consumed(parse.at)
           upTo[k \in 0 .. n] == IF k = 0 THEN parse.fields
                                 ELSE record(upTo[k - 1], Key, lines[parse.at + k].value)
       IN Read(n + 1, upTo[n], parse.unknown)

ReadField ==
    /\ Reading /\ IsField(Line) /\ Key \in Field /\ Line.value # NoValue
    /\ Read(1, record(parse.fields, Key, Line.value), parse.unknown)

ParseNext == SkipLine \/ UnknownLabel \/ ReadBlock \/ ReadField

---------------------------------------------------------------------------
(* What Parse makes of the fields.                                         *)

first(f) == IF parse.fields[f] = <<>> THEN NoValue ELSE parse.fields[f][1]

(* Mutant: the penalty may take everything.                                *)
scoreUnfloored(found, hasTpl, unknown) ==
    LET base == IF hasTpl THEN 90 * found + 60 ELSE 85 * found
        bounded == Min({600, Max({0, base - 6 * Min({unknown, 15})})})
    IN {h \in 0 .. 100 : 6 * h - 3 <= bounded /\ bounded <= 6 * h + 3}

(* parse_confidence in hundredths, computed in sixths of them: 90 per cent *)
(* of the core fields and 10 for a template, or 85 per cent without; one   *)
(* hundredth off per unknown label, at most 15; then a floor and a ceiling.*)
(* Rounding is floating point: an exact half goes either way.              *)
score(found, hasTpl, unknown) ==
    IF found = 0 THEN {0}
    ELSE LET base == IF hasTpl THEN 90 * found + 60 ELSE 85 * found
             exact == base - 6 * Min({unknown, 15})
             bounded == Min({600, Max({30, exact})})
         IN {h \in 0 .. 100 : 6 * h - 3 <= bounded /\ bounded <= 6 * h + 3}

Found == Cardinality({f \in coreFields : parse.fields[f] # <<>>})

Marked(v) == v.word \in WhoisMarkers

(* Mutant: a marker in the name alone is noticed.                          *)
contactNameOnly(name, org, email, phone) ==
    [redacted |-> Marked(name),
     name |-> IF Marked(name) THEN NoValue ELSE name, org |-> org, email |-> email, phone |-> phone]

(* contact: a marker withholds the field it stands in; phone and country   *)
(* are not looked at.                                                      *)
contact(name, org, email, phone) ==
    LET Shown(v) == IF Marked(v) THEN NoValue ELSE v
    IN [redacted |-> Marked(name) \/ Marked(org) \/ Marked(email),
        name |-> Shown(name), org |-> Shown(org), email |-> Shown(email), phone |-> phone]

(* promote: the contacts of which anything was said.                       *)
contacts ==
    LET registrant == <<first("registrant_name"), first("registrant_org"),
                        first("registrant_email"), first("registrant_phone")>>
    IN (IF registrant = <<NoValue, NoValue, NoValue, NoValue>> THEN {}
        ELSE {contact(registrant[1], registrant[2], registrant[3], registrant[4])})
       \cup (IF first("admin_name") = NoValue THEN {}
             ELSE {contact(first("admin_name"), NoValue, NoValue, NoValue)})

(* ParseDate: a value in no known layout is no date.                       *)
date(f) == DateOf[first(f).word]

(* Lower-cased host names without glue; what is no host name is dropped.   *)
normalizeNameservers ==
    {HostOf[v.word] : v \in ToSet(parse.fields["nameserver"])} \ {NoHost}

---------------------------------------------------------------------------

(* The lines that state field f, by the layout of the response alone: a    *)
(* labelled value, or a line of the block under a bare label.              *)
Labels(j, f) == IsField(lines[j]) /\ canonical(lines[j].label, templated) = f

States(f) ==
    {m \in DOMAIN lines :
        \/ Labels(m, f) /\ lines[m].value # NoValue
        \/ \E j \in 1 .. m - 1 :
              /\ Labels(j, f) /\ lines[j].value = NoValue /\ m - j <= MaxBlock
              /\ \A k \in j + 1 .. m : Continues(lines[k])}

(* A label in brackets needs no colon (parse.go:333): indented below a     *)
(* bare label, such a line is a field by splitLine and a line of the block *)
(* by continuationValues, and Parse takes it for the latter.               *)
Unambiguous == \A m \in DOMAIN lines : ~(IsField(lines[m]) /\ Continues(lines[m]))

(* "overwriting with it corrupts the record" (synonyms.go:199): once a     *)
(* response laid out unambiguously is read, each single-valued field holds *)
(* what the first line stating it says, a repeatable one everything said   *)
(* of it once, and no field anything else.                                 *)
ParsedAsStated ==
    Unambiguous /\ ~Reading =>
        \A f \in Field :
            LET said == {m \in States(f) : lines[m].value # NoValue}
            IN IF f \in multiValued
               THEN /\ {v.word : v \in ToSet(parse.fields[f])} = {lines[m].value.word : m \in said}
                    /\ Len(parse.fields[f]) = Cardinality({lines[m].value.word : m \in said})
               ELSE parse.fields[f] = IF said = {} THEN <<>> ELSE <<lines[Min(said)].value>>
=============================================================================
