SPECIFICATION ReportSpec
CONSTANTS
    MaxLines = 4
    TemplateLabels <- MCTemplateLabels
    Synonyms <- MCSynonyms
    Unqualified <- MCUnqualified
    ProseLabels = {"terms of use"}
    WhoisMarkers = {"redacted", "data protected"}
    RdapMarkers = {"redacted", "withheld"}
    MaxUnknown = 17
    DateOf <- MCDateOf
    HostOf <- MCHostOf
    MaxBlock = 2
    Responses <- MCResponses
    Objects <- MCObjects
INVARIANTS
    ParsedAsStated
    MarkersNeverReported
    ConfidenceHonest
