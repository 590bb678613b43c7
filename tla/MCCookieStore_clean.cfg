SPECIFICATION Spec
CONSTANTS
    sid = sid
    lang = lang
    v1 = v1
    v2 = v2
    www = www
    ex = ex
    org = org
    com = com
    app = app
    Slash = Slash
    Malformed = Malformed
    NoAttr = NoAttr
    BadDate = BadDate
    NoCookie = NoCookie
    Names <- MCNames
    Values <- MCValues
    Hosts <- MCHosts
    Paths <- CleanPaths
    Expiries = {1, 2}
    LastHour = 3
    Additions <- SomeAdditions
    Responses <- CleanResponses
INVARIANTS
    SentIsDue
