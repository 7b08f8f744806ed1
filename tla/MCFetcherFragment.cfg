CONSTANTS
    home = home
    docs = docs
    insecure = insecure
    other = other
    Url <- MCUrl
    OriginOf <- MCOriginOf
    HostOf <- MCHostOf
    HeaderOrigin = "https://a"
    MaxRequests = 3
    Id <- MCId
    Escape <- MCEscape
    NoFragment = "none"
    Ids <- MCIds
SPECIFICATION Spec
INVARIANT MissingMeansAbsent
