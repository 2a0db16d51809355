\* Every shape of role, five credentials, two robot prefixes of Harbor.
SPECIFICATION Spec
CONSTANTS
    p = p
    q = q
    Project = {p, q}
    Root = Root
    NoNamespace = NoNamespace
    NoEntry = NoEntry
    Alnum <- TwoCharacters
    lowerOf <- OneCapital
    MaxSegment = 2
    WrittenLevels = {"system", "project", "team"}
    WrittenPermissions <- ManyPermissions
    RoleNames <- LegalRoleNames
    NamePrefixes <- LegalPrefixes
    Suffix <- RandomSuffix
    HarborPrefixes <- DefaultAndOther
    Copies <- BehindAndBefore
    Issuers <- ManyIssuers
    PageSize = 1
INVARIANTS TypeOK GuardUnreached ValidRoleAccepted CleanupAllowed DropMeansGone OnlyOwnFound IInv
