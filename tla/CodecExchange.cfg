\* Commands and replies of all sizes of the reply address field, with one
\* inverted bit anywhere.
SPECIFICATION Spec
CONSTANTS
    Paths <- MCPaths
    ReplyAddrs <- MCReplyAddrs
    Ids = {4660, 65535}
    Addresses = {305419896}
    Datas <- MCDatas
    Verify = TRUE
    Flips = {1, 2, 4, 8, 16, 32, 64, 128}
INVARIANTS
    CrcIsPolynomial
    CommandUnderstood
    ReplyMatchesCommand
    DamageNoticed
    UndamagedAnswered
