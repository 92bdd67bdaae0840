SPECIFICATION FairSpec
CONSTANTS
    None = None
    n1 = n1  c1 = c1  r1 = r1  r2 = r2
    Nodes = {n1}
    Conns = {c1}
    NodeOf <- MCNodeOf
    Req = {r1, r2}
    Slots = 1
    Buf = 1
    Kinds = {"command", "download", "upload"}
    Frail = {c1}
    MaxAsk = 2
    MaxChunks = 2
    MaxReplies = 2
    MaxInbox = 1
CHECK_DEADLOCK FALSE
INVARIANTS
    ExchangeInv
    TransferInv
PROPERTIES
    SessionEnds
