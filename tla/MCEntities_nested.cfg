SPECIFICATION Spec
CONSTANTS
    None = None
    Attr = {"email", "friend", "kind", "note", "tag"}
    Name = {"ada", "bob"}
    Token = {"t", "u", "x"}
    v1 = v1
    v2 = v2
    Val = {v1, v2}
    Unique = {"email"}
    RefTyped = {"friend"}
    Member = "kind"
    Required = "note"
    Records <- NestedRecords
    Requests <- NestedRequests
    MaxTx = 4
INVARIANT RecordWhole
