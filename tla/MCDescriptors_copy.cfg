SPECIFICATION Spec
CONSTANTS
    s1 = s1
    s2 = s2
    s3 = s3
    c1 = c1
    c2 = c2
    Stmt = {s1, s2, s3}
    Desc = {d1, d2, d3}
    Conn = {c1, c2}
    ConnOf <- MCConnOf
    Ardi <- MCArdi
    Implicit <- MCImplicit
    OwnerOf <- MCOwnerOf
    KindOf <- MCKindOf
    NoStmt = NoStmt
    NoConn = NoConn
    CopyOnto = "any"
SYMMETRY Symmetry
INVARIANT ActiveIsLive
