SPECIFICATION Spec
CONSTANTS
    Stmt = {s1, s2, s3}
    Name = {n1, n2, long, res}
    LongName = {long}
    ReservedName = {res}
    NoName = NoName
    Free = Free
SYMMETRY Symmetry
INVARIANT NoPhantomName
INVARIANT UniqueWhenApart
INVARIANT OwnedWhenApart
