SPECIFICATION Spec
CONSTANTS
    a = a
    b = b
    Thread = {a, b}
    mem_size_aligned = 12
    SIZEOF_STRUCT_MEM = 1
    MIN_SIZE = 2
    MaxSize = 5
SYMMETRY MCSymmetry
INVARIANTS
    TypeOK
    Tiled
    BlocksKept
    UsedCounted
CHECK_DEADLOCK FALSE
