\* All operations, by users who take everything, parts, or do anything.
CONSTANTS
    Byte = {z, x}
    Zero = z
    kCheapPrepend = 2
    kInitialSize = 3
    ExtraBuf = 2
    SizeMax = 64
    MaxSize = 8
    MaxLen = 3
    Uses = {"whole", "parts", "all"}
SPECIFICATION Spec
INVARIANTS StaysIntact IndicesInside IndicesOrdered
PROPERTY ImplementsByteQueue
