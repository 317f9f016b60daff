\* Taking part of the data, then appending more than fits.
CONSTANTS
    Byte = {z, x}
    Zero = z
    kCheapPrepend = 2
    kInitialSize = 3
    ExtraBuf = 2
    SizeMax = 64
    MaxSize = 8
    MaxLen = 3
    Uses = {"parts"}
SPECIFICATION Spec
PROPERTY AlwaysByteQueue
