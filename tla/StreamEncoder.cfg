SPECIFICATION Spec
CONSTANTS
    Kinds = {"base64", "zlib", "zstd"}
    Bytes = {27, 228}
    Rooms = {0, 3, 4, 8}
    Discipline = {"room", "finish", "fresh", "status"}
    MaxInput = 5
INVARIANT OutputExact
PROPERTY CallsReturn
