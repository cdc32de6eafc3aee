\* One session, two launches, one request at a time.
CONSTANTS
    k1 = k1
    i1 = i1
    i2 = i2
    r1 = r1
    None = None
    Key = {k1}
    Instance = {i1, i2}
    Request = {r1}
SPECIFICATION Spec
PROPERTIES
    RegisterDropsStaleTransport
