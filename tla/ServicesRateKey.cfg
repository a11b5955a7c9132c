\* Two clients with addresses of their own: which address is counted for a request?
SPECIFICATION ServicesSpec
CONSTANTS
    c1 = c1
    c2 = c2
    a1 = a1
    a2 = a2
    u1 = u1
    u2 = u2
    Clients = {c1, c2}
    Conns = {k1, k2}
    NoConn = NoConn
    Urls = {u1, u2}
    NoUrl = NoUrl
    Answers <- TheAnswers
    https = FALSE
    MaxSize = 1
    MaxRequest = 2
    MaxAlive = 1
    Boot = 1
    MaxTime = 2
    Addresses = {a1, a2}
    NoAddress = NoAddress
    AddressOf <- TwoAddresses
    KeepAlive = FALSE
    RateLimit = 1
    Requests <- TheRequests
    MaxRequests = 2
    MaxFaults = 1
    Bytes = {x, y}
    NoByte = NoByte
    m_baseSize = 2
    MaxWrite = 2
    MaxPages = 3
    Threads = {t1, t2, t3}
    NoThread = NoThread
    Connections = {d1, d2}
    NoConnection = NoConnection
    MaxBytes = 2
    BufSize = 2
    Sessions = {s1, s2}
    FirstSize = 1
    MaxData = 3
    Sockets = {l1}
    Loops = {p1, p2}
    MaxStarts = 2
    MaxClients = 1
    Width = 5
    Group = 2
    MaxUnread = 2
    ch1 = ch1
    ch2 = ch2
    MaxName = 3
    Chars = {ch1, ch2}
    Streams <- TheStreams
    ValidStarts <- TheStarts

INVARIANT RateKeyIsOwn
CHECK_DEADLOCK FALSE
