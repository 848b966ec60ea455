\* The daemon behind the master may lack the space, which is opened up to three times.
CONSTANTS
    m = m
    w1 = w1
    w2 = w2
    w3 = w3
    c0 = c0
    c1 = c1
    c2 = c2
    c3 = c3
    NoEndpoint = NoEndpoint
    Nodes = {m, w1, w2, w3}
    Succ <- MCSucc
    Configs = {{m, w1, w2, w3}, {m, w2, w3}}
    Masters = {m}
    Clients = {c0, c1, c2, c3}
    Home <- MCHome
    MaxSessions = 3
SPECIFICATION FairSpec
INVARIANTS
    SameIfReached
PROPERTIES
    WaitersAnswered
    ConnectsComeToRest
\* Programs come to their end, or wait for a space that nobody opens.
CHECK_DEADLOCK FALSE
