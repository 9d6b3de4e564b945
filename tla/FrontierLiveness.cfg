\* Two URLs of one host with two slots: retries after back-off, a crash, a lost
\* outcome, an operator.
CONSTANTS
    u1 = u1
    u2 = u2
    u3 = u3
    h1 = h1
    h2 = h2
    h3 = h3
    Urls = {u1, u2}
    Hosts = {h1}
    HostOf <- OneHost
    Blank = {u2}
    Workers = {w1, w2}
    Batch = 2
    MaxAttempts = 2
    ConcurrencyMax = 2
    LeaseUrls = 2
    MaxFaults = 1
    MaxCrashes = 1
    MaxAdmin = 1
    NoUrl = NoUrl
SPECIFICATION FairSpec
PROPERTIES
    UrlsSettle
