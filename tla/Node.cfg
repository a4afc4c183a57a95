\* The parts of a node that share nothing, each explored on its own
SPECIFICATION MCSpec
CONSTANTS
    a1 = a1
    a2 = a2
    b1 = b1
    b2 = b2
    n1 = n1
    n2 = n2
    x1 = x1
    Account = {a1, a2}
    Amount = {1, 2}
    TxNonce = {1, 2}
    Payer = {p1, p2}
    Deposit <- MCDeposit
    ClusterSize = {0, 1, 3}
    MaxSupply = 2
    Voucher <- MCVoucher
    NoOne = NoOne
    Node = {n1, n2}
    Request = {r1, r2, r3}
    MaxTime = 1
    MaxLife = 1
    None = None
    Seller = {s1, s2}
    Settler = {g1}
    Cost = {50, 100, 200}
    MaxChanges = 1
    MaxBids = 2
    NoBid = NoBid
    Peer = {q1, q2}
    MaxClock = 4
    Agent = {g1}
    ShardOf <- MCShardOf
    Path <- MCPath
    Handler = {h1}
    Hit = {i1, i2}
    Peers = {q1}
    Resolver = {"noop", "hive", "quorum"}
    Wiring = {"own", "given"}
    MaxRuns = 1
    Key = {k1, k2}
    PrefixOf <- MCPrefixOf
    Visitor = {v1, v2}
    NoKey = NoKey
    Artifact = {x1, x2}
    BlobsOf <- MCBlobsOf
    Tag = {t1}
    Pusher = {m1, m2}
    Puller = {u1}
    MaxPushes = 1
    MaxDamage = 1
    NoArtifact = NoArtifact
    Block = {b1, b2, b3}
    SizeOf <- MCSizeOf
    CacheLimit = 1
    Wrap = 8
    TagFile = {f1}
    Payload = {y1, y2}
    Writer = {w1, w2}
    Reader = {d1}
    MaxWrites = 1
    NoFile = NoFile
    Torn = Torn
    Cart = {c1, c2}
    Builtin = {c1}
    Places = 2
    Build = {z1}
    Broken = Broken
    NoBuild = NoBuild
    Lane = {l1, l2}
    Stdio = {l1}
    MaxEdits = 2
    MaxBlocks = 3
    Length = {0, 20, 60}
    Window = {10, 20, 40}
    Strategy = {"Fifo", "LargeBlockFirst", "Hybrid"}
    Conn = {e1}
    Command <- MCCommand
    NoCommand = NoCommand
    ChunkSize = 4
    Overhead = 1
    MaxTransfer = 10
    MaxPayload = 9
    Name = {g1}
    Nameless = Nameless
    Look = {j1}
    Task = {o1, o2}
    Neighbour = {q1}
    MaxId = 4
INVARIANTS
    NodeTypeOK
    BalancesFollowLog
    PaidOncePerLife
    ExecutionsAreFunded
    VerdictsFollowSilence
    NeverBothWait
    AnswersAreTrue
    HibernatingIsFound
    AdmissionsJustified
    ArtifactsWhole
    CacheBounded
    QuietPulls
    MissesAreGenuine
    PrunedAsSpecified
PROPERTIES
    ImplementsLedger
    NoFlapping
\* Most bounds let a part come to rest.
CHECK_DEADLOCK FALSE
