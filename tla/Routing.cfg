SPECIFICATION Spec
CONSTANTS
    proc = proc
    other = other
    alice = alice
    bob = bob
    s1 = s1
    s2 = s2
    s3 = s3
    cu1 = cu1
    cu2 = cu2
    post = post
    repost = repost
    direct = direct
    postq = postq
    msg = msg
    assign = assign
    read = read
    readq = readq
    None = none
    Router = router
    Schedulers = {s1, s2, s3}
    Processes = {proc, other}
    Owner <- MCOwner
    Wallets <- MCWallets
    WalletsOnly <- MCWalletsOnly
    NoRoute = {}
    RouterCheck = TRUE
    Hosts <- MCHosts
    Hash <- MCHash
    Bailout <- MCBailout
    Requests = {post, repost, direct, msg, read, readq}
    Kind <- MCKind
    About <- MCAbout
SYMMETRY Symmetric
INVARIANT HeldAtHome OneSchedule FailedOver
CHECK_DEADLOCK FALSE
