SPECIFICATION Spec
CONSTANTS
    k1 = k1
    k2 = k2
    p1 = p1
    p2 = p2
    p3 = p3
    r1 = r1
    r2 = r2
    r3 = r3
    NoCard = NoCard
    Card = {k1, k2}
    Playback = {p1, p2, p3}
    Capture = {r1, r2, r3}
    Probed = {p1, p3}
    Master <- MCMaster
    Pipe <- MCPipe
    PlaybackMax = 3
    CardMax = 1
INVARIANTS TypeOK ListsAgree NoDuplicates NoOverflow UnmutedIsRouted LogIsTrue
PROPERTIES FeedFollowsRoute RouteSpec
