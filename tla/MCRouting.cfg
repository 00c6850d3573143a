CONSTANTS
    w1 = w1
    w2 = w2
    blog = blog
    shop = shop
    bad = bad
    gone = gone
    host1 = host1
    host2 = host2
    file1 = file1
    file2 = file2
    da = da
    ds = ds
    xs = xs
    st = st
    Workers = {w1, w2}
    Prefixes = {blog, shop, bad, gone}
    DomainLists <- MCDomainLists
    Hosts = {host1, host2}
    Hostnames <- MCHostnames
    Names <- MCNames
    Starred <- MCStarred
    Covers <- MCCovers
    Rank <- MCRank
    Files = {file1, file2}
    Malformed = Malformed
    Default = Default
    Absent = Absent
    NotFound = NotFound
    Static = Static
    nullptr = nullptr
    StaticNames = {st}
    PathLines <- MCPathLines
    Unreadable = {gone}
SPECIFICATION Spec
CHECK_DEADLOCK FALSE
SYMMETRY MCSymmetry
INVARIANTS
    TypeOK
    RoutesStable
    NeverMisrouted
    RoutedByItsDomain
    PlainLeftoversHarmless
