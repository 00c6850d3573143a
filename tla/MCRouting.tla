----------------------------- MODULE MCRouting -----------------------------
EXTENDS Routing, TLC

CONSTANTS w1, w2, blog, shop, bad, gone, host1, host2, file1, file2

\* "/docs/a", "/docs/*", "/d*", "/static/x"
CONSTANTS da, ds, xs, st

MCNames == {da, ds, xs, st}
MCStarred == {ds, xs}
MCCovers == (ds :> {da, ds}) @@ (xs :> {da, ds, xs})

\* std::map's order: "*" comes before every letter
MCRank == [n \in Names |-> IF n = xs THEN 1 ELSE IF n = ds THEN 2 ELSE IF n = da THEN 3 ELSE 4]

MCDomainLists == {<<blog, shop>>, <<blog, bad>>, <<blog, gone>>}
MCHostnames == (blog :> {host1, host2}) @@ (shop :> {host2}) @@ (bad :> {host2}) @@ (gone :> {host2})

Line(n, m, t, f) == [request |-> n, method |-> m, type |-> t, file |-> f]

\* a path configured twice, a type that does not exist, wildcards that overlap
MCPathLines ==
    (blog :> << Line(da, "get", "plain", file1), Line(da, "get", "binary", file2),
                Line(ds, "get", "plain", file2), Line(ds, "post", "python", file1),
                Line(st, "get", "plain", file1), Line(st, "post", "python", file1) >>)
    @@ (shop :> << Line(xs, "get", "plain", file1), Line(ds, "get", "binary", file2),
                   Line(da, "get", "unknown", file2),
                   Line(da, "post", "plain", file1),
                   Line(st, "get", "python", file1), Line(st, "post", "python", file1) >>)
    @@ (bad :> << Line(da, "get", "plain", file1), Malformed >>)
    @@ (gone :> << >>)

MCSymmetry == Permutations(Workers)
=============================================================================
