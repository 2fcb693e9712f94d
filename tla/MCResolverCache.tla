--------------------------- MODULE MCResolverCache ---------------------------
(***************************************************************************)
(* Small instances of ResolverCache.                                       *)
(***************************************************************************)
EXTENDS ResolverCache

CONSTANTS p1, p2, s1

Asking(r, v) == [x \in Resolvers |-> IF x = r THEN v ELSE None]

\* A request through the subdomain, and one that also names a session key.
SubdomainThenSession == <<"subdomain", "session">>
TwoRequests == {Asking("subdomain", s1), [Asking("subdomain", s1) EXCEPT !["session"] = p1]}

\* Every resolver, with a value that is one tenant's key and the other's slug.
AllResolvers == <<"jwt", "header", "session", "subdomain">>
ManyRequests == {Asking("jwt", p1), Asking("header", p1), Asking("header", s1),
                 Asking("session", p2), Asking("subdomain", p2)}
=============================================================================
