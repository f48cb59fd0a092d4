---------------------------- MODULE MCRouteMount ----------------------------
(* A small tab for TLC: a page in memory behind two hashes, one that is        *)
(* fetched, one whose guard refuses this user, and a hash nobody registered.  *)
EXTENDS RouteMountProperties

CONSTANTS plain, fetched, guarded, home, deepLink, fetchedHash, guardedHash, nowhere

MCRouteOf == [h \in Hash |-> CASE h \in {home, deepLink} -> plain
                               [] h = fetchedHash -> fetched
                               [] h = guardedHash -> guarded
                               [] h = nowhere -> NoRoute]
=============================================================================
