----------------------- MODULE RouteMountProperties -----------------------
(***************************************************************************)
(* What the router and the route adapter promise a page: at most one slice *)
(* is alive and it is the one that was asked for last; nothing older ever  *)
(* draws; and what was asked for last is drawn in the end.                 *)
(***************************************************************************)
EXTENDS RouteMount

TypeOK ==
    /\ hash \in Hash
    /\ events \in Nat
    /\ going \in Route \cup {NoRoute}
    /\ navSeq \in Nat
    /\ current \in Route \cup {NoRoute}
    /\ mountSeq \in [Route -> Nat]
    /\ loads \subseteq Load
    /\ slices \in Seq(SliceRecord)
    /\ mounted \in [Route -> Nat]
    /\ container \in Shown
    /\ moves \in Nat
    /\ faults \in Nat

\* Tokens, slices and what is shown stem from navigations that have been made.
RefsOK ==
    /\ \A l \in loads : l.nav \in 1..navSeq /\ l.token \in 1..mountSeq[l.route]
    /\ \A i \in Slice : slices[i].nav \in 1..navSeq
    /\ \A r \in Route : mounted[r] # 0 => mounted[r] \in Slice /\ slices[mounted[r]].route = r
    /\ container.nav <= navSeq
    /\ going # NoRoute => going = current /\ navSeq > 0

\* Type correctness of the tab, references included.
TypeInvariant == TypeOK /\ RefsOK

\* A slice that still hears, fetches or draws.
Alive(i) == slices[i].listening \/ slices[i].active \/ ~slices[i].disposed

\* createStoreRoute's lifetimes, with lazy loads that arrive late, mounts that fail
\* and cleanups that dispatch: only the slice of the latest navigation is alive.
OnlyLatestIsAlive ==
    \A i \in Slice : Alive(i) =>
        /\ slices[i].nav = navSeq
        /\ slices[i].route = current
        /\ i = mounted[current]

\* The container changes only to what belongs to the latest navigation: no stale
\* load, late failure or queued notification draws over it.
OnlyLatestDraws == [][container' # container => container'.nav = navSeq']_vars

\* When every event is handled and the page asked for is not being fetched, the
\* container shows that page, drawn by a slice that is alive, or the error panel.
AskedIsShown ==
    (/\ Idle
     /\ events = 0
     /\ RouteOf[hash] # NoRoute
     /\ \A l \in loads : l.nav # navSeq)
    => /\ current = RouteOf[hash]
       /\ container.nav = navSeq
       /\ container.what = "page" <=> mounted[current] # 0

\* Every navigation is drawn in the end, unless another one takes its place or the
\* hash is moved to one that nobody registered, which navigate() ignores.
NavigationSettles ==
    \A n \in 1..2 * MaxMoves + 2 :
        navSeq = n ~> (container.nav = n \/ navSeq > n \/ RouteOf[hash] = NoRoute)
=============================================================================
