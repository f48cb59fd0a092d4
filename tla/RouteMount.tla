------------------------------ MODULE RouteMount ------------------------------
(***************************************************************************)
(* The pages of one browser tab: lib/router.js, which answers a hash with  *)
(* a route, core/store-route.js, which mounts a route's page as a slice    *)
(* with a store, listeners and a lifetime, and core/store.js, which draws  *)
(* a slice on a microtask after its state changed.                         *)
(*                                                                         *)
(* One step is one task of the event loop or one microtask.  A slice is    *)
(* one mounting of a page; every navigation makes at most one.             *)
(***************************************************************************)
EXTENDS Naturals, Sequences, FiniteSets

CONSTANTS
    Hash,            \* location hashes
    Route,           \* route handlers, each behind one or more hashes
    NoRoute,         \* what a hash nobody registered matches
    RouteOf,         \* [Hash -> Route \cup {NoRoute}]
    Home,            \* FALLBACK_LANDING_PATH
    Lazy,            \* routes whose page module is fetched on navigation
    Refused,         \* routes whose guard turns this user away
    CleanupMayThrow, \* the function a page's start() returned may throw
    MaxMoves, MaxFaults   \* bounds: changes of the hash, things that throw

ASSUME RouteAssumption ==
    /\ NoRoute \notin Route
    /\ RouteOf \in [Hash -> Route \cup {NoRoute}]
    /\ Lazy \subseteq Route /\ Refused \subseteq Route
ASSUME HomeAssumption == Home \in Hash /\ RouteOf[Home] \in Route \ Refused
ASSUME BoundAssumption == MaxMoves \in Nat /\ MaxFaults \in Nat /\ CleanupMayThrow \in BOOLEAN

VARIABLES
    hash,       \* location.hash
    events,     \* hashchange events not yet handled
    going,      \* the route navigate() is about to mount, in the same task
    navSeq,     \* Router._navSeq
    current,    \* the route of Router._current
    mountSeq,   \* mountSequence of each route
    loads,      \* pending fetches of page modules, with the tokens they captured
    slices,     \* the slices made so far
    mounted,    \* the slice behind each route's disposeMountedSlice, 0 if null
    container,  \* what the route container shows, and the navigation it is of
    moves, faults

vars == <<hash, events, going, navSeq, current, mountSeq, loads, slices, mounted,
          container, moves, faults>>

SliceRecord ==
    [route: Route, nav: Nat,
     listening: BOOLEAN,   \* listeners added with listen() are in place
     active: BOOLEAN,      \* its AbortController has not been aborted
     disposed: BOOLEAN,    \* its store has been disposed
     scheduled: BOOLEAN]   \* a notification is queued as a microtask

Load == [route: Route, token: Nat, nav: Nat]
Shown == [what: {"nothing", "page", "panel"}, nav: Nat]

Slice == DOMAIN slices
Page(n) == [what |-> "page", nav |-> n]
Panel(n) == [what |-> "panel", nav |-> n]

\* No task is half done and no microtask is queued: the next task may run.
Idle == going = NoRoute /\ \A i \in Slice : ~slices[i].scheduled

\* Something throws that may.
Fault == faults < MaxFaults /\ faults' = faults + 1

location == <<hash, events, moves>>

----------------------------------------------------------------------------
(* The life of a slice *)

NewSlice(r, n, dispatches) ==
    [route |-> r, nav |-> n, listening |-> TRUE, active |-> TRUE, disposed |-> FALSE,
     scheduled |-> dispatches]

\* dispatch: the state changes at once, the notification is a microtask.
Notified(s) == [s EXCEPT !.scheduled = @ \/ ~s.disposed]

\* disposeMountedSlice: listeners off, cleanup run (which may dispatch), signal
\* aborted, store disposed.
Ended(s, dispatches) ==
    [(IF dispatches THEN Notified(s) ELSE s)
        EXCEPT !.listening = FALSE, !.active = FALSE, !.disposed = TRUE]

\* The cleanup throws: signal and store are not reached.
Stuck(s) == [s EXCEPT !.listening = FALSE]

----------------------------------------------------------------------------
Init ==
    /\ hash \in Hash
    /\ events = 1       \* init() navigates to the hash the tab was opened on
    /\ going = NoRoute
    /\ navSeq = 0
    /\ current = NoRoute
    /\ mountSeq = [r \in Route |-> 0]
    /\ loads = {}
    /\ slices = <<>>
    /\ mounted = [r \in Route |-> 0]
    /\ container = [what |-> "nothing", nav |-> 0]
    /\ moves = 0
    /\ faults = 0

\* The user, or navigateTo, changes the hash.
ChangeHash(h) ==
    /\ Idle
    /\ moves < MaxMoves
    /\ h # hash
    /\ hash' = h
    /\ events' = events + 1
    /\ moves' = moves + 1
    /\ UNCHANGED <<going, navSeq, current, mountSeq, loads, slices, mounted, container, faults>>

\* Mutation: unmount does not move the mount sequence on.
UnmountKeepingToken(r) ==
    /\ \E d \in BOOLEAN :
          slices' = [i \in Slice |-> IF i = mounted[r] THEN Ended(slices[i], d) ELSE slices[i]]
    /\ mounted' = [mounted EXCEPT ![r] = 0]
    /\ UNCHANGED <<mountSeq, faults>>

\* unmount of the adapter: pending loads become stale, the slice is disposed.
Unmount(r) ==
    /\ mountSeq' = [mountSeq EXCEPT ![r] = @ + 1]
    /\ \/ /\ \E d \in BOOLEAN :
                slices' = [i \in Slice |-> IF i = mounted[r] THEN Ended(slices[i], d)
                                           ELSE slices[i]]
          /\ mounted' = [mounted EXCEPT ![r] = 0]
          /\ UNCHANGED faults
       \/ /\ CleanupMayThrow
          /\ mounted[r] # 0
          /\ Fault
          /\ slices' = [slices EXCEPT ![mounted[r]] = Stuck(@)]
          /\ UNCHANGED mounted

\* A hashchange is handled: navigate(location.hash) leaves the current route,
\* whether or not its unmount throws ...
Leave ==
    /\ Idle
    /\ events > 0
    /\ events' = events - 1
    /\ LET r == RouteOf[hash] IN
       \/ /\ r = NoRoute
          /\ UNCHANGED <<going, navSeq, current, mountSeq, slices, mounted, faults>>
       \/ /\ r # NoRoute
          /\ navSeq' = navSeq + 1
          /\ current' = r
          /\ going' = r
          /\ \/ current = NoRoute /\ UNCHANGED <<mountSeq, slices, mounted, faults>>
             \/ current # NoRoute /\ Unmount(current)
    /\ UNCHANGED <<hash, moves, loads, container>>

\* Mutation: a failed mount leaves the container to the page before it.
FailedQuietly(n) == UNCHANGED container

\* A mount that fails draws the error panel, unless it is not the latest any more.
Failed(n) == container' = IF n = navSeq THEN Panel(n) ELSE container

\* The adapter makes the page's slice for navigation n: createRouteSlice throws;
\* or the first render or start() does, and the slice is disposed; or all is well.
\* start() may have dispatched.
MountSlice(r, n) ==
    \/ /\ Fault
       /\ UNCHANGED <<slices, mounted>>
       /\ Failed(n)
    \/ /\ Fault
       /\ \E d \in BOOLEAN : slices' = Append(slices, Ended(NewSlice(r, n, d), FALSE))
       /\ mounted' = [mounted EXCEPT ![r] = 0]
       /\ Failed(n)
    \/ /\ \E d \in BOOLEAN : slices' = Append(slices, NewSlice(r, n, d))
       /\ mounted' = [mounted EXCEPT ![r] = Len(slices) + 1]
       /\ container' = Page(n)
       /\ UNCHANGED faults

\* A guard that says no bounces the user home, and nothing is mounted.
Bounce(r) ==
    /\ going = r
    /\ r \in Refused
    /\ hash' = Home
    /\ events' = events + 1
    /\ going' = NoRoute
    /\ UNCHANGED <<navSeq, current, mountSeq, loads, slices, mounted, container, moves, faults>>

\* ... and enters the route: a page in memory is mounted at once ...
EnterEager(r) ==
    /\ going = r
    /\ r \in Route \ (Refused \cup Lazy)
    /\ going' = NoRoute
    /\ mountSeq' = [mountSeq EXCEPT ![r] = @ + 1]
    /\ MountSlice(r, navSeq)
    /\ UNCHANGED <<location, navSeq, current, loads>>

\* Mutations: the token is taken before it is moved on; a module being fetched is
\* not asked for again.
EnterLazyBefore(r) ==
    /\ going = r
    /\ r \in Lazy \ Refused
    /\ going' = NoRoute
    /\ mountSeq' = [mountSeq EXCEPT ![r] = @ + 1]
    /\ loads' = loads \cup {[route |-> r, token |-> mountSeq[r], nav |-> navSeq]}
    /\ UNCHANGED <<location, navSeq, current, slices, mounted, container, faults>>
EnterLazyOnce(r) ==
    /\ going = r
    /\ r \in Lazy \ Refused
    /\ going' = NoRoute
    /\ mountSeq' = [mountSeq EXCEPT ![r] = @ + 1]
    /\ loads' = IF \E l \in loads : l.route = r THEN loads
                ELSE loads \cup {[route |-> r, token |-> mountSeq'[r], nav |-> navSeq]}
    /\ UNCHANGED <<location, navSeq, current, slices, mounted, container, faults>>

\* ... and a lazy one is fetched first.
EnterLazy(r) ==
    /\ going = r
    /\ r \in Lazy \ Refused
    /\ going' = NoRoute
    /\ mountSeq' = [mountSeq EXCEPT ![r] = @ + 1]
    /\ loads' = loads \cup {[route |-> r, token |-> mountSeq'[r], nav |-> navSeq]}
    /\ UNCHANGED <<location, navSeq, current, slices, mounted, container, faults>>

\* The module of a lazy page arrives, or its fetch is rejected.
LoadSettles(l) ==
    /\ Idle
    /\ loads' = loads \ {l}
    /\ \/ /\ Fault
          /\ Failed(l.nav)
          /\ UNCHANGED <<slices, mounted>>
       \/ /\ l.token # mountSeq[l.route]
          /\ UNCHANGED <<slices, mounted, container, faults>>
       \/ /\ l.token = mountSeq[l.route]
          /\ MountSlice(l.route, l.nav)
    /\ UNCHANGED <<location, going, navSeq, current, mountSeq>>

\* A listener of the slice fires, or an effect of its start() resumes and finds
\* isActive() true: it dispatches.
Dispatch(i) ==
    /\ Idle
    /\ slices[i].listening \/ slices[i].active
    /\ slices' = [slices EXCEPT ![i] = Notified(@)]
    /\ UNCHANGED <<location, going, navSeq, current, mountSeq, loads, mounted, container, faults>>

\* Mutation: the microtask does not look whether the store was disposed.
DrawAnyway(i) ==
    /\ going = NoRoute
    /\ slices[i].scheduled
    /\ slices' = [slices EXCEPT ![i].scheduled = FALSE]
    /\ container' = Page(slices[i].nav)
    /\ UNCHANGED <<location, going, navSeq, current, mountSeq, loads, mounted, faults>>

\* The microtask of a notification: a store disposed meanwhile draws nothing; a
\* render that throws disposes the route's slice and draws the error panel.
Draw(i) ==
    LET r == slices[i].route
        run == [slices EXCEPT ![i].scheduled = FALSE]
    IN
    /\ going = NoRoute
    /\ slices[i].scheduled
    /\ \/ /\ slices[i].disposed
          /\ slices' = run
          /\ UNCHANGED <<mounted, container, faults>>
       \/ /\ ~slices[i].disposed
          /\ slices' = run
          /\ container' = Page(slices[i].nav)
          /\ UNCHANGED <<mounted, faults>>
       \/ /\ ~slices[i].disposed
          /\ Fault
          /\ \E d \in BOOLEAN :
                slices' = [k \in Slice |-> IF k = mounted[r] THEN Ended(run[k], d) ELSE run[k]]
          /\ mounted' = [mounted EXCEPT ![r] = 0]
          /\ container' = Panel(slices[i].nav)
       \/ /\ ~slices[i].disposed
          /\ CleanupMayThrow
          /\ mounted[r] # 0
          /\ Fault
          /\ slices' = [run EXCEPT ![mounted[r]] = Stuck(@)]
          /\ UNCHANGED <<mounted, container>>
    /\ UNCHANGED <<location, going, navSeq, current, mountSeq, loads>>

----------------------------------------------------------------------------
Enter(r) == Bounce(r) \/ EnterEager(r) \/ EnterLazy(r)

Next ==
    \/ \E h \in Hash : ChangeHash(h)
    \/ Leave
    \/ \E r \in Route : Enter(r)
    \/ \E l \in loads : LoadSettles(l)
    \/ \E i \in Slice : Dispatch(i) \/ Draw(i)

Spec == Init /\ [][Next]_vars

(* The event loop comes to every task and microtask that is queued, and a fetch *)
(* is answered or fails.  Microtasks run between tasks, so the tasks are only   *)
(* enabled again and again: the loop does not pass one over for ever.           *)
Fairness ==
    /\ SF_vars(Leave) /\ WF_vars(\E r \in Route : Enter(r))
    /\ SF_vars(\E l \in loads : LoadSettles(l))
    /\ WF_vars(\E i \in Slice : Draw(i))

FairSpec == Spec /\ Fairness
=============================================================================
