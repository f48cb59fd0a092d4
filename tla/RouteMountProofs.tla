------------------------- MODULE RouteMountProofs -------------------------
(***************************************************************************)
(* Proofs about RouteMount, for any hashes, routes, guards, lazy pages and *)
(* faults: its type invariant; and, when cleanups do not throw, that only  *)
(* the slice of the latest navigation is alive, that only it draws, and    *)
(* that what the hash asks for is what the container shows.                *)
(***************************************************************************)
EXTENDS RouteMountProperties, SequenceTheorems, TLAPS

USE RouteAssumption, HomeAssumption, BoundAssumption

----------------------------------------------------------------------------
(* Slices *)

\* What disposing, dispatching and a throwing cleanup make of a slice.
LEMMA SliceFacts ==
    ASSUME NEW s \in SliceRecord, NEW d \in BOOLEAN
    PROVE  /\ Notified(s) \in SliceRecord /\ Ended(s, d) \in SliceRecord /\ Stuck(s) \in SliceRecord
           /\ [s EXCEPT !.scheduled = FALSE] \in SliceRecord
  BY DEF SliceRecord, Notified, Ended, Stuck

LEMMA EndedFacts ==
    ASSUME NEW s \in SliceRecord, NEW d \in BOOLEAN
    PROVE  /\ Ended(s, d).route = s.route /\ Ended(s, d).nav = s.nav
           /\ ~Ended(s, d).listening /\ ~Ended(s, d).active /\ Ended(s, d).disposed
  BY DEF SliceRecord, Notified, Ended

\* Every slice stays, with its route and navigation; none comes back to life.
Calmed(t) ==
    /\ t \in Seq(SliceRecord)
    /\ DOMAIN t = Slice
    /\ \A i \in Slice :
          /\ t[i].route = slices[i].route
          /\ t[i].nav = slices[i].nav
          /\ t[i].listening => slices[i].listening
          /\ t[i].active => slices[i].active
          /\ slices[i].disposed => t[i].disposed

\* The element of a sequence of slices.
LEMMA SliceType ==
    ASSUME TypeInvariant, NEW i \in Slice
    PROVE  slices[i] \in SliceRecord
  BY ElementOfSeq DEF TypeInvariant, TypeOK, Slice

\* One slice rewritten.
LEMMA OneSlice ==
    ASSUME TypeInvariant, NEW i \in Slice, NEW e \in SliceRecord,
           e.route = slices[i].route, e.nav = slices[i].nav,
           e.listening => slices[i].listening, e.active => slices[i].active,
           slices[i].disposed => e.disposed
    PROVE  Calmed([slices EXCEPT ![i] = e])
  <1> DEFINE t == [slices EXCEPT ![i] = e]
  <1>1. t \in Seq(SliceRecord) /\ DOMAIN t = Slice
    <2>1. slices \in Seq(SliceRecord)
      BY DEF TypeInvariant, TypeOK
    <2> QED BY <2>1, ExceptSeq DEF Slice
  <1>2. t[i] = e /\ \A j \in Slice : j # i => t[j] = slices[j]
    BY DEF Slice
  <1> QED BY <1>1, <1>2 DEF Calmed

\* Slice k ended, the others as in run.
WithEnded(run, k, d) == [i \in Slice |-> IF i = k THEN Ended(run[i], d) ELSE run[i]]

Over(s) == ~s.listening /\ ~s.active /\ s.disposed

LEMMA EndedSlice ==
    ASSUME TypeInvariant, NEW run, Calmed(run), NEW k, NEW d \in BOOLEAN
    PROVE  /\ Calmed(WithEnded(run, k, d))
           /\ \A i \in Slice : i = k => Over(WithEnded(run, k, d)[i])
  <1> DEFINE t == WithEnded(run, k, d)
  <1>1. \A i \in Slice : run[i] \in SliceRecord
    BY ElementOfSeq DEF Calmed
  <1>2. \A i \in Slice : t[i] \in SliceRecord
    BY <1>1, SliceFacts DEF WithEnded
  <1>3. t \in Seq(SliceRecord) /\ DOMAIN t = Slice
    <2>1. DOMAIN t = DOMAIN run /\ run \in Seq(SliceRecord)
      BY DEF Calmed, WithEnded
    <2>2. Len(run) \in Nat /\ DOMAIN run = 1..Len(run)
      BY <2>1, LenProperties
    <2>3. t \in [1..Len(run) -> SliceRecord]
      <3>1. t = [i \in Slice |-> t[i]]
        BY DEF WithEnded
      <3> HIDE DEF t
      <3> QED BY <3>1, <1>2, <2>1, <2>2 DEF Calmed
    <2> HIDE DEF t
    <2>4. DOMAIN t = Slice
      BY DEF t, WithEnded
    <2> QED BY <2>1, <2>2, <2>3, <2>4 DEF Calmed
  <1>4. \A i \in Slice : t[i] = IF i = k THEN Ended(run[i], d) ELSE run[i]
    BY DEF WithEnded
  <1> HIDE DEF t
  <1>5. ASSUME NEW i \in Slice
        PROVE /\ t[i].route = slices[i].route /\ t[i].nav = slices[i].nav
              /\ t[i].listening => slices[i].listening
              /\ t[i].active => slices[i].active
              /\ slices[i].disposed => t[i].disposed
              /\ i = k => Over(t[i])
    BY <1>1, <1>4, EndedFacts DEF Calmed, Over
  <1>6. Calmed(t)
    BY <1>3, <1>5 DEF Calmed
  <1> QED BY <1>5, <1>6 DEF t

----------------------------------------------------------------------------
(* Type correctness *)

LEMMA InitType == Init => TypeInvariant
  BY DEF Init, TypeInvariant, TypeOK, RefsOK, Slice, Shown

\* Slices that calm down keep what the type invariant says of slices.
LEMMA CalmedType ==
    ASSUME TypeInvariant, Calmed(slices'),
           navSeq' \in Nat, navSeq' >= navSeq,
           mounted' \in [Route -> Nat], \A r \in Route : mounted'[r] \in {0, mounted[r]}
    PROVE  /\ slices' \in Seq(SliceRecord)
           /\ \A i \in Slice' : slices'[i].nav \in 1..navSeq'
           /\ \A r \in Route :
                mounted'[r] # 0 => mounted'[r] \in Slice' /\ slices'[mounted'[r]].route = r
  <1>1. Slice' = Slice
    BY DEF Calmed, Slice
  <1>2. ASSUME NEW i \in Slice PROVE slices'[i].nav \in 1..navSeq'
    <2>1. slices'[i].nav = slices[i].nav
      BY DEF Calmed
    <2>2. slices[i].nav \in 1..navSeq /\ navSeq \in Nat
      BY DEF TypeInvariant, TypeOK, RefsOK
    <2> QED BY <2>1, <2>2
  <1>3. ASSUME NEW r \in Route, mounted'[r] # 0
        PROVE  mounted'[r] \in Slice /\ slices'[mounted'[r]].route = r
    BY <1>3 DEF Calmed, TypeInvariant, RefsOK
  <1> QED BY <1>1, <1>2, <1>3 DEF Calmed

\* A slice dispatches, runs its notification or is stuck.
LEMMA SliceStep ==
    ASSUME TypeInvariant, NEW i \in Slice
    PROVE  /\ Calmed([slices EXCEPT ![i] = Notified(@)])
           /\ Calmed([slices EXCEPT ![i].scheduled = FALSE])
           /\ Calmed([slices EXCEPT ![i] = Stuck(@)])
           /\ Calmed(slices)
  <1>1. slices[i] \in SliceRecord
    BY SliceType
  <1>2. /\ Notified(slices[i]) \in SliceRecord /\ Stuck(slices[i]) \in SliceRecord
        /\ [slices[i] EXCEPT !.scheduled = FALSE] \in SliceRecord
    BY <1>1, SliceFacts
  <1>3. Calmed([slices EXCEPT ![i] = Notified(slices[i])])
    BY <1>1, <1>2, OneSlice DEF Notified, SliceRecord
  <1>4. Calmed([slices EXCEPT ![i] = [slices[i] EXCEPT !.scheduled = FALSE]])
    BY <1>1, <1>2, OneSlice DEF SliceRecord
  <1>5. Calmed([slices EXCEPT ![i] = Stuck(slices[i])])
    BY <1>1, <1>2, OneSlice DEF Stuck, SliceRecord
  <1>6. Calmed(slices)
    BY DEF Calmed, TypeInvariant, TypeOK, Slice
  <1> QED BY <1>3, <1>4, <1>5, <1>6

\* unmount of a route.
LEMMA UnmountFacts ==
    ASSUME TypeInvariant, NEW r \in Route, Unmount(r)
    PROVE  /\ Calmed(slices')
           /\ mountSeq' = [mountSeq EXCEPT ![r] = @ + 1]
           /\ mounted' \in [Route -> Nat] /\ \A q \in Route : mounted'[q] \in {0, mounted[q]}
           /\ faults' \in Nat
           /\ ~CleanupMayThrow => \A i \in Slice :
                i = mounted[r] => Over(slices'[i])
  <1>1. CASE /\ \E d \in BOOLEAN :
                  slices' = [i \in Slice |-> IF i = mounted[r] THEN Ended(slices[i], d)
                                             ELSE slices[i]]
             /\ mounted' = [mounted EXCEPT ![r] = 0]
             /\ UNCHANGED faults
    <2>1. PICK d \in BOOLEAN :
              slices' = [i \in Slice |-> IF i = mounted[r] THEN Ended(slices[i], d) ELSE slices[i]]
      BY <1>1
    <2>2. Calmed(slices)
      BY DEF Calmed, Slice, TypeInvariant, TypeOK
    <2>3. slices' = WithEnded(slices, mounted[r], d)
      BY <2>1 DEF WithEnded
    <2>4. Calmed(slices') /\ \A i \in Slice : i = mounted[r] => Over(slices'[i])
      BY <2>2, <2>3, EndedSlice
    <2> QED BY <1>1, <2>4 DEF TypeInvariant, TypeOK, Unmount
  <1>2. CASE /\ CleanupMayThrow
             /\ mounted[r] # 0
             /\ Fault
             /\ slices' = [slices EXCEPT ![mounted[r]] = Stuck(@)]
             /\ UNCHANGED mounted
    <2>1. mounted[r] \in Slice
      BY <1>2 DEF RefsOK, TypeInvariant
    <2>2. Calmed(slices')
      BY <1>2, <2>1, SliceStep
    <2> QED BY <1>2, <2>2 DEF Unmount, Fault, TypeInvariant, TypeOK
  <1> QED BY <1>1, <1>2 DEF Unmount

\* The slices, and what is behind disposeMountedSlice, after a mount.
LEMMA MountFacts ==
    ASSUME TypeInvariant, NEW r \in Route, NEW n \in 1..navSeq, MountSlice(r, n),
           navSeq' = navSeq
    PROVE  /\ slices' \in Seq(SliceRecord)
           /\ Slice \subseteq Slice'
           /\ \A i \in Slice : slices'[i] = slices[i]
           /\ \A i \in Slice' \ Slice :
                 slices'[i].route = r /\ slices'[i].nav = n /\ (Alive(i)' => mounted'[r] = i)
           /\ mounted' \in [Route -> Nat]
           /\ \A q \in Route : q # r => mounted'[q] = mounted[q]
           /\ mounted'[r] # 0 => mounted'[r] \in Slice' /\ (slices'[mounted'[r]]).route = r
           /\ container' \in Shown /\ container'.nav <= navSeq
           /\ faults' \in Nat
           /\ container' # container => container'.nav = n
  <1> USE DEF TypeInvariant, TypeOK
  <1>1. navSeq \in Nat /\ n \in Nat /\ Panel(n) \in Shown /\ Page(n) \in Shown
        /\ Panel(n).nav = n /\ Page(n).nav = n
    BY DEF Panel, Page, Shown
  <1>2. Failed(n) => container' \in Shown /\ container'.nav <= navSeq
                     /\ (container' # container => container'.nav = n)
    BY <1>1 DEF Failed, RefsOK
  <1>3. \A d \in BOOLEAN : NewSlice(r, n, d) \in SliceRecord
    BY <1>1 DEF NewSlice, SliceRecord
  <1>4. ASSUME NEW e \in SliceRecord, slices' = Append(slices, e)
        PROVE  /\ slices' \in Seq(SliceRecord) /\ Slice' = Slice \cup {Len(slices) + 1}
               /\ Len(slices) + 1 \notin Slice /\ Len(slices) + 1 \in Nat \ {0}
               /\ slices'[Len(slices) + 1] = e
               /\ \A i \in Slice : slices'[i] = slices[i]
    BY <1>4, AppendProperties, LenProperties DEF Slice
  <1>5. CASE Fault /\ UNCHANGED <<slices, mounted>> /\ Failed(n)
    BY <1>2, <1>5 DEF Fault, RefsOK, Slice
  <1>6. CASE /\ Fault
             /\ \E d \in BOOLEAN : slices' = Append(slices, Ended(NewSlice(r, n, d), FALSE))
             /\ mounted' = [mounted EXCEPT ![r] = 0]
             /\ Failed(n)
    <2>1. PICK d \in BOOLEAN : slices' = Append(slices, Ended(NewSlice(r, n, d), FALSE))
      BY <1>6
    <2> DEFINE e == Ended(NewSlice(r, n, d), FALSE)
    <2>2. /\ e \in SliceRecord /\ e.route = r /\ e.nav = n
          /\ ~e.listening /\ ~e.active /\ e.disposed
      BY <1>3, SliceFacts, EndedFacts DEF NewSlice
    <2> HIDE DEF e
    <2>3. /\ slices' \in Seq(SliceRecord) /\ Slice' = Slice \cup {Len(slices) + 1}
          /\ slices'[Len(slices) + 1] = e /\ \A i \in Slice : slices'[i] = slices[i]
      BY <1>4, <2>1, <2>2 DEF e
    <2>4. /\ mounted' \in [Route -> Nat] /\ mounted'[r] = 0
          /\ \A q \in Route : q # r => mounted'[q] = mounted[q]
      BY <1>6
    <2>5. \A i \in Slice' \ Slice :
              slices'[i].route = r /\ slices'[i].nav = n /\ ~Alive(i)'
      BY <2>2, <2>3 DEF Alive
    <2>6. faults' \in Nat /\ Failed(n)
      BY <1>6 DEF Fault
    <2> QED BY <1>2, <2>3, <2>4, <2>5, <2>6
  <1>7. CASE /\ \E d \in BOOLEAN : slices' = Append(slices, NewSlice(r, n, d))
             /\ mounted' = [mounted EXCEPT ![r] = Len(slices) + 1]
             /\ container' = Page(n)
             /\ UNCHANGED faults
    <2>1. PICK d \in BOOLEAN : slices' = Append(slices, NewSlice(r, n, d))
      BY <1>7
    <2>2. NewSlice(r, n, d).route = r /\ NewSlice(r, n, d).nav = n
      BY DEF NewSlice
    <2>3. /\ slices' \in Seq(SliceRecord) /\ Slice' = Slice \cup {Len(slices) + 1}
          /\ slices'[Len(slices) + 1] = NewSlice(r, n, d)
          /\ \A i \in Slice : slices'[i] = slices[i]
          /\ Len(slices) + 1 \in Nat \ {0}
      BY <1>3, <1>4, <2>1
    <2>4. /\ mounted' \in [Route -> Nat] /\ mounted'[r] = Len(slices) + 1
          /\ \A q \in Route : q # r => mounted'[q] = mounted[q]
      BY <1>7, <2>3
    <2>5. \A i \in Slice' \ Slice : slices'[i].route = r /\ slices'[i].nav = n /\ mounted'[r] = i
      BY <2>2, <2>3, <2>4
    <2>6. mounted'[r] \in Slice' /\ (slices'[mounted'[r]]).route = r
      BY <2>2, <2>3, <2>4
    <2>7. container' \in Shown /\ container'.nav <= navSeq /\ container'.nav = n
      BY <1>1, <1>7
    <2>8. faults' \in Nat
      BY <1>7
    <2> QED BY <2>3, <2>4, <2>5, <2>6, <2>7, <2>8
  <1> QED BY <1>5, <1>6, <1>7 DEF MountSlice

\* The tokens of loads stay behind the mount sequences.
TokensOK == \A l \in loads : l.nav \in 1..navSeq /\ l.token \in 1..mountSeq[l.route]

LEMMA MovedOn ==
    ASSUME TypeInvariant, NEW r \in Route, mountSeq' = [mountSeq EXCEPT ![r] = @ + 1],
           loads' = loads, navSeq' \in Nat, navSeq' >= navSeq
    PROVE  /\ mountSeq' \in [Route -> Nat]
           /\ mountSeq'[r] = mountSeq[r] + 1
           /\ \A q \in Route : q # r => mountSeq'[q] = mountSeq[q]
           /\ TokensOK'
  <1>1. /\ mountSeq' \in [Route -> Nat]
        /\ mountSeq'[r] = mountSeq[r] + 1
        /\ \A q \in Route : q # r => mountSeq'[q] = mountSeq[q]
    BY DEF TypeInvariant, TypeOK
  <1>2. ASSUME NEW l \in loads PROVE l.nav \in 1..navSeq' /\ l.token \in 1..mountSeq'[l.route]
    <2>1. l.route \in Route /\ l.nav \in 1..navSeq /\ l.token \in 1..mountSeq[l.route]
      BY DEF TypeInvariant, TypeOK, RefsOK, Load
    <2>2. mountSeq[l.route] \in Nat /\ mountSeq'[l.route] \in Nat
          /\ mountSeq[l.route] <= mountSeq'[l.route]
      <3>1. mountSeq[l.route] \in Nat
        BY <2>1 DEF TypeInvariant, TypeOK
      <3>2. l.route \in Route
        BY <2>1
      <3> QED BY <1>1, <3>1, <3>2
    <2>3. navSeq \in Nat
      BY DEF TypeInvariant, TypeOK
    <2> QED BY <2>1, <2>2, <2>3
  <1> QED BY <1>1, <1>2 DEF TokensOK

LEMMA LeaveType == TypeInvariant /\ Leave => TypeInvariant'
  <1> SUFFICES ASSUME TypeInvariant, Leave PROVE TypeInvariant'
    OBVIOUS
  <1>1. hash' \in Hash /\ events' \in Nat /\ UNCHANGED <<hash, moves, loads, container>>
    BY DEF Leave, TypeInvariant, TypeOK
  <1>2. CASE RouteOf[hash] = NoRoute
    <2>1. UNCHANGED <<going, navSeq, current, mountSeq, slices, mounted, faults>>
      BY <1>2 DEF Leave
    <2> QED BY <1>1, <2>1 DEF TypeInvariant, TypeOK, RefsOK, Slice
  <1>3. CASE RouteOf[hash] # NoRoute
    <2>1. /\ navSeq' = navSeq + 1 /\ current' = RouteOf[hash] /\ going' = RouteOf[hash]
          /\ RouteOf[hash] \in Route /\ navSeq' \in Nat /\ navSeq' >= navSeq
      BY <1>3 DEF Leave, TypeInvariant, TypeOK
    <2>2. /\ Calmed(slices') /\ TokensOK' /\ mountSeq' \in [Route -> Nat] /\ faults' \in Nat
          /\ mounted' \in [Route -> Nat] /\ \A q \in Route : mounted'[q] \in {0, mounted[q]}
      <3>1. CASE current = NoRoute /\ UNCHANGED <<mountSeq, slices, mounted, faults>>
        <4>1. Calmed(slices)
          BY DEF Calmed, Slice, TypeInvariant, TypeOK
        <4>2. TokensOK'
          BY <1>1, <2>1, <3>1 DEF TokensOK, TypeInvariant, TypeOK, RefsOK, Load
        <4> QED BY <3>1, <4>1, <4>2 DEF TypeInvariant, TypeOK
      <3>2. CASE current # NoRoute /\ Unmount(current)
        <4>1. current \in Route
          BY <3>2 DEF TypeInvariant, TypeOK
        <4> QED BY <1>1, <2>1, <3>2, <4>1, UnmountFacts, MovedOn
      <3> QED BY <1>3, <3>1, <3>2 DEF Leave
    <2>3. /\ slices' \in Seq(SliceRecord)
          /\ \A i \in Slice' : slices'[i].nav \in 1..navSeq'
          /\ \A r \in Route :
                mounted'[r] # 0 => mounted'[r] \in Slice' /\ slices'[mounted'[r]].route = r
      BY <2>1, <2>2, CalmedType
    <2>4. TypeOK'
      BY <1>1, <2>1, <2>2, <2>3 DEF TypeInvariant, TypeOK
    <2>5. container'.nav <= navSeq'
      BY <1>1, <2>1 DEF TypeInvariant, TypeOK, RefsOK, Shown
    <2>6. going' = current' /\ navSeq' > 0
      BY <2>1 DEF TypeInvariant, TypeOK
    <2>7. RefsOK'
      BY <2>2, <2>3, <2>5, <2>6 DEF RefsOK, TokensOK
    <2> QED BY <2>4, <2>7 DEF TypeInvariant
  <1> QED BY <1>2, <1>3

\* A slice is made for navigation n and nothing else moves but tokens.
LEMMA MountType ==
    ASSUME TypeInvariant, NEW r \in Route, NEW n \in 1..navSeq, MountSlice(r, n),
           UNCHANGED <<location, navSeq, current>>, going' \in {going, NoRoute},
           loads' \subseteq loads, mountSeq' \in [Route -> Nat],
           \A q \in Route : mountSeq[q] <= mountSeq'[q]
    PROVE  TypeInvariant'
  <1>1. /\ slices' \in Seq(SliceRecord)
        /\ Slice \subseteq Slice'
        /\ \A i \in Slice : slices'[i] = slices[i]
        /\ \A i \in Slice' \ Slice : slices'[i].route = r /\ slices'[i].nav = n
        /\ mounted' \in [Route -> Nat]
        /\ \A q \in Route : q # r => mounted'[q] = mounted[q]
        /\ mounted'[r] # 0 => mounted'[r] \in Slice' /\ (slices'[mounted'[r]]).route = r
        /\ container' \in Shown /\ container'.nav <= navSeq
        /\ faults' \in Nat
    BY MountFacts
  <1>2. TypeOK'
    BY <1>1 DEF TypeInvariant, TypeOK, location
  <1>3. \A l \in loads' : l.nav \in 1..navSeq' /\ l.token \in 1..mountSeq'[l.route]
    <2> SUFFICES ASSUME NEW l \in loads'
                 PROVE  l.nav \in 1..navSeq' /\ l.token \in 1..mountSeq'[l.route]
      OBVIOUS
    <2>1. l.route \in Route /\ l.nav \in 1..navSeq /\ l.token \in 1..mountSeq[l.route]
      BY DEF TypeInvariant, TypeOK, RefsOK, Load
    <2>2. mountSeq[l.route] \in Nat /\ mountSeq'[l.route] \in Nat
          /\ mountSeq[l.route] <= mountSeq'[l.route]
      BY <2>1 DEF TypeInvariant, TypeOK
    <2> QED BY <2>1, <2>2
  <1>4. \A i \in Slice' : slices'[i].nav \in 1..navSeq'
    BY <1>1 DEF TypeInvariant, RefsOK
  <1>5. ASSUME NEW q \in Route, mounted'[q] # 0
        PROVE  mounted'[q] \in Slice' /\ slices'[mounted'[q]].route = q
    <2>1. CASE q = r
      BY <1>1, <1>5, <2>1
    <2>2. CASE q # r
      <3>1. mounted[q] # 0 /\ mounted'[q] = mounted[q]
        BY <1>1, <1>5, <2>2
      <3>2. mounted[q] \in Slice /\ slices[mounted[q]].route = q
        BY <3>1 DEF TypeInvariant, RefsOK
      <3> QED BY <1>1, <3>1, <3>2
    <2> QED BY <2>1, <2>2
  <1>6. container'.nav <= navSeq' /\ (going' # NoRoute => going' = current' /\ navSeq' > 0)
    BY <1>1 DEF TypeInvariant, RefsOK
  <1> QED BY <1>2, <1>3, <1>4, <1>5, <1>6 DEF TypeInvariant, RefsOK

LEMMA EnterType == ASSUME TypeInvariant, NEW r \in Route, Enter(r) PROVE TypeInvariant'
  <1>1. CASE Bounce(r)
    BY <1>1 DEF Bounce, TypeInvariant, TypeOK, RefsOK, Slice
  <1>2. CASE EnterEager(r)
    <2>1. navSeq \in 1..navSeq
      BY <1>2 DEF EnterEager, TypeInvariant, TypeOK, RefsOK
    <2>2. mountSeq' \in [Route -> Nat] /\ \A q \in Route : mountSeq[q] <= mountSeq'[q]
      BY <1>2 DEF EnterEager, TypeInvariant, TypeOK
    <2>3. /\ MountSlice(r, navSeq) /\ UNCHANGED <<location, navSeq, current>>
          /\ going' \in {going, NoRoute} /\ loads' \subseteq loads
      BY <1>2 DEF EnterEager
    <2> QED BY <2>1, <2>2, <2>3, MountType
  <1>3. CASE EnterLazy(r)
    <2> DEFINE l == [route |-> r, token |-> mountSeq[r] + 1, nav |-> navSeq]
    <2>1. /\ mountSeq' \in [Route -> Nat] /\ mountSeq'[r] = mountSeq[r] + 1
          /\ \A q \in Route : q # r => mountSeq'[q] = mountSeq[q]
          /\ mountSeq[r] \in Nat
      BY <1>3 DEF EnterLazy, TypeInvariant, TypeOK
    <2>2. loads' = loads \cup {l} /\ l \in Load /\ navSeq \in 1..navSeq
      BY <1>3, <2>1 DEF EnterLazy, TypeInvariant, TypeOK, RefsOK, Load
    <2>3. UNCHANGED <<location, navSeq, current, slices, mounted, container, faults>> /\ going' = NoRoute
      BY <1>3 DEF EnterLazy, location
    <2>4. TypeOK'
      BY <2>1, <2>2, <2>3 DEF TypeInvariant, TypeOK, location
    <2>5. ASSUME NEW k \in loads' PROVE k.nav \in 1..navSeq' /\ k.token \in 1..mountSeq'[k.route]
      <3>1. CASE k = l
        BY <2>1, <2>2, <2>3, <3>1
      <3>2. CASE k \in loads
        <4>1. k.route \in Route /\ k.nav \in 1..navSeq /\ k.token \in 1..mountSeq[k.route]
          BY <3>2 DEF TypeInvariant, TypeOK, RefsOK, Load
        <4>2. mountSeq[k.route] \in Nat /\ mountSeq'[k.route] \in Nat
          BY <2>1, <4>1 DEF TypeInvariant, TypeOK
        <4>3. mountSeq[k.route] <= mountSeq'[k.route]
          BY <2>1, <4>1, <4>2
        <4> QED BY <2>3, <4>1, <4>2, <4>3
      <3> QED BY <2>2, <3>1, <3>2
    <2>6. RefsOK'
      BY <2>3, <2>5 DEF TypeInvariant, RefsOK, Slice
    <2> QED BY <2>4, <2>6 DEF TypeInvariant
  <1> QED BY <1>1, <1>2, <1>3 DEF Enter

LEMMA LoadSettlesType == ASSUME TypeInvariant, NEW l \in loads, LoadSettles(l) PROVE TypeInvariant'
  <1>1. /\ l.route \in Route /\ l.nav \in 1..navSeq
        /\ loads' \subseteq loads /\ UNCHANGED <<location, going, navSeq, current, mountSeq>>
    BY DEF LoadSettles, TypeInvariant, TypeOK, RefsOK, Load
  <1>2. CASE MountSlice(l.route, l.nav)
    <2>1. mountSeq' \in [Route -> Nat] /\ \A q \in Route : mountSeq[q] <= mountSeq'[q]
      BY <1>1 DEF TypeInvariant, TypeOK
    <2> QED BY <1>1, <1>2, <2>1, MountType
  <1>3. CASE UNCHANGED <<slices, mounted>> /\ faults' \in Nat /\ (Failed(l.nav) \/ UNCHANGED container)
    <2>1. container' \in Shown /\ container'.nav <= navSeq
      BY <1>1, <1>3 DEF Failed, Panel, Shown, TypeInvariant, TypeOK, RefsOK
    <2> QED BY <1>1, <1>3, <2>1 DEF TypeInvariant, TypeOK, RefsOK, location, Slice
  <1>4. faults \in Nat
    BY DEF TypeInvariant, TypeOK
  <1> QED BY <1>2, <1>3, <1>4 DEF LoadSettles, Fault

\* A step that only calms slices and draws.
LEMMA CalmType ==
    ASSUME TypeInvariant, Calmed(slices'), UNCHANGED <<location, going, navSeq, current, mountSeq, loads>>,
           mounted' \in [Route -> Nat], \A r \in Route : mounted'[r] \in {0, mounted[r]},
           container' \in Shown, container'.nav <= navSeq, faults' \in Nat
    PROVE  TypeInvariant'
  <1>1. navSeq' \in Nat /\ navSeq' >= navSeq
    BY DEF TypeInvariant, TypeOK
  <1>2. /\ slices' \in Seq(SliceRecord)
        /\ \A i \in Slice' : slices'[i].nav \in 1..navSeq'
        /\ \A r \in Route :
              mounted'[r] # 0 => mounted'[r] \in Slice' /\ slices'[mounted'[r]].route = r
    BY <1>1, CalmedType
  <1> QED BY <1>2 DEF TypeInvariant, TypeOK, RefsOK, location

LEMMA DispatchFacts ==
    ASSUME TypeInvariant, NEW i \in Slice, Dispatch(i)
    PROVE  Calmed(slices')
  BY SliceStep DEF Dispatch

\* What a notification does.
LEMMA DrawFacts ==
    ASSUME TypeInvariant, NEW i \in Slice, Draw(i)
    PROVE  /\ Calmed(slices')
           /\ mounted' \in [Route -> Nat] /\ \A r \in Route : mounted'[r] \in {0, mounted[r]}
           /\ \A r \in Route : r # slices[i].route => mounted'[r] = mounted[r]
           /\ \/ container' = container
              \/ ~slices[i].disposed /\ container' \in {Page(slices[i].nav), Panel(slices[i].nav)}
           /\ faults' \in Nat
           /\ UNCHANGED <<location, going, navSeq, current, mountSeq, loads>>
           /\ \A k \in Slice : mounted'[slices[i].route] # mounted[slices[i].route]
                 => (k = mounted[slices[i].route] => ~Alive(k)')
  <1> DEFINE r == slices[i].route
             run == [slices EXCEPT ![i].scheduled = FALSE]
  <1>1. Calmed(run) /\ r \in Route
    BY SliceStep, SliceType DEF SliceRecord
  <1>2. UNCHANGED <<location, going, navSeq, current, mountSeq, loads>>
    BY DEF Draw
  <1>3. CASE slices' = run /\ UNCHANGED <<mounted, faults>>
             /\ \/ container' = container
                \/ ~slices[i].disposed /\ container' = Page(slices[i].nav)
    BY <1>1, <1>2, <1>3 DEF TypeInvariant, TypeOK
  <1>4. CASE /\ ~slices[i].disposed
             /\ Fault
             /\ \E d \in BOOLEAN :
                   slices' = [k \in Slice |-> IF k = mounted[r] THEN Ended(run[k], d) ELSE run[k]]
             /\ mounted' = [mounted EXCEPT ![r] = 0]
             /\ container' = Panel(slices[i].nav)
    <2>1. PICK d \in BOOLEAN :
              slices' = [k \in Slice |-> IF k = mounted[r] THEN Ended(run[k], d) ELSE run[k]]
      BY <1>4
    <2>2. slices' = WithEnded(run, mounted[r], d)
      BY <2>1 DEF WithEnded
    <2>3. Calmed(slices') /\ \A k \in Slice : k = mounted[r] => Over(slices'[k])
      <3> HIDE DEF run
      <3> QED BY <1>1, <2>2, EndedSlice
    <2>4. \A k \in Slice : k = mounted[r] => ~Alive(k)'
      BY <2>3 DEF Alive, Over
    <2>5. /\ mounted' \in [Route -> Nat] /\ \A q \in Route : mounted'[q] \in {0, mounted[q]}
          /\ \A q \in Route : q # slices[i].route => mounted'[q] = mounted[q]
      BY <1>1, <1>4 DEF TypeInvariant, TypeOK
    <2>6. faults' \in Nat /\ ~slices[i].disposed /\ container' = Panel(slices[i].nav)
      <3>1. Fault /\ ~slices[i].disposed /\ container' = Panel(slices[i].nav)
        BY <1>4
      <3> QED BY <3>1 DEF Fault, TypeInvariant, TypeOK
    <2> HIDE DEF run
    <2> QED BY <1>2, <2>3, <2>4, <2>5, <2>6
  <1>5. CASE /\ mounted[r] # 0
             /\ Fault
             /\ slices' = [run EXCEPT ![mounted[r]] = Stuck(@)]
             /\ UNCHANGED <<mounted, container>>
    <2>1. mounted[r] \in Slice
      BY <1>1, <1>5 DEF TypeInvariant, RefsOK
    <2>2. Calmed(slices')
      <3> DEFINE k == mounted[r]
      <3>1. run \in Seq(SliceRecord) /\ DOMAIN run = Slice
        BY <1>1 DEF Calmed
      <3> HIDE DEF run
      <3>2. run[k] \in SliceRecord
        BY <2>1, <3>1, ElementOfSeq
      <3>3. /\ Stuck(run[k]) \in SliceRecord /\ Stuck(run[k]).route = run[k].route
            /\ Stuck(run[k]).nav = run[k].nav /\ ~Stuck(run[k]).listening
            /\ Stuck(run[k]).active = run[k].active /\ Stuck(run[k]).disposed = run[k].disposed
        BY <3>2, SliceFacts DEF Stuck, SliceRecord
      <3>4. slices' = [run EXCEPT ![k] = Stuck(run[k])]
        BY <1>5
      <3>5. slices' \in Seq(SliceRecord) /\ DOMAIN slices' = Slice
        BY <2>1, <3>1, <3>3, <3>4, ExceptSeq
      <3>6. slices'[k] = Stuck(run[k]) /\ \A j \in Slice : j # k => slices'[j] = run[j]
        BY <2>1, <3>1, <3>4
      <3> HIDE DEF k
      <3> QED BY <1>1, <3>3, <3>5, <3>6 DEF Calmed
    <2>3. /\ mounted' \in [Route -> Nat] /\ \A q \in Route : mounted'[q] \in {0, mounted[q]}
          /\ mounted' = mounted /\ container' = container /\ faults' \in Nat
      BY <1>5 DEF Fault, TypeInvariant, TypeOK
    <2> HIDE DEF r, run
    <2> QED BY <1>2, <2>2, <2>3
  <1> QED BY <1>3, <1>4, <1>5 DEF Draw

\* Every step keeps the type invariant.
LEMMA StepType == TypeInvariant /\ [Next]_vars => TypeInvariant'
  <1> SUFFICES ASSUME TypeInvariant, [Next]_vars PROVE TypeInvariant'
    OBVIOUS
  <1>1. ASSUME NEW h \in Hash, ChangeHash(h) PROVE TypeInvariant'
    BY <1>1 DEF ChangeHash, TypeInvariant, TypeOK, RefsOK, Slice
  <1>2. CASE Leave
    BY <1>2, LeaveType
  <1>3. ASSUME NEW r \in Route, Enter(r) PROVE TypeInvariant'
    BY <1>3, EnterType
  <1>4. ASSUME NEW l \in loads, LoadSettles(l) PROVE TypeInvariant'
    BY <1>4, LoadSettlesType
  <1>5. ASSUME NEW i \in Slice, Dispatch(i) PROVE TypeInvariant'
    <2>1. Calmed(slices')
      BY <1>5, DispatchFacts
    <2>2. /\ UNCHANGED <<location, going, navSeq, current, mountSeq, loads>>
          /\ UNCHANGED <<mounted, container, faults>>
      BY <1>5 DEF Dispatch
    <2>3. /\ mounted' \in [Route -> Nat] /\ \A r \in Route : mounted'[r] \in {0, mounted[r]}
          /\ container' \in Shown /\ container'.nav <= navSeq /\ faults' \in Nat
      BY <2>2 DEF TypeInvariant, TypeOK, RefsOK
    <2> QED BY <2>1, <2>2, <2>3, CalmType
  <1>6. ASSUME NEW i \in Slice, Draw(i) PROVE TypeInvariant'
    <2>1. /\ Calmed(slices')
          /\ mounted' \in [Route -> Nat] /\ \A r \in Route : mounted'[r] \in {0, mounted[r]}
          /\ \/ container' = container
             \/ container' \in {Page(slices[i].nav), Panel(slices[i].nav)}
          /\ faults' \in Nat
          /\ UNCHANGED <<location, going, navSeq, current, mountSeq, loads>>
      BY <1>6, DrawFacts
    <2>2. slices[i].nav \in 1..navSeq /\ navSeq \in Nat /\ container \in Shown /\ container.nav <= navSeq
      BY DEF TypeInvariant, TypeOK, RefsOK
    <2>3. container' \in Shown /\ container'.nav <= navSeq
      BY <2>1, <2>2 DEF Page, Panel, Shown
    <2> QED BY <2>1, <2>3, CalmType
  <1>7. CASE UNCHANGED vars
    BY <1>7 DEF vars, TypeInvariant, TypeOK, RefsOK, Slice
  <1> QED BY <1>1, <1>2, <1>3, <1>4, <1>5, <1>6, <1>7 DEF Next

\* The tab's state is well formed whatever the user, the modules and the pages do:
\* every token, slice and drawing stems from a navigation that was made.
THEOREM RouteTypeCorrect == Spec => []TypeInvariant
  <1>1. Init => TypeInvariant
    BY InitType
  <1>2. TypeInvariant /\ [Next]_vars => TypeInvariant'
    BY StepType
  <1> QED BY <1>1, <1>2, PTL DEF Spec

----------------------------------------------------------------------------
(* One slice is alive *)

NoneAlive == \A i \in Slice : ~Alive(i)

\* The load whose module will still be mounted.
Fresh(l) == l.token = mountSeq[l.route]

\* The strengthening: while a navigation is between its two halves no slice is
\* alive, and a load that is still wanted is the latest navigation's, which has
\* nothing mounted yet.
Safe ==
    /\ OnlyLatestIsAlive
    /\ going # NoRoute => NoneAlive
    /\ \A l \in loads : Fresh(l) =>
          /\ l.nav = navSeq /\ l.route = current
          /\ going = NoRoute
          /\ NoneAlive

LEMMA InitSafe == Init => Safe
  BY DEF Init, Safe, OnlyLatestIsAlive, NoneAlive, Slice

\* A slice that was not alive stays so.
LEMMA CalmedAlive ==
    ASSUME Calmed(slices'), NEW i \in Slice', Alive(i)'
    PROVE  /\ i \in Slice /\ Alive(i)
           /\ slices'[i].route = slices[i].route /\ slices'[i].nav = slices[i].nav
  <1>1. i \in Slice
    BY DEF Calmed, Slice
  <1> QED BY <1>1 DEF Calmed, Alive

\* After unmount the loads of the route are stale.
LEMMA StaleAfter ==
    ASSUME TypeInvariant, NEW r \in Route, mountSeq' = [mountSeq EXCEPT ![r] = @ + 1],
           NEW l \in loads, Fresh(l)'
    PROVE  l.route # r /\ Fresh(l)
  <1>1. l.route \in Route /\ l.token \in 1..mountSeq[l.route] /\ mountSeq[l.route] \in Nat
    BY DEF TypeInvariant, TypeOK, RefsOK, Load
  <1>2. l.token = mountSeq'[l.route]
    BY DEF Fresh
  <1>3. l.route # r
    BY <1>1, <1>2 DEF TypeInvariant, TypeOK
  <1> QED BY <1>1, <1>2, <1>3 DEF Fresh, TypeInvariant, TypeOK

LEMMA LeaveSafe ==
    ASSUME ~CleanupMayThrow, TypeInvariant, Safe, Leave
    PROVE  Safe'
  <1>1. CASE RouteOf[hash] = NoRoute
    BY <1>1 DEF Leave, Safe, OnlyLatestIsAlive, NoneAlive, Alive, Slice, Fresh
  <1>2. CASE RouteOf[hash] # NoRoute
    <2>1. loads' = loads
      BY DEF Leave
    <2>2. CASE current = NoRoute /\ UNCHANGED <<mountSeq, slices, mounted, faults>>
      <3>1. NoneAlive
        <4> SUFFICES ASSUME NEW i \in Slice, Alive(i) PROVE FALSE
          BY DEF NoneAlive
        <4>1. slices[i].route = NoRoute /\ slices[i] \in SliceRecord
          BY <2>2, SliceType DEF Safe, OnlyLatestIsAlive
        <4> QED BY <4>1 DEF SliceRecord
      <3>2. NoneAlive'
        BY <2>2, <3>1 DEF NoneAlive, Alive, Slice
      <3>3. ASSUME NEW l \in loads, Fresh(l)' PROVE FALSE
        <4>1. Fresh(l) /\ l.route \in Route
          BY <2>2, <3>3 DEF Fresh, TypeInvariant, TypeOK, Load
        <4> QED BY <2>2, <4>1 DEF Safe
      <3> QED BY <2>1, <3>2, <3>3 DEF Safe, OnlyLatestIsAlive, NoneAlive
    <2>3. CASE current # NoRoute /\ Unmount(current)
      <3>1. current \in Route
        BY <2>3 DEF TypeInvariant, TypeOK
      <3>2. /\ Calmed(slices')
            /\ mountSeq' = [mountSeq EXCEPT ![current] = @ + 1]
            /\ \A i \in Slice : i = mounted[current] => Over(slices'[i])
        BY <2>3, <3>1, UnmountFacts
      <3>3. NoneAlive'
        <4> SUFFICES ASSUME NEW i \in Slice', Alive(i)' PROVE FALSE
          BY DEF NoneAlive
        <4>1. i \in Slice /\ Alive(i)
          BY <3>2, CalmedAlive
        <4>2. i = mounted[current]
          BY <4>1 DEF Safe, OnlyLatestIsAlive
        <4> QED BY <3>2, <4>1, <4>2 DEF Alive, Over
      <3>4. ASSUME NEW l \in loads, Fresh(l)' PROVE FALSE
        BY <3>1, <3>2, <3>4, StaleAfter DEF Safe
      <3> QED BY <2>1, <3>3, <3>4 DEF Safe, OnlyLatestIsAlive, NoneAlive
    <2> QED BY <1>2, <2>2, <2>3 DEF Leave
  <1> QED BY <1>1, <1>2

\* The latest navigation, with nothing alive and no load still wanted but at most
\* the one that settles, makes its slice.
LEMMA MountSafe ==
    ASSUME TypeInvariant, NoneAlive, NEW r \in Route, r = current, 0 < navSeq,
           MountSlice(r, navSeq), UNCHANGED <<navSeq, current>>, going' = NoRoute,
           \A l \in loads' : ~Fresh(l)'
    PROVE  Safe'
  <1>1. navSeq \in 1..navSeq
    BY DEF TypeInvariant, TypeOK
  <1>2. /\ \A i \in Slice : slices'[i] = slices[i]
        /\ \A i \in Slice' \ Slice :
              slices'[i].route = r /\ slices'[i].nav = navSeq /\ (Alive(i)' => mounted'[r] = i)
    BY <1>1, MountFacts
  <1>3. ASSUME NEW i \in Slice', Alive(i)'
        PROVE  slices'[i].nav = navSeq' /\ slices'[i].route = current' /\ i = mounted'[current']
    <2>1. CASE i \in Slice
      BY <1>2, <1>3, <2>1 DEF NoneAlive, Alive
    <2>2. CASE i \notin Slice
      BY <1>2, <1>3, <2>2
    <2> QED BY <2>1, <2>2
  <1> QED BY <1>3 DEF Safe, OnlyLatestIsAlive

LEMMA EnterSafe ==
    ASSUME TypeInvariant, Safe, NEW r \in Route, Enter(r)
    PROVE  Safe'
  <1>1. /\ going = r /\ r = current /\ 0 < navSeq /\ going' = NoRoute
        /\ UNCHANGED <<navSeq, current>>
    BY DEF Enter, Bounce, EnterEager, EnterLazy, TypeInvariant, TypeOK, RefsOK
  <1>2. NoneAlive /\ \A l \in loads : ~Fresh(l)
    BY <1>1 DEF Safe
  <1>3. CASE Bounce(r)
    BY <1>2, <1>3 DEF Bounce, Safe, OnlyLatestIsAlive, NoneAlive, Alive, Slice, Fresh
  <1>4. CASE EnterEager(r)
    <2>1. MountSlice(r, navSeq) /\ loads' = loads /\ mountSeq' = [mountSeq EXCEPT ![r] = @ + 1]
      BY <1>4 DEF EnterEager
    <2>2. \A l \in loads' : ~Fresh(l)'
      BY <1>2, <2>1, StaleAfter
    <2> QED BY <1>1, <1>2, <2>1, <2>2, MountSafe
  <1>5. CASE EnterLazy(r)
    <2> DEFINE l == [route |-> r, token |-> mountSeq'[r], nav |-> navSeq]
    <2>1. /\ loads' = loads \cup {l} /\ mountSeq' = [mountSeq EXCEPT ![r] = @ + 1]
          /\ slices' = slices
      BY <1>5 DEF EnterLazy
    <2>2. l.nav = navSeq' /\ l.route = current'
      BY <1>1
    <2> HIDE DEF l
    <2>3. \A k \in loads : ~Fresh(k)'
      BY <1>2, <2>1, StaleAfter
    <2>4. NoneAlive'
      BY <1>2, <2>1 DEF NoneAlive, Alive, Slice
    <2> QED BY <1>1, <2>1, <2>2, <2>3, <2>4 DEF Safe, OnlyLatestIsAlive, NoneAlive
  <1> QED BY <1>3, <1>4, <1>5 DEF Enter

LEMMA LoadSettlesSafe ==
    ASSUME TypeInvariant, Safe, NEW l \in loads, LoadSettles(l)
    PROVE  Safe'
  <1>1. /\ going = NoRoute /\ loads' = loads \ {l}
        /\ UNCHANGED <<location, going, navSeq, current, mountSeq>>
    BY DEF LoadSettles, Idle
  <1>2. CASE UNCHANGED <<slices, mounted>>
    BY <1>1, <1>2 DEF Safe, OnlyLatestIsAlive, NoneAlive, Alive, Slice, Fresh
  <1>3. CASE Fresh(l) /\ MountSlice(l.route, l.nav)
    <2>1. /\ l.nav = navSeq /\ l.route = current /\ NoneAlive
          /\ l \in Load /\ l.nav \in 1..navSeq /\ navSeq \in Nat
      BY <1>3 DEF Safe, TypeInvariant, TypeOK, RefsOK
    <2>2. ASSUME NEW k \in loads', Fresh(k)' PROVE FALSE
      <3>1. k \in loads /\ k # l /\ Fresh(k) /\ k \in Load
        BY <1>1, <2>2 DEF Fresh, TypeInvariant, TypeOK
      <3>2. k.nav = l.nav /\ k.route = l.route /\ k.token = l.token
        BY <1>3, <2>1, <3>1 DEF Safe, Fresh
      <3> QED BY <2>1, <3>1, <3>2 DEF Load
    <2>3. l.route \in Route /\ 0 < navSeq /\ MountSlice(l.route, navSeq)
      BY <1>3, <2>1 DEF Load
    <2> QED BY <1>1, <2>1, <2>2, <2>3, MountSafe
  <1> QED BY <1>2, <1>3 DEF LoadSettles, Fresh

\* Slices calm down, and one that stays alive stays mounted.
LEMMA CalmSafe ==
    ASSUME TypeInvariant, Safe, Calmed(slices'),
           UNCHANGED <<location, going, navSeq, current, mountSeq, loads>>,
           \A k \in Slice : Alive(k)' /\ k = mounted[current] => mounted'[current] = k
    PROVE  Safe'
  <1>1. \A i \in Slice' : Alive(i)' =>
            /\ i \in Slice /\ Alive(i)
            /\ slices'[i].route = slices[i].route /\ slices'[i].nav = slices[i].nav
    BY CalmedAlive
  <1>2. OnlyLatestIsAlive'
    BY <1>1 DEF Safe, OnlyLatestIsAlive
  <1>3. NoneAlive => NoneAlive'
    BY <1>1 DEF NoneAlive
  <1> QED BY <1>2, <1>3 DEF Safe, Fresh

LEMMA SafeStep ==
    ASSUME ~CleanupMayThrow
    PROVE  TypeInvariant /\ Safe /\ [Next]_vars => Safe'
  <1> SUFFICES ASSUME TypeInvariant, Safe, [Next]_vars PROVE Safe'
    OBVIOUS
  <1>1. ASSUME NEW h \in Hash, ChangeHash(h) PROVE Safe'
    BY <1>1 DEF ChangeHash, Safe, OnlyLatestIsAlive, NoneAlive, Alive, Slice, Fresh
  <1>2. CASE Leave
    BY <1>2, LeaveSafe
  <1>3. ASSUME NEW r \in Route, Enter(r) PROVE Safe'
    BY <1>3, EnterSafe
  <1>4. ASSUME NEW l \in loads, LoadSettles(l) PROVE Safe'
    BY <1>4, LoadSettlesSafe
  <1>5. ASSUME NEW i \in Slice, Dispatch(i) PROVE Safe'
    <2>1. Calmed(slices')
      BY <1>5, DispatchFacts
    <2>2. /\ UNCHANGED <<location, going, navSeq, current, mountSeq, loads>>
          /\ mounted' = mounted
      BY <1>5 DEF Dispatch
    <2> QED BY <2>1, <2>2, CalmSafe
  <1>6. ASSUME NEW i \in Slice, Draw(i) PROVE Safe'
    <2>1. /\ Calmed(slices')
          /\ \A r \in Route : r # slices[i].route => mounted'[r] = mounted[r]
          /\ UNCHANGED <<location, going, navSeq, current, mountSeq, loads>>
          /\ \A k \in Slice : mounted'[slices[i].route] # mounted[slices[i].route]
                => (k = mounted[slices[i].route] => ~Alive(k)')
      BY <1>6, DrawFacts
    <2>2. ASSUME NEW k \in Slice, Alive(k)', k = mounted[current]
          PROVE  mounted'[current] = k
      <3>1. current \in Route
        <4>1. k \in Slice' /\ Alive(k)
          BY <2>1, <2>2 DEF Calmed, Slice, Alive
        <4>2. slices[k].route = current
          BY <4>1 DEF Safe, OnlyLatestIsAlive
        <4> QED BY <4>2, SliceType DEF SliceRecord
      <3> QED BY <2>1, <2>2, <3>1
    <2> QED BY <2>1, <2>2, CalmSafe
  <1>7. CASE UNCHANGED vars
    BY <1>7 DEF vars, Safe, OnlyLatestIsAlive, NoneAlive, Alive, Slice, Fresh
  <1> QED BY <1>1, <1>2, <1>3, <1>4, <1>5, <1>6, <1>7 DEF Next

\* createStoreRoute's promise: as long as no page's cleanup throws, the only slice
\* that hears, fetches or draws is the one of the latest navigation, whatever order
\* lazy modules arrive in and whatever mount, render or fetch fails.
THEOREM OnlyLatestIsAliveHolds == ~CleanupMayThrow => (Spec => []OnlyLatestIsAlive)
  <1> SUFFICES ASSUME ~CleanupMayThrow PROVE Spec => []OnlyLatestIsAlive
    OBVIOUS
  <1>1. Init => TypeInvariant /\ Safe
    BY InitType, InitSafe
  <1>2. TypeInvariant /\ Safe /\ [Next]_vars => TypeInvariant' /\ Safe'
    BY StepType, SafeStep
  <1>3. Safe => OnlyLatestIsAlive
    BY DEF Safe
  <1> QED BY <1>1, <1>2, <1>3, PTL DEF Spec

\* What a step draws belongs to the latest navigation.
LEMMA DrawsLatest ==
    ASSUME TypeInvariant, Safe, [Next]_vars, container' # container
    PROVE  container'.nav = navSeq'
  <1>1. ASSUME NEW h \in Hash, ChangeHash(h) PROVE container'.nav = navSeq'
    BY <1>1 DEF ChangeHash
  <1>2. CASE Leave
    BY <1>2 DEF Leave
  <1>3. ASSUME NEW r \in Route, Enter(r) PROVE container'.nav = navSeq'
    <2>1. CASE EnterEager(r)
      <3>1. /\ MountSlice(r, navSeq) /\ navSeq' = navSeq /\ navSeq \in 1..navSeq
        BY <2>1 DEF EnterEager, TypeInvariant, TypeOK, RefsOK
      <3> QED BY <3>1, MountFacts
    <2> QED BY <1>3, <2>1 DEF Enter, Bounce, EnterLazy
  <1>4. ASSUME NEW l \in loads, LoadSettles(l) PROVE container'.nav = navSeq'
    <2>1. l.route \in Route /\ l.nav \in 1..navSeq /\ navSeq' = navSeq
      BY <1>4 DEF LoadSettles, TypeInvariant, TypeOK, RefsOK, Load
    <2>2. CASE Failed(l.nav)
      BY <2>1, <2>2 DEF Failed, Panel
    <2>3. CASE Fresh(l) /\ MountSlice(l.route, l.nav)
      <3>1. l.nav = navSeq
        BY <2>3 DEF Safe
      <3> QED BY <2>1, <2>3, <3>1, MountFacts
    <2> QED BY <1>4, <2>2, <2>3 DEF LoadSettles, Fresh
  <1>5. ASSUME NEW i \in Slice, Dispatch(i) PROVE container'.nav = navSeq'
    BY <1>5 DEF Dispatch
  <1>6. ASSUME NEW i \in Slice, Draw(i) PROVE container'.nav = navSeq'
    <2>1. /\ ~slices[i].disposed /\ container' \in {Page(slices[i].nav), Panel(slices[i].nav)}
          /\ navSeq' = navSeq
      BY <1>6, DrawFacts
    <2>2. slices[i].nav = navSeq
      BY <2>1 DEF Safe, OnlyLatestIsAlive, Alive
    <2> QED BY <2>1, <2>2 DEF Page, Panel
  <1>7. CASE UNCHANGED vars
    BY <1>7 DEF vars
  <1> QED BY <1>1, <1>2, <1>3, <1>4, <1>5, <1>6, <1>7 DEF Next

\* As long as no page's cleanup throws, nothing but the latest navigation changes
\* what the container shows: no late module, late failure or queued notification.
THEOREM OnlyLatestDrawsHolds == ~CleanupMayThrow => (Spec => OnlyLatestDraws)
  <1> SUFFICES ASSUME ~CleanupMayThrow PROVE Spec => OnlyLatestDraws
    OBVIOUS
  <1>1. Init => TypeInvariant /\ Safe
    BY InitType, InitSafe
  <1>2. TypeInvariant /\ Safe /\ [Next]_vars => TypeInvariant' /\ Safe'
    BY StepType, SafeStep
  <1>3. TypeInvariant /\ Safe /\ [Next]_vars
           => [container' # container => container'.nav = navSeq']_vars
    BY DrawsLatest
  <1> QED BY <1>1, <1>2, <1>3, PTL DEF Spec, OnlyLatestDraws

----------------------------------------------------------------------------
(* What was asked for is shown *)

\* The latest navigation's page is being fetched.
Wanted == \E l \in loads : l.nav = navSeq

\* What the router owes for the hash: the latest navigation is of the hash, or an
\* event is pending; it is being entered or fetched, and then nothing of it is shown
\* yet, or it has been drawn; a slice is mounted exactly when its page is shown.
Asked ==
    /\ (events = 0 /\ RouteOf[hash] # NoRoute) => current = RouteOf[hash]
    /\ \/ going # NoRoute
       \/ events > 0
       \/ RouteOf[hash] = NoRoute
       \/ Wanted
       \/ container.nav = navSeq
    /\ \A l \in loads : l.nav = navSeq => Fresh(l)
    /\ going # NoRoute => ~Wanted
    /\ (going # NoRoute \/ Wanted) => container.nav < navSeq
    /\ \A r \in Route : mounted[r] # 0 => r = current /\ container = Page(navSeq)
    /\ container = Page(navSeq) => current \in Route /\ mounted[current] # 0

LEMMA InitAsked == Init => Asked
  BY DEF Init, Asked, Wanted, Page

LEMMA AskedShown == TypeInvariant /\ Asked => AskedIsShown
  <1> SUFFICES ASSUME TypeInvariant, Asked, Idle, events = 0, RouteOf[hash] # NoRoute,
                      \A l \in loads : l.nav # navSeq
               PROVE  /\ current = RouteOf[hash]
                      /\ container.nav = navSeq
                      /\ container.what = "page" <=> mounted[current] # 0
    BY DEF AskedIsShown
  <1>1. current = RouteOf[hash] /\ container.nav = navSeq
    BY DEF Asked, Idle, Wanted
  <1>2. current \in Route
    BY <1>1 DEF TypeInvariant, TypeOK
  <1>3. container \in Shown
    BY DEF TypeInvariant, TypeOK
  <1>4. container.what = "page" <=> container = Page(navSeq)
    BY <1>1, <1>3 DEF Shown, Page
  <1> QED BY <1>1, <1>2, <1>4 DEF Asked

\* Before the latest navigation is drawn, nothing is mounted.
LEMMA NothingMounted ==
    ASSUME TypeInvariant, Asked, container.nav < navSeq
    PROVE  \A r \in Route : mounted[r] = 0
  <1>1. container # Page(navSeq)
    BY DEF Page, TypeInvariant, TypeOK
  <1> QED BY <1>1 DEF Asked

\* One module at most is fetched for the latest navigation, which has no slice.
LEMMA OneWanted ==
    ASSUME TypeInvariant, Safe, Asked, NEW l \in loads, l.nav = navSeq
    PROVE  l.route = current /\ NoneAlive /\ \A k \in loads : k.nav = navSeq => k = l
  <1>1. Fresh(l) /\ l.route = current /\ NoneAlive
    BY DEF Asked, Safe
  <1>2. ASSUME NEW k \in loads, k.nav = navSeq PROVE k = l
    <2>1. k.route = l.route /\ k.token = l.token /\ k.nav = l.nav
      BY <1>1, <1>2 DEF Asked, Safe, Fresh
    <2>2. k \in Load /\ l \in Load
      BY DEF TypeInvariant, TypeOK
    <2> QED BY <2>1, <2>2 DEF Load
  <1> QED BY <1>1, <1>2

LEMMA ChangeHashAsked ==
    ASSUME TypeInvariant, Asked, NEW h \in Hash, ChangeHash(h)
    PROVE  Asked'
  <1>1. events' > 0
    BY DEF ChangeHash, TypeInvariant, TypeOK
  <1>2. UNCHANGED <<going, navSeq, current, mountSeq, loads, mounted, container>>
    BY DEF ChangeHash
  <1> QED BY <1>1, <1>2 DEF Asked, Wanted, Fresh

LEMMA LeaveAsked ==
    ASSUME ~CleanupMayThrow, TypeInvariant, Asked, Leave
    PROVE  Asked'
  <1>1. UNCHANGED <<hash, loads, container>>
    BY DEF Leave
  <1>2. CASE RouteOf[hash] = NoRoute
    <2>1. UNCHANGED <<going, navSeq, current, mountSeq, slices, mounted, faults>>
      BY <1>2 DEF Leave
    <2> QED BY <1>1, <1>2, <2>1 DEF Asked, Wanted, Fresh
  <1>3. CASE RouteOf[hash] # NoRoute
    <2>1. /\ navSeq' = navSeq + 1 /\ current' = RouteOf[hash] /\ going' = RouteOf[hash]
          /\ navSeq \in Nat
      BY <1>3 DEF Leave, TypeInvariant, TypeOK
    <2>2. \A l \in loads' : l.nav # navSeq'
      BY <1>1, <2>1 DEF TypeInvariant, RefsOK
    <2>3. container'.nav < navSeq'
      BY <1>1, <2>1 DEF TypeInvariant, TypeOK, RefsOK, Shown
    <2>4. container' # Page(navSeq')
      BY <2>1, <2>3 DEF Page
    <2>5. \A r \in Route : mounted'[r] = 0
      <3>1. CASE current = NoRoute /\ mounted' = mounted
        BY <3>1 DEF Asked
      <3>2. CASE current # NoRoute /\ Unmount(current)
        <4>1. current \in Route /\ mounted \in [Route -> Nat]
          BY <3>2 DEF TypeInvariant, TypeOK
        <4>2. mounted' = [mounted EXCEPT ![current] = 0]
          BY <3>2 DEF Unmount
        <4> QED BY <4>1, <4>2 DEF Asked
      <3> QED BY <1>3, <3>1, <3>2 DEF Leave
    <2> QED BY <1>1, <1>3, <2>1, <2>2, <2>3, <2>4, <2>5 DEF Asked, Wanted
  <1> QED BY <1>2, <1>3

\* The latest navigation is mounted, or fails and shows the panel.
LEMMA MountAsked ==
    ASSUME TypeInvariant, NEW r \in Route, r = current, \A q \in Route : mounted[q] = 0,
           MountSlice(r, navSeq), UNCHANGED <<location, navSeq, current>>, going' = NoRoute,
           \A l \in loads' : l.nav # navSeq,
           (events = 0 /\ RouteOf[hash] # NoRoute) => current = RouteOf[hash]
    PROVE  Asked'
  <1>1. /\ \A l \in loads' : l.nav # navSeq'
        /\ (events' = 0 /\ RouteOf[hash'] # NoRoute) => current' = RouteOf[hash']
    BY DEF location
  <1>2. ASSUME \A q \in Route : mounted'[q] = 0, container' = Panel(navSeq)
        PROVE  Asked'
    <2>1. container'.nav = navSeq' /\ container' # Page(navSeq')
      BY <1>2 DEF Panel, Page
    <2> QED BY <1>1, <1>2, <2>1 DEF Asked, Wanted
  <1>3. CASE /\ UNCHANGED <<slices, mounted>>
             /\ Failed(navSeq)
    BY <1>2, <1>3 DEF Failed
  <1>4. CASE /\ mounted' = [mounted EXCEPT ![r] = 0]
             /\ Failed(navSeq)
    BY <1>2, <1>4 DEF Failed, TypeInvariant, TypeOK
  <1>5. CASE /\ mounted' = [mounted EXCEPT ![r] = Len(slices) + 1]
             /\ container' = Page(navSeq)
    <2>1. Len(slices) \in Nat
      BY LenProperties DEF TypeInvariant, TypeOK
    <2>2. mounted'[r] # 0 /\ \A q \in Route : q # r => mounted'[q] = 0
      BY <1>5, <2>1 DEF TypeInvariant, TypeOK
    <2>3. container'.nav = navSeq' /\ container' = Page(navSeq')
      BY <1>5 DEF Page
    <2> QED BY <1>1, <2>2, <2>3 DEF Asked, Wanted
  <1> QED BY <1>3, <1>4, <1>5 DEF MountSlice

LEMMA EnterAsked ==
    ASSUME TypeInvariant, Safe, Asked, NEW r \in Route, Enter(r)
    PROVE  Asked'
  <1>1. /\ going = r /\ r = current /\ going' = NoRoute
        /\ UNCHANGED <<navSeq, current>>
    BY DEF Enter, Bounce, EnterEager, EnterLazy, TypeInvariant, TypeOK, RefsOK
  <1>2. going # NoRoute
    BY <1>1
  <1>3. ~Wanted /\ container.nav < navSeq
    BY <1>2 DEF Asked
  <1>4. \A q \in Route : mounted[q] = 0
    BY <1>3, NothingMounted
  <1>5. CASE Bounce(r)
    <2>1. events' > 0
      BY <1>5 DEF Bounce, TypeInvariant, TypeOK
    <2>2. UNCHANGED <<loads, mounted, container, mountSeq>>
      BY <1>5 DEF Bounce
    <2> QED BY <1>1, <1>3, <2>1, <2>2 DEF Asked, Wanted, Fresh
  <1>6. CASE EnterEager(r)
    <2>1. MountSlice(r, navSeq) /\ UNCHANGED <<location, navSeq, current, loads>>
      BY <1>6 DEF EnterEager
    <2>2. \A l \in loads' : l.nav # navSeq
      BY <1>3, <2>1 DEF Wanted
    <2> QED BY <1>1, <1>4, <2>1, <2>2, MountAsked DEF Asked
  <1>7. CASE EnterLazy(r)
    <2>1. UNCHANGED <<location, navSeq, current, mounted, container>>
      BY <1>7 DEF EnterLazy
    <2>2. PICK n : /\ loads' = loads \cup {n}
                   /\ n.nav = navSeq' /\ n.token = mountSeq'[n.route]
      <3> DEFINE m == [route |-> r, token |-> mountSeq'[r], nav |-> navSeq]
      <3>1. m.nav = navSeq' /\ m.token = mountSeq'[m.route]
        BY <2>1
      <3>2. loads' = loads \cup {m}
        BY <1>7 DEF EnterLazy
      <3> HIDE DEF m
      <3> QED BY <3>1, <3>2
    <2>3. Wanted' /\ \A l \in loads' : l.nav = navSeq' => Fresh(l)'
      BY <1>3, <2>1, <2>2 DEF Wanted, Fresh
    <2>4. container'.nav < navSeq' /\ container' # Page(navSeq')
      BY <1>3, <2>1 DEF Page, TypeInvariant, TypeOK
    <2> QED BY <1>1, <1>4, <2>1, <2>3, <2>4 DEF Asked, location
  <1> QED BY <1>5, <1>6, <1>7 DEF Enter

LEMMA LoadSettlesAsked ==
    ASSUME TypeInvariant, Safe, Asked, NEW l \in loads, LoadSettles(l)
    PROVE  Asked'
  <1>1. /\ going = NoRoute /\ going' = NoRoute /\ loads' = loads \ {l}
        /\ UNCHANGED <<location, navSeq, current, mountSeq>>
    BY DEF LoadSettles, Idle
  <1>2. l.route \in Route
    BY DEF TypeInvariant, TypeOK, Load
  <1>3. CASE l.nav # navSeq /\ UNCHANGED <<mounted, container>>
    <2>1. Wanted' <=> Wanted
      BY <1>1, <1>3 DEF Wanted
    <2> QED BY <1>1, <1>3, <2>1 DEF Asked, Fresh, location
  <1>4. CASE l.nav = navSeq
    <2>1. /\ l.route = current /\ \A k \in loads' : k.nav # navSeq
      BY <1>1, <1>4, OneWanted
    <2>2. \A q \in Route : mounted[q] = 0
      BY <1>4, NothingMounted DEF Asked, Wanted
    <2>3. Fresh(l)
      BY <1>4 DEF Asked
    <2>4. CASE UNCHANGED mounted /\ Failed(l.nav)
      <3>1. container' = Panel(navSeq) /\ mounted' = mounted
        BY <1>4, <2>4 DEF Failed
      <3>2. container'.nav = navSeq' /\ container' # Page(navSeq')
        BY <1>1, <3>1 DEF Panel, Page
      <3> QED BY <1>1, <2>1, <2>2, <3>1, <3>2 DEF Asked, Wanted, location
    <2>5. CASE MountSlice(l.route, l.nav)
      BY <1>1, <1>2, <1>4, <2>1, <2>2, <2>5, MountAsked DEF Asked
    <2> QED BY <2>3, <2>4, <2>5 DEF LoadSettles, Fresh
  <1>5. CASE l.nav # navSeq
    <2>1. CASE UNCHANGED mounted /\ (Failed(l.nav) \/ UNCHANGED container)
      BY <1>3, <1>5, <2>1 DEF Failed
    <2>2. CASE Fresh(l)
      BY <1>5, <2>2 DEF Safe
    <2> QED BY <2>1, <2>2 DEF LoadSettles, Fresh
  <1> QED BY <1>4, <1>5

LEMMA DrawAsked ==
    ASSUME ~CleanupMayThrow, TypeInvariant, Safe, Asked, NEW i \in Slice, Draw(i)
    PROVE  Asked'
  <1>1. /\ going = NoRoute
        /\ UNCHANGED <<location, going, navSeq, current, mountSeq, loads>>
    BY DEF Draw
  <1>2. CASE UNCHANGED <<mounted, container>>
    BY <1>1, <1>2 DEF Asked, Wanted, Fresh, location
  <1>3. CASE ~slices[i].disposed
    <2>1. /\ slices[i].nav = navSeq /\ slices[i].route = current
          /\ i = mounted[current] /\ Alive(i)
      BY <1>3 DEF Safe, OnlyLatestIsAlive, Alive
    <2>2. current \in Route /\ i # 0
      BY SMTT(30), <2>1, SliceType, LenProperties DEF SliceRecord, Slice, TypeInvariant, TypeOK
    <2>3. ~Wanted
      BY <2>1, OneWanted DEF Wanted, NoneAlive
    <2>4. CASE container' = Page(navSeq) /\ mounted' = mounted
      <3>1. container'.nav = navSeq' /\ container' = Page(navSeq')
        BY <1>1, <2>4 DEF Page
      <3> QED BY <1>1, <2>1, <2>2, <2>3, <2>4, <3>1 DEF Asked, Wanted, location
    <2>5. CASE container' = Panel(navSeq) /\ mounted' = [mounted EXCEPT ![current] = 0]
      <3>1. container'.nav = navSeq' /\ container' # Page(navSeq')
        BY <1>1, <2>5 DEF Panel, Page
      <3>2. \A q \in Route : mounted'[q] = 0
        BY <2>5 DEF Asked, TypeInvariant, TypeOK
      <3> QED BY <1>1, <2>3, <3>1, <3>2 DEF Asked, Wanted, location
    <2> QED BY <1>2, <1>3, <2>1, <2>4, <2>5 DEF Draw
  <1>4. CASE slices[i].disposed
    BY <1>2, <1>4 DEF Draw
  <1> QED BY <1>3, <1>4

LEMMA AskedStep ==
    ASSUME ~CleanupMayThrow
    PROVE  TypeInvariant /\ Safe /\ Asked /\ [Next]_vars => Asked'
  <1> SUFFICES ASSUME TypeInvariant, Safe, Asked, [Next]_vars PROVE Asked'
    OBVIOUS
  <1>1. ASSUME NEW h \in Hash, ChangeHash(h) PROVE Asked'
    BY <1>1, ChangeHashAsked
  <1>2. CASE Leave
    BY <1>2, LeaveAsked
  <1>3. ASSUME NEW r \in Route, Enter(r) PROVE Asked'
    BY <1>3, EnterAsked
  <1>4. ASSUME NEW l \in loads, LoadSettles(l) PROVE Asked'
    BY <1>4, LoadSettlesAsked
  <1>5. ASSUME NEW i \in Slice, Dispatch(i) PROVE Asked'
    <2>1. /\ UNCHANGED <<location, going, navSeq, current, mountSeq, loads>>
          /\ UNCHANGED <<mounted, container>>
      BY <1>5 DEF Dispatch
    <2> QED BY <2>1 DEF Asked, Wanted, Fresh, location
  <1>6. ASSUME NEW i \in Slice, Draw(i) PROVE Asked'
    BY <1>6, DrawAsked
  <1>7. CASE UNCHANGED vars
    BY <1>7 DEF vars, Asked, Wanted, Fresh
  <1> QED BY <1>1, <1>2, <1>3, <1>4, <1>5, <1>6, <1>7 DEF Next

\* As long as no page's cleanup throws: once every hashchange is handled and no
\* module is being fetched for the latest navigation, the container shows the page
\* of the hash, and that page has a slice, or it shows the error panel and has none.
THEOREM AskedIsShownHolds == ~CleanupMayThrow => (Spec => []AskedIsShown)
  <1> SUFFICES ASSUME ~CleanupMayThrow PROVE Spec => []AskedIsShown
    OBVIOUS
  <1>1. Init => TypeInvariant /\ Safe /\ Asked
    BY InitType, InitSafe, InitAsked
  <1>2. TypeInvariant /\ Safe /\ Asked /\ [Next]_vars => TypeInvariant' /\ Safe' /\ Asked'
    BY StepType, SafeStep, AskedStep
  <1>3. TypeInvariant /\ Safe /\ Asked => AskedIsShown
    BY AskedShown
  <1> QED BY <1>1, <1>2, <1>3, PTL DEF Spec
=============================================================================
