------------------------- MODULE MasterServerProofs -------------------------
(***************************************************************************)
(* What holds of the loop for every set of hosts and servers, every        *)
(* preference and every clock: each component runs as its own module says, *)
(* so what is proved of it alone holds here, and a ban outlasts the leases *)
(* of the servers of the banned host.  And for every number of hosts and   *)
(* servers, lease and size of the sweep's step: how long a server that no  *)
(* longer reports stays listed, and what flood control keeps of a host.    *)
(***************************************************************************)
EXTENDS MasterServer, FiniteSetTheorems, TLAPS

FP == INSTANCE FloodControlProofs WITH procIT <- hostIT, End <- HostEnd
SP == INSTANCE ServerStoreProofs WITH procIT <- slotIT, End <- SlotEnd

-----------------------------------------------------------------------------
(***************************************************************************)
(* What the components assume holds of the loop's constants                *)
(***************************************************************************)
LEMMA FloodAssumptions ==
    FP!EndAssumption /\ FP!AddressAssumption /\ FP!PrefsAssumption
        /\ FP!LimitsAssumption /\ FP!ClockAssumption
BY HostsAssumption, LoopAssumption
   DEF FP!EndAssumption, FP!AddressAssumption, FP!PrefsAssumption, FP!LimitsAssumption,
       FP!ClockAssumption

LEMMA StoreAssumptions == SP!EndAssumption /\ SP!ServerAssumption /\ SP!StoreAssumption
<1>1. \A s \in Server : SP!Slot(s) = Store!Slot(s)
  BY DEF SP!Slot, Store!Slot
<1>2. \A s \in Server : SP!Slot(s) \in Nat /\ SP!Slot(s) < SlotEnd
  BY <1>1, ServersAssumption
<1> QED BY <1>2, ServersAssumption, LoopAssumption
        DEF SP!EndAssumption, SP!ServerAssumption, SP!StoreAssumption

\* The instances the proofs are about are those the loop is built from.
LEMMA SameHosts == /\ Flood!Init <=> FP!Init
                   /\ Flood!Next <=> FP!Next
                   /\ Flood!vars = FP!vars
BY DEF Flood!vars, FP!vars, Flood!Next, FP!Next, Flood!Receive, FP!Receive, Flood!Ignore,
       FP!Ignore, Flood!Serve, FP!Serve, Flood!ServeMalformed, FP!ServeMalformed,
       Flood!ServeQuery, FP!ServeQuery, Flood!ServeResend, FP!ServeResend, Flood!Handled,
       FP!Handled, Flood!Gate, FP!Gate, Flood!CheckPeer, FP!CheckPeer, Flood!ResetTickets,
       FP!ResetTickets, Flood!LiftBan, FP!LiftBan, Flood!RepPeer, FP!RepPeer, Flood!Trips,
       FP!Trips, Flood!Record, FP!Record, Flood!Wrap, FP!Wrap, Flood!PeerRecord,
       FP!PeerRecord, Flood!NewPeer, FP!NewPeer, Flood!SessionsOf, FP!SessionsOf,
       Flood!SessionsAfterGate, FP!SessionsAfterGate, Flood!ForceExpire, FP!ForceExpire,
       Flood!Banned, FP!Banned, Flood!CreateSession, FP!CreateSession, Flood!GetSession,
       FP!GetSession, Flood!Put, FP!Put, Flood!DoProcessing, FP!DoProcessing, Flood!Visited,
       FP!Visited, Flood!VisitedFrom, FP!VisitedFrom, Flood!Forgettable, FP!Forgettable,
       Flood!Forgotten, FP!Forgotten, Flood!Advance, FP!Advance, Flood!PlaceAfter,
       FP!PlaceAfter, Flood!FirstFrom, FP!FirstFrom, Flood!CheckSessions, FP!CheckSessions,
       Flood!Tick, FP!Tick, Flood!Init, FP!Init, Flood!Cardinality, FP!Cardinality

LEMMA SameDatabase == /\ Store!Init <=> SP!Init
                      /\ Store!Next <=> SP!Next
                      /\ Store!vars = SP!vars
BY DEF Store!vars, SP!vars, Store!types, SP!types, Store!Next, SP!Next, Store!Info, SP!Info,
       Store!UpdateServer, SP!UpdateServer, Store!AddServer, SP!AddServer, Store!RenewServer,
       SP!RenewServer, Store!HeartbeatServer, SP!HeartbeatServer, Store!Reported, SP!Reported,
       Store!Push, SP!Push, Store!Release, SP!Release, Store!PopRefs, SP!PopRefs, Store!Slot,
       SP!Slot, Store!Put, SP!Put, Store!DoProcessing, SP!DoProcessing, Store!Removed,
       SP!Removed, Store!Lapsed, SP!Lapsed, Store!Advance, SP!Advance, Store!PlaceAfter,
       SP!PlaceAfter, Store!FirstFrom, SP!FirstFrom, Store!VisitedFrom, SP!VisitedFrom,
       Store!Tick, SP!Tick, Store!Init, SP!Init, Store!Cardinality, SP!Cardinality

-----------------------------------------------------------------------------
(***************************************************************************)
(* A step of the loop is a step of each component, or leaves it alone      *)
(***************************************************************************)
LEMMA HostOfServer == \A s \in Server : s.address \in Address
BY ServersAssumption

LEMMA FloodStep == [Next]_vars => [Flood!Next]_(Flood!vars)
<1> SUFFICES ASSUME [Next]_vars PROVE [Flood!Next]_(Flood!vars)
  OBVIOUS
<1>1. CASE SweepHosts
  BY <1>1 DEF SweepHosts, Flood!Next
<1>2. CASE SweepServers \/ EndDrain \/ UNCHANGED vars
  BY <1>2 DEF SweepServers, Store!DoProcessing, EndDrain, vars, hosts, Flood!vars
<1>3. ASSUME NEW a \in Address, Skip(a) \/ ServeOther(a) \/ ServeMalformed(a)
      PROVE  Flood!Next
  BY <1>3 DEF Skip, ServeOther, ServeMalformed, Flood!Next, Flood!Receive
<1>4. ASSUME NEW a \in Address, NEW id \in SessionId, ServeList(a, id)
      PROVE  Flood!Next
  BY <1>4 DEF ServeList, Flood!Next, Flood!Receive
<1>5. ASSUME NEW s \in Server, NEW info \in Store!Info, TakeReport(s, info)
      PROVE  Flood!Next
  BY <1>5, HostOfServer DEF TakeReport, Flood!Next, Flood!Receive
<1>6. CASE Tick
  BY <1>6 DEF Tick, hosts, Flood!Next, Flood!Tick
<1> QED BY <1>1, <1>2, <1>3, <1>4, <1>5, <1>6 DEF Next, HandlePacket

LEMMA StoreStep == [Next]_vars => [Store!Next]_(Store!vars)
<1> SUFFICES ASSUME [Next]_vars PROVE [Store!Next]_(Store!vars)
  OBVIOUS
<1>1. CASE SweepServers
  BY <1>1 DEF SweepServers, Store!Next
<1>2. CASE SweepHosts \/ EndDrain \/ UNCHANGED vars
  BY <1>2 DEF SweepHosts, Flood!DoProcessing, EndDrain, vars, database, Store!vars
<1>3. ASSUME NEW a \in Address, Skip(a) \/ ServeOther(a) \/ ServeMalformed(a)
      PROVE  UNCHANGED Store!vars
  BY <1>3 DEF Skip, ServeOther, ServeMalformed, Flood!Ignore, Flood!Serve, Flood!ServeMalformed,
              Flood!Handled, database, Store!vars
<1>4. ASSUME NEW a \in Address, NEW id \in SessionId, ServeList(a, id)
      PROVE  UNCHANGED Store!vars
  BY <1>4 DEF ServeList, Flood!ServeQuery, Flood!ServeResend, Flood!Handled, database, Store!vars
<1>5. ASSUME NEW s \in Server, NEW info \in Store!Info, TakeReport(s, info)
      PROVE  Store!Next
  BY <1>5 DEF TakeReport, Store!Next
<1>6. CASE Tick
  BY <1>6 DEF Tick, database, Store!Next, Store!Tick, Store!types
<1> QED BY <1>1, <1>2, <1>3, <1>4, <1>5, <1>6 DEF Next, HandlePacket

\* Under the loop, flood control goes through the steps its own module allows,
\* whatever else the loop does between them.
THEOREM FloodSafe == Spec => Flood!Spec
<1>1. Init => Flood!Init
  BY DEF Init
<1> QED BY <1>1, FloodStep, PTL DEF Spec, Flood!Spec

\* Under the loop, the database goes through the steps its own module allows.
THEOREM StoreSafe == Spec => Store!Spec
<1>1. Init => Store!Init
  BY DEF Init
<1> QED BY <1>1, StoreStep, PTL DEF Spec, Store!Spec

-----------------------------------------------------------------------------
(***************************************************************************)
(* So their invariants hold                                                *)
(***************************************************************************)
LEMMA FloodInv == Spec => []FP!IInv
<1>1. Init => FP!Init
  BY SameHosts DEF Init
<1>2. [Next]_vars => [FP!Next]_(FP!vars)
  BY SameHosts, FloodStep DEF Flood!vars, FP!vars
<1>3. FP!Spec => []FP!IInv
  BY FP!InvariantHolds, FloodAssumptions
<1> QED BY <1>1, <1>2, <1>3, PTL DEF Spec, FP!Spec

LEMMA StoreInv == Spec => []SP!IInv
<1>1. Init => SP!Init
  BY SameDatabase DEF Init
<1>2. [Next]_vars => [SP!Next]_(SP!vars)
  BY SameDatabase, StoreStep DEF Store!vars, SP!vars
<1>3. SP!Spec => []SP!IInv
  BY SP!InvariantHolds, StoreAssumptions
<1> QED BY <1>1, <1>2, <1>3, PTL DEF Spec, SP!Spec

-----------------------------------------------------------------------------
(***************************************************************************)
(* Bans and leases                                                         *)
(***************************************************************************)

\* A packet that is served leaves its host unbanned.
LEMMA ServedUnbanned ==
    ASSUME NEW a, Flood!Serve(a)
    PROVE  ~Flood!Banned(peers'[a])
<1>1. peers' = Flood!Put(peers, a, Flood!Gate(a)) /\ ~Flood!Banned(Flood!Gate(a))
  BY DEF Flood!Serve, Flood!Handled
<1>2. peers'[a] = Flood!Gate(a)
  BY <1>1 DEF Flood!Put
<1> QED BY <1>1, <1>2

\* A report leaves every other record as it was, and its own has its address.
LEMMA ReportedRecords ==
    ASSUME SP!IInv, Store!DistinctSlots,
           NEW s \in Server, NEW info \in Store!Info, Store!UpdateServer(s, info),
           NEW k \in DOMAIN servers'
    PROVE  (k \in DOMAIN servers /\ servers'[k] = servers[k]) \/ servers'[k].addr = s
<1>1. SP!UpdateServer(s, info) /\ info \in SP!Info /\ SP!DistinctSlots
  BY DEF Store!Info, SP!Info, Store!UpdateServer, SP!UpdateServer, Store!AddServer,
       SP!AddServer, Store!RenewServer, SP!RenewServer, Store!Reported, SP!Reported,
       Store!Push, SP!Push, Store!Release, SP!Release, Store!PopRefs, SP!PopRefs, Store!Slot,
       SP!Slot, Store!Put, SP!Put, Store!DistinctSlots, SP!DistinctSlots, Store!Cardinality,
       SP!Cardinality
<1>2. SP!ReportEffect(s, info)
  BY <1>1, SP!UpdateEffect, StoreAssumptions
<1>3. k \in DOMAIN servers \cup {SP!Slot(s)}
  BY <1>2 DEF SP!ReportEffect
<1> QED BY <1>1, <1>2, <1>3 DEF SP!ReportEffect

\* A step of the loop leaves a record as it was, or takes the report of a
\* server whose host is not banned afterwards.
LEMMA RecordsAfterStep ==
    ASSUME SP!IInv, Store!DistinctSlots, [Next]_vars, NEW k \in DOMAIN servers'
    PROVE  \/ k \in DOMAIN servers /\ servers'[k] = servers[k]
           \/ ~Flood!Banned(peers'[HostOf(servers'[k])])
<1>1. CASE SweepServers
  BY <1>1 DEF SweepServers, Store!DoProcessing
<1>2. ASSUME NEW s \in Server, NEW info \in Store!Info, TakeReport(s, info)
      PROVE  \/ k \in DOMAIN servers /\ servers'[k] = servers[k]
             \/ ~Flood!Banned(peers'[HostOf(servers'[k])])
  <2>1. (k \in DOMAIN servers /\ servers'[k] = servers[k]) \/ servers'[k].addr = s
    BY <1>2, ReportedRecords DEF TakeReport
  <2>2. ~Flood!Banned(peers'[s.address])
    BY <1>2, ServedUnbanned DEF TakeReport
  <2> QED BY <2>1, <2>2 DEF HostOf
<1>3. CASE SweepHosts \/ EndDrain \/ Tick \/ UNCHANGED vars
  BY <1>3 DEF SweepHosts, EndDrain, Tick, vars, database
<1>4. ASSUME NEW a \in Address, Skip(a) \/ ServeOther(a) \/ ServeMalformed(a)
      PROVE  servers' = servers
  BY <1>4 DEF Skip, ServeOther, ServeMalformed, database
<1>5. ASSUME NEW a \in Address, NEW id \in SessionId, ServeList(a, id)
      PROVE  servers' = servers
  BY <1>5 DEF ServeList, database
<1> QED BY <1>1, <1>2, <1>3, <1>4, <1>5 DEF Next, HandlePacket

LEMMA BansAfterStep ==
    ASSUME FP!IInv, [Next]_vars, NEW a \in DOMAIN peers', Flood!Banned(peers'[a])
    PROVE  \/ peers'[a].tsBannedUntil = now + BanTime
           \/ a \in DOMAIN peers /\ Flood!Banned(peers[a]) /\ peers'[a].tsBannedUntil = peers[a].tsBannedUntil
<1>1. [FP!Next]_(FP!vars)
  BY SameHosts, FloodStep DEF Flood!vars, FP!vars
<1>2. FP!Banned(peers'[a])
  BY DEF Flood!Banned, FP!Banned
<1> QED BY <1>1, <1>2, FP!BansSetOrKept, FloodAssumptions DEF Flood!Banned, FP!Banned

LEMMA ReportsBeforeBans ==
    ASSUME FP!IInv, SP!IInv, Store!DistinctSlots, NoReportInBan, [Next]_vars
    PROVE  NoReportInBan'
<1> SUFFICES ASSUME NEW k \in DOMAIN servers',
                    HostOf(servers'[k]) \in DOMAIN peers',
                    Flood!Banned(peers'[HostOf(servers'[k])])
             PROVE  servers'[k].last_info + BanTime <= peers'[HostOf(servers'[k])].tsBannedUntil
  BY DEF NoReportInBan, Flood!Banned, HostOf
<1> DEFINE a == HostOf(servers'[k])
<1>1. k \in DOMAIN servers /\ servers'[k] = servers[k]
  BY RecordsAfterStep
<1>2. servers[k].last_info \in 0 .. now /\ now \in Nat /\ BanTime \in Nat
  BY <1>1, HostsAssumption DEF SP!IInv, SP!RecordsInv, SP!GoodRecord
<1>3. CASE peers'[a].tsBannedUntil = now + BanTime
  BY <1>1, <1>2, <1>3
<1>4. CASE a \in DOMAIN peers /\ Flood!Banned(peers[a]) /\ peers'[a].tsBannedUntil = peers[a].tsBannedUntil
  BY <1>1, <1>4 DEF NoReportInBan, HostOf
<1> QED BY <1>3, <1>4, BansAfterStep

\* Where no two servers share a slot, whatever is listed of a banned host was
\* reported before the ban: its leases run out while the ban lasts.
THEOREM NoReportWhileBanned == ASSUME Store!DistinctSlots PROVE Spec => []NoReportInBan
<1>1. Init => NoReportInBan
  BY DEF Init, Store!Init, NoReportInBan
<1>2. FP!IInv /\ SP!IInv /\ NoReportInBan /\ [Next]_vars => NoReportInBan'
  BY ReportsBeforeBans
<1> QED BY <1>1, <1>2, FloodInv, StoreInv, PTL DEF Spec

-----------------------------------------------------------------------------
(***************************************************************************)
(* How long a silent server stays listed                                   *)
(***************************************************************************)
Slots == {Store!Slot(s) : s \in Server}

Span == SweepCount - 1

\* The second in which the iteration began.
Begun == now - elapsed

\* A sweep comes to slot k in d calls, and if every iteration until then takes
\* MaxLoop seconds, that is in time.
DueIn(k, d) ==
    /\ SP!Calls(Slots, Span, slotIT, k, d)
    /\ Begun + (d + (IF at = "drain" THEN 1 ELSE 0)) * MaxLoop
           < servers[k].last_info + Heartbeat + Round * MaxLoop

TimeInv == /\ at \in {"flood", "store", "drain"}
           /\ elapsed \in 0 .. MaxLoop
           /\ \A k \in DOMAIN servers : \E d \in Nat : DueIn(k, d)

-----------------------------------------------------------------------------
(***************************************************************************)
(* There are no more slots than servers                                    *)
(***************************************************************************)
LEMMA ServersFinite == IsFiniteSet(Server)
<1> DEFINE Grid == (0 .. HalfWord * HalfWord - 1) \X (0 .. HalfWord - 1)
           f == [s \in Server |-> <<s.address, s.port>>]
<1>1. HalfWord * HalfWord - 1 \in Int /\ HalfWord - 1 \in Int
  BY ServersAssumption
<1>2. IsFiniteSet(Grid)
  <2>1. IsFiniteSet(0 .. HalfWord * HalfWord - 1)
    BY <1>1, FS_Interval
  <2>2. IsFiniteSet(0 .. HalfWord - 1)
    BY <1>1, FS_Interval
  <2> QED BY <2>1, <2>2, FS_Product
<1>3. \A s \in Server : s \in [address : 0 .. HalfWord * HalfWord - 1, port : 0 .. HalfWord - 1]
  BY ServersAssumption
<1>4. f \in [Server -> Grid]
  BY <1>3
<1>5. ASSUME NEW r \in Server, NEW s \in Server, f[r] = f[s]
      PROVE  r = s
  <2>1. r.address = s.address /\ r.port = s.port
    BY <1>5
  <2> QED BY <1>3, <2>1
<1> HIDE DEF f, Grid
<1>6. f \in Injection(Server, Grid)
  BY <1>4, <1>5 DEF Injection, IsInjective
<1> QED BY <1>2, <1>6, FS_Injection

\* The instance counts as this module does.
LEMMA SameCounting == \A S : /\ SP!IsFiniteSet(S) <=> IsFiniteSet(S)
                            /\ SP!Cardinality(S) = Cardinality(S)
<1>1. \A S : SP!IsFiniteSet(S) <=> IsFiniteSet(S)
  BY DEF SP!IsFiniteSet, IsFiniteSet
<1>2. \A S : SP!Cardinality(S) = Cardinality(S)
  BY DEF SP!Cardinality, Cardinality
<1> QED BY <1>1, <1>2

LEMMA SlotsBounded ==
    /\ SP!IsFiniteSet(Slots) /\ Slots \subseteq Nat /\ \A u \in Slots : u < SlotEnd
    /\ Cardinality(Server) \in Nat /\ SP!Cardinality(Slots) <= Cardinality(Server)
<1> DEFINE f == [s \in Server |-> Store!Slot(s)]
<1>1. f \in [Server -> Slots] /\ \A t \in Slots : \E s \in Server : f[s] = t
  BY DEF Slots
<1> HIDE DEF f
<1>2. f \in Surjection(Server, Slots)
  BY <1>1 DEF Surjection
<1>3. IsFiniteSet(Slots) /\ Cardinality(Slots) <= Cardinality(Server)
  BY <1>2, ServersFinite, FS_Surjection
<1>4. Cardinality(Server) \in Nat
  BY ServersFinite, FS_CardinalityType
<1>5. \A u \in Slots : u \in Nat /\ u < SlotEnd
  BY ServersAssumption DEF Slots
<1> QED BY <1>3, <1>4, <1>5, SameCounting

LEMMA SpanType == Span \in Nat \ {0} /\ SweepCount = Span + 1 /\ SweepCount \in Nat
BY LoopAssumption DEF Span

\* A round of n places is one iteration more than it takes to come to any.
LEMMA RoundType ==
    ASSUME NEW n \in Nat
    PROVE  /\ RoundOf(n) \in Nat /\ RoundOf(n) - 1 \in Nat /\ RoundOf(n) - 1 + 1 = RoundOf(n)
           /\ RoundOf(n) - 1 = (n + Span - 1) \div Span + 1
<1>1. SweepCount - 1 = Span /\ n + SweepCount - 2 = n + Span - 1 /\ n + Span - 1 \in Nat
  BY SpanType
<1>2. (n + Span - 1) \div Span \in Nat
  BY <1>1, SpanType, SP!Quotient, StoreAssumptions
<1>3. RoundOf(n) = (n + Span - 1) \div Span + 2
  BY <1>1 DEF RoundOf
<1> QED BY <1>2, <1>3

LEMMA TimeConstants ==
    /\ Span \in Nat \ {0} /\ SweepCount = Span + 1 /\ SweepCount \in Nat
    /\ MaxLoop \in Nat \ {0} /\ Heartbeat \in Nat \ {0} /\ SlotEnd \in Nat
    /\ Round \in Nat /\ Round - 1 \in Nat /\ Round - 1 + 1 = Round /\ Round * MaxLoop \in Nat
    /\ Round - 1 = (Cardinality(Server) + Span - 1) \div Span + 1
<1>1. Span \in Nat \ {0} /\ SweepCount = Span + 1 /\ SweepCount \in Nat
  BY SpanType
<1>2. /\ Round \in Nat /\ Round - 1 \in Nat /\ Round - 1 + 1 = Round
      /\ Round - 1 = (Cardinality(Server) + Span - 1) \div Span + 1
  BY SlotsBounded, RoundType DEF Round
<1>3. MaxLoop \in Nat \ {0} /\ Heartbeat \in Nat \ {0} /\ SlotEnd \in Nat
  BY LoopAssumption, ServersAssumption
<1>4. Round * MaxLoop \in Nat
  BY <1>2, <1>3
<1> QED BY <1>1, <1>2, <1>3, <1>4

\* From any place of the iterator, a sweep is at every slot within a round.
LEMMA WithinRound ==
    ASSUME NEW it \in Slots \cup {SlotEnd}, NEW k \in Slots
    PROVE  SP!Calls(Slots, Span, it, k, Round - 1)
<1> DEFINE d == Round - 1
           size == Cardinality(Server)
<1>1. SP!EndAssumption /\ SP!ServerAssumption /\ SP!StoreAssumption
  BY StoreAssumptions
<1>2. d = (size + Span - 1) \div Span + 1 /\ Span \in Nat \ {0} /\ size \in Nat
  BY SlotsBounded, TimeConstants
<1>3. SP!IsFiniteSet(Slots) /\ Slots \subseteq Nat /\ (\A u \in Slots : u < SlotEnd)
      /\ SP!Cardinality(Slots) <= size
  BY SlotsBounded
<1> HIDE DEF d, size
<1>4. SP!Calls(Slots, Span, it, k, d)
  BY <1>1, <1>2, <1>3, SP!CallsBounded
<1> QED BY <1>4 DEF d

LEMMA SlotsOfRecords ==
    ASSUME SP!IInv
    PROVE  /\ DOMAIN servers \in SUBSET Slots /\ slotIT \in DOMAIN servers \cup {SlotEnd}
           /\ now \in Nat /\ \A k \in DOMAIN servers : servers[k].last_info \in 0 .. now
<1>1. \A k \in DOMAIN servers : SP!GoodRecord(servers[k], k, now)
  BY DEF SP!IInv, SP!RecordsInv
<1>2. \A s \in Server : SP!Slot(s) = Store!Slot(s)
  BY DEF SP!Slot, Store!Slot
<1> QED BY <1>1, <1>2 DEF SP!IInv, SP!RecordsInv, SP!CursorValid, SP!GoodRecord, Slots

-----------------------------------------------------------------------------
(***************************************************************************)
(* The invariant is inductive                                              *)
(***************************************************************************)
LEMMA Scale ==
    ASSUME NEW m \in Nat, NEW g \in Nat, NEW d \in Nat, g <= d
    PROVE  g * m \in Nat /\ d * m \in Nat /\ g * m <= d * m
<1>1. PICK x \in Nat : d = g + x
  BY d - g \in Nat, d = g + (d - g)
<1>2. d * m = g * m + x * m /\ x * m \in Nat /\ g * m \in Nat
  BY <1>1
<1> QED BY <1>2

\* A record of this moment is due within a round, whatever the place.
LEMMA FreshIsDue ==
    ASSUME NEW t \in Nat, NEW last \in Nat, t < last + Heartbeat
    PROVE  t + (Round - 1 + 1) * MaxLoop < last + Heartbeat + Round * MaxLoop
<1>1. Round - 1 + 1 = Round /\ Round * MaxLoop \in Nat /\ Heartbeat \in Nat
  BY TimeConstants
<1> QED BY <1>1

LEMMA SweepInTime == ASSUME SP!IInv, TimeInv, SweepServers PROVE TimeInv'
<1>1. SP!DoProcessing
  BY DEF SweepServers, Store!DoProcessing, SP!DoProcessing, Store!Removed, SP!Removed, Store!Lapsed,
       SP!Lapsed, Store!Advance, SP!Advance, Store!PlaceAfter, SP!PlaceAfter, Store!FirstFrom,
       SP!FirstFrom, Store!VisitedFrom, SP!VisitedFrom, Store!PopRefs, SP!PopRefs,
       Store!Cardinality, SP!Cardinality
<1>2. /\ now' = now /\ elapsed' = elapsed /\ at = "store" /\ at' = "drain"
      /\ \A k \in DOMAIN servers' : k \in DOMAIN servers \ SP!Removed /\ servers'[k] = servers[k]
      /\ slotIT' = SP!PlaceAfter(DOMAIN servers, slotIT, SweepCount, SP!Removed)
      /\ SP!Removed \subseteq SP!VisitedFrom(DOMAIN servers, slotIT, SweepCount)
  BY <1>1 DEF SweepServers, SP!DoProcessing, SP!Advance, SP!Removed
<1>3. slotIT' \in Slots \cup {SlotEnd}
  <2>1. SP!IInv'
    BY <1>1, SP!DoProcessingInv, StoreAssumptions
  <2>2. slotIT' \in DOMAIN servers' \cup {SlotEnd}
    BY <2>1 DEF SP!IInv, SP!CursorValid
  <2> QED BY <1>2, <2>2, SlotsOfRecords
<1>4. ASSUME NEW k \in DOMAIN servers'
      PROVE  \E d \in Nat : DueIn(k, d)'
  <2>1. k \in DOMAIN servers /\ k \notin SP!Removed /\ servers'[k] = servers[k] /\ k \in Slots
    BY <1>2, SlotsOfRecords
  <2>2. now \in Nat /\ servers[k].last_info \in Nat /\ elapsed \in Nat /\ Begun \in Int /\ Begun' = Begun
    BY <1>2, <2>1, SlotsOfRecords, TimeConstants DEF TimeInv, Begun
  <2>3. CASE k \in SP!VisitedFrom(DOMAIN servers, slotIT, SweepCount)
    <3>1. now < servers[k].last_info + Heartbeat
      BY <2>1, <2>2, <2>3, TimeConstants DEF SP!Removed, SP!Lapsed
    <3>2. now + (Round - 1 + 1) * MaxLoop < servers[k].last_info + Heartbeat + Round * MaxLoop
      BY <2>2, <3>1, FreshIsDue
    <3>3. Begun <= now
      BY <2>2 DEF Begun
    <3>4. (Round - 1 + 1) * MaxLoop \in Nat /\ Round * MaxLoop \in Nat
      BY TimeConstants
    <3>5. Begun + (Round - 1 + 1) * MaxLoop < servers[k].last_info + Heartbeat + Round * MaxLoop
      <4> DEFINE x == (Round - 1 + 1) * MaxLoop
                 y == Round * MaxLoop
      <4>1. x \in Nat /\ y \in Nat /\ Heartbeat \in Nat
        BY <3>4, TimeConstants
      <4> HIDE DEF x, y
      <4>2. now + x < servers[k].last_info + Heartbeat + y
        BY <3>2 DEF x, y
      <4>3. Begun + x < servers[k].last_info + Heartbeat + y
        BY <2>2, <3>3, <4>1, <4>2
      <4> QED BY <4>3 DEF x, y
    <3>6. SP!Calls(Slots, Span, slotIT', k, Round - 1)
      BY <1>3, <2>1, WithinRound
    <3>7. DueIn(k, Round - 1)'
      BY <1>2, <2>1, <2>2, <3>5, <3>6 DEF DueIn, Round, Slots, Span, SP!Calls
    <3> QED BY <3>7, TimeConstants
  <2>4. CASE k \notin SP!VisitedFrom(DOMAIN servers, slotIT, SweepCount)
    <3>1. PICK d \in Nat : DueIn(k, d)
      BY <2>1 DEF TimeInv
    <3>2. PICK g \in Nat : g < d /\ SP!Calls(Slots, Span, slotIT', k, g)
      <4> DEFINE S == DOMAIN servers
                 visited == SP!VisitedFrom(S, slotIT, SweepCount)
      <4>1. SP!Calls(Slots, SweepCount - 1, slotIT, k, d)
        BY <3>1 DEF DueIn, Span
      <4>2. SweepCount \in Nat /\ SweepCount >= 2
        BY LoopAssumption
      <4>3. SP!EndAssumption /\ SP!ServerAssumption /\ SP!StoreAssumption
        BY StoreAssumptions
      <4>4. SP!IsFiniteSet(Slots) /\ Slots \subseteq Nat /\ \A u \in Slots : u < SlotEnd
        BY SlotsBounded
      <4>5. S \in SUBSET Slots /\ slotIT \in S \cup {SlotEnd}
        BY SlotsOfRecords
      <4>6. k \in S \ visited /\ SP!Removed \subseteq visited
        BY <1>2, <2>1, <2>4
      <4> HIDE DEF S
      <4>7. \E g \in Nat : /\ g < d
                          /\ SP!Calls(Slots, SweepCount - 1,
                                      SP!PlaceAfter(S, slotIT, SweepCount, SP!Removed), k, g)
        BY <4>1, <4>2, <4>3, <4>4, <4>5, <4>6, SP!CallsCloser
      <4> QED BY <1>2, <4>7 DEF S, Span
    <3>3. (g + 1) * MaxLoop <= d * MaxLoop /\ (g + 1) * MaxLoop \in Nat /\ d * MaxLoop \in Nat
      BY <3>2, Scale, TimeConstants
    <3>4. Begun + d * MaxLoop < servers[k].last_info + Heartbeat + Round * MaxLoop
      BY <1>2, <3>1, d + 0 = d DEF DueIn
    <3>5. Begun + (g + 1) * MaxLoop < servers[k].last_info + Heartbeat + Round * MaxLoop
      <4> DEFINE x == (g + 1) * MaxLoop
                 y == d * MaxLoop
                 z == servers[k].last_info + Heartbeat + Round * MaxLoop
      <4>1. x \in Nat /\ y \in Nat /\ x <= y /\ z \in Int
        <5>1. Round * MaxLoop \in Nat /\ Heartbeat \in Nat
          BY TimeConstants
        <5> QED BY <2>2, <3>3, <5>1
      <4> HIDE DEF x, y, z
      <4>2. Begun + y < z
        BY <3>4 DEF y, z
      <4>3. Begun + x < z
        BY <2>2, <4>1, <4>2
      <4> QED BY <4>3 DEF x, z
    <3>6. DueIn(k, g)'
      BY <1>2, <2>1, <2>2, <3>2, <3>5 DEF DueIn, Round, Slots, Span, SP!Calls
    <3> QED BY <3>6
  <2> QED BY <2>3, <2>4
<1> QED BY <1>2, <1>4 DEF TimeInv

LEMMA ReportInTime ==
    ASSUME SP!IInv, TimeInv, HandlePacket, NEW s \in Server, NEW info \in Store!Info, TakeReport(s, info)
    PROVE  TimeInv'
<1>1. SP!UpdateServer(s, info) /\ info \in SP!Info
  BY DEF TakeReport, Store!Info, SP!Info, Store!UpdateServer, SP!UpdateServer, Store!AddServer,
       SP!AddServer, Store!RenewServer, SP!RenewServer, Store!Reported, SP!Reported,
       Store!Push, SP!Push, Store!Release, SP!Release, Store!PopRefs, SP!PopRefs, Store!Slot,
       SP!Slot, Store!Put, SP!Put, Store!Cardinality, SP!Cardinality
<1>2. SP!ReportEffect(s, info)
  BY <1>1, SP!UpdateEffect, StoreAssumptions
<1>3. /\ now' = now /\ slotIT' = slotIT /\ elapsed' = elapsed /\ at = "drain" /\ at' = "drain"
      /\ SP!Slot(s) \in Slots /\ Begun' = Begun
  BY <1>2 DEF SP!ReportEffect, HandlePacket, Slots, SP!Slot, Store!Slot, Begun
<1>4. ASSUME NEW k \in DOMAIN servers'
      PROVE  \E d \in Nat : DueIn(k, d)'
  <2>1. CASE k = SP!Slot(s)
    <3>1. servers'[k].last_info = now /\ k \in Slots
      BY <1>2, <1>3, <2>1 DEF SP!ReportEffect
    <3>2. now \in Nat /\ now < now + Heartbeat /\ Begun \in Int /\ Begun <= now
      BY SlotsOfRecords, TimeConstants DEF TimeInv, Begun
    <3>3. now + (Round - 1 + 1) * MaxLoop < now + Heartbeat + Round * MaxLoop
      BY <3>2, FreshIsDue
    <3>4. Begun + (Round - 1 + 1) * MaxLoop < now + Heartbeat + Round * MaxLoop
      <4> DEFINE x == (Round - 1 + 1) * MaxLoop
                 y == Round * MaxLoop
      <4>1. x \in Nat /\ y \in Nat /\ Heartbeat \in Nat
        BY TimeConstants
      <4> HIDE DEF x, y
      <4>2. now + x < now + Heartbeat + y
        BY <3>3 DEF x, y
      <4>3. Begun + x < now + Heartbeat + y
        BY <3>2, <4>1, <4>2
      <4> QED BY <4>3 DEF x, y
    <3>5. SP!Calls(Slots, Span, slotIT, k, Round - 1)
      BY <3>1, WithinRound, SlotsOfRecords
    <3>6. DueIn(k, Round - 1)'
      BY <1>3, <3>1, <3>4, <3>5 DEF DueIn, Round, Slots, Span, SP!Calls
    <3> QED BY <3>6, TimeConstants
  <2>2. CASE k # SP!Slot(s)
    <3>1. k \in DOMAIN servers /\ servers'[k] = servers[k]
      BY <1>2, <2>2 DEF SP!ReportEffect
    <3>2. PICK d \in Nat : DueIn(k, d)
      BY <3>1 DEF TimeInv
    <3>3. DueIn(k, d)'
      BY <1>3, <3>1, <3>2 DEF DueIn, Round, Slots, Span, SP!Calls
    <3> QED BY <3>3
  <2> QED BY <2>1, <2>2
<1> QED BY <1>3, <1>4 DEF TimeInv

LEMMA DrainEndInTime == ASSUME SP!IInv, TimeInv, EndDrain PROVE TimeInv'
<1>1. /\ now' = now /\ slotIT' = slotIT /\ servers' = servers /\ elapsed' = 0
      /\ at = "drain" /\ at' = "flood"
  BY DEF EndDrain, database
<1>2. ASSUME NEW k \in DOMAIN servers
      PROVE  \E d \in Nat : DueIn(k, d)'
  <2>1. PICK d \in Nat : DueIn(k, d)
    BY <1>2 DEF TimeInv
  <2>2. Begun + (d + 1) * MaxLoop < servers[k].last_info + Heartbeat + Round * MaxLoop
    BY <1>1, <2>1 DEF DueIn
  <2>3. now \in Nat /\ elapsed \in Nat /\ elapsed <= MaxLoop /\ Begun' = now /\ Begun = now - elapsed
    BY <1>1, SlotsOfRecords, TimeConstants DEF TimeInv, Begun
  <2>4. now + d * MaxLoop < servers[k].last_info + Heartbeat + Round * MaxLoop
    <3> DEFINE x == d * MaxLoop
               z == servers[k].last_info + Heartbeat + Round * MaxLoop
    <3>1. x \in Nat /\ MaxLoop \in Nat /\ (d + 1) * MaxLoop = x + MaxLoop
      BY TimeConstants
    <3>2. z \in Int
      <4>1. servers[k].last_info \in Nat /\ Heartbeat \in Nat /\ Round * MaxLoop \in Nat
        BY SlotsOfRecords, TimeConstants
      <4> QED BY <4>1
    <3> HIDE DEF x, z
    <3>3. Begun + (x + MaxLoop) < z
      BY <2>2, <3>1 DEF z
    <3>4. now + x < z
      BY <2>3, <3>1, <3>2, <3>3
    <3> QED BY <3>4 DEF x, z
  <2>5. DueIn(k, d)'
    BY <1>1, <2>1, <2>3, <2>4, d + 0 = d DEF DueIn, Round, Slots, Span, SP!Calls
  <2> QED BY <2>5
<1> QED BY <1>1, <1>2, TimeConstants DEF TimeInv

\* A step that leaves the database alone, and the second the iteration began in.
LEMMA OthersInTime ==
    ASSUME TimeInv, servers' = servers, slotIT' = slotIT, Begun' = Begun,
           elapsed' \in 0 .. MaxLoop, at' \in {"flood", "store", "drain"},
           (at' = "drain") = (at = "drain")
    PROVE  TimeInv'
<1>1. ASSUME NEW k \in DOMAIN servers
      PROVE  \E d \in Nat : DueIn(k, d)'
  <2>1. PICK d \in Nat : DueIn(k, d)
    BY <1>1 DEF TimeInv
  <2>2. DueIn(k, d)'
    BY <2>1 DEF DueIn, Round, Slots, Span, SP!Calls
  <2> QED BY <2>2
<1> QED BY <1>1 DEF TimeInv

LEMMA StepInTime == ASSUME SP!IInv, TimeInv, [Next]_vars PROVE TimeInv'
<1>1. CASE SweepHosts
  BY <1>1, OthersInTime DEF SweepHosts, Flood!DoProcessing, database, Begun, TimeInv
<1>2. CASE SweepServers
  BY <1>2, SweepInTime
<1>3. CASE EndDrain
  BY <1>3, DrainEndInTime
<1>4. CASE Tick
  <2>1. now \in Nat /\ elapsed \in Nat /\ MaxLoop \in Nat
    BY SlotsOfRecords, TimeConstants DEF TimeInv
  <2>2. now' - elapsed' = now - elapsed /\ elapsed' \in 0 .. MaxLoop
    BY <1>4, <2>1 DEF Tick
  <2> QED BY <1>4, <2>2, OthersInTime DEF Tick, database, Begun, TimeInv
<1>5. CASE UNCHANGED vars
  BY <1>5, OthersInTime DEF vars, database, Begun, TimeInv
<1>6. ASSUME HandlePacket, NEW a \in Address, Skip(a) \/ ServeOther(a) \/ ServeMalformed(a)
      PROVE  TimeInv'
  <2>1. UNCHANGED <<now, database>>
    BY <1>6 DEF Skip, ServeOther, ServeMalformed, Flood!Ignore, Flood!Serve, Flood!ServeMalformed,
                Flood!Handled
  <2> QED BY <1>6, <2>1, OthersInTime DEF HandlePacket, database, Begun, TimeInv
<1>7. ASSUME HandlePacket, NEW a \in Address, NEW id \in SessionId, ServeList(a, id)
      PROVE  TimeInv'
  <2>1. UNCHANGED <<now, database>>
    BY <1>7 DEF ServeList, Flood!ServeQuery, Flood!ServeResend, Flood!Handled
  <2> QED BY <1>7, <2>1, OthersInTime DEF HandlePacket, database, Begun, TimeInv
<1>8. ASSUME HandlePacket, NEW s \in Server, NEW info \in Store!Info, TakeReport(s, info)
      PROVE  TimeInv'
  BY <1>8, ReportInTime
<1>9. HandlePacket => \/ \E a \in Address : Skip(a) \/ ServeOther(a) \/ ServeMalformed(a)
                      \/ \E a \in Address, id \in SessionId : ServeList(a, id)
                      \/ \E s \in Server, info \in Store!Info : TakeReport(s, info)
  BY DEF HandlePacket
<1> QED BY <1>1, <1>2, <1>3, <1>4, <1>5, <1>6, <1>7, <1>8, <1>9 DEF Next

LEMMA DueMeansBounded == ASSUME SP!IInv, TimeInv PROVE StaleBounded
<1> SUFFICES ASSUME NEW k \in DOMAIN servers
             PROVE  now < servers[k].last_info + Heartbeat + Round * MaxLoop
  BY DEF StaleBounded
<1> DEFINE z == servers[k].last_info + Heartbeat + Round * MaxLoop
<1>1. PICK d \in Nat : DueIn(k, d)
  BY DEF TimeInv
<1>2. d >= 1
  <2>1. SP!Calls(Slots, Span, slotIT, k, d)
    BY <1>1 DEF DueIn
  <2>2. slotIT \in Nat /\ k \in Nat
    BY SlotsOfRecords, SlotsBounded, TimeConstants
  <2>3. Span \in Nat
    BY TimeConstants
  <2>4. SP!EndAssumption /\ SP!ServerAssumption /\ SP!StoreAssumption
    BY StoreAssumptions
  <2>5. SP!IsFiniteSet(Slots) /\ Slots \subseteq Nat
    BY SlotsBounded
  <2> QED BY <2>1, <2>2, <2>3, <2>4, <2>5, SP!CallsPositive
<1>3. now \in Nat /\ elapsed \in Nat /\ elapsed <= MaxLoop /\ now = Begun + elapsed /\ Begun \in Int
  BY SlotsOfRecords, TimeConstants DEF TimeInv, Begun
<1>4. z \in Int
  <2>1. servers[k].last_info \in Nat /\ Heartbeat \in Nat /\ Round * MaxLoop \in Nat
    BY SlotsOfRecords, TimeConstants
  <2> QED BY <2>1
<1>5. PICK e \in Nat : e >= 1 /\ Begun + e * MaxLoop < z
  <2>1. CASE at = "drain"
    <3>1. Begun + (d + 1) * MaxLoop < z
      BY <1>1, <2>1 DEF DueIn
    <3> QED BY <3>1, d + 1 \in Nat, d + 1 >= 1
  <2>2. CASE at # "drain"
    <3>1. Begun + d * MaxLoop < z
      BY <1>1, <2>2, d + 0 = d DEF DueIn
    <3> QED BY <1>2, <3>1
  <2> QED BY <2>1, <2>2
<1>6. MaxLoop <= e * MaxLoop /\ e * MaxLoop \in Nat /\ MaxLoop \in Nat
  BY <1>5, Scale, TimeConstants, 1 * MaxLoop = MaxLoop
<1> HIDE DEF z
<1>7. now < z
  <2> DEFINE x == e * MaxLoop
  <2>1. x \in Nat /\ MaxLoop <= x /\ Begun + x < z
    BY <1>5, <1>6
  <2> HIDE DEF x
  <2> QED BY <1>3, <1>4, <1>6, <2>1
<1> QED BY <1>7 DEF z

\* A server that no longer reports is listed for its lease and a round of the
\* sweep at most, as long as no iteration of the loop takes more than MaxLoop.
THEOREM StaleGoneInTime == Spec => []StaleBounded
<1>1. Init => TimeInv
  BY TimeConstants DEF Init, Store!Init, TimeInv
<1>2. SP!IInv /\ TimeInv /\ [Next]_vars => TimeInv'
  BY StepInTime
<1>3. SP!IInv /\ TimeInv => StaleBounded
  BY DueMeansBounded
<1> QED BY <1>1, <1>2, <1>3, StoreInv, PTL DEF Spec


-----------------------------------------------------------------------------
(***************************************************************************)
(* How long a record of flood control is kept past its time                *)
(***************************************************************************)
HostRound == RoundOf(Cardinality(Address))

\* A sweep comes to host a in d calls, and if every iteration until then takes
\* MaxLoop seconds, what is due at time t is settled in time.
SettledIn(a, t, d) ==
    /\ FP!Calls(Address, Span, hostIT, a, d)
    /\ Begun + (d + (IF at = "flood" THEN 0 ELSE 1)) * MaxLoop < t + HostRound * MaxLoop

HostInv == \A a \in DOMAIN peers : \A t \in FP!DueTimes(a) : \E d \in Nat : SettledIn(a, t, d)

LEMMA AddressBounded ==
    /\ FP!IsFiniteSet(Address) /\ Address \subseteq Nat /\ \A a \in Address : a < HostEnd
    /\ Cardinality(Address) \in Nat /\ FP!Cardinality(Address) = Cardinality(Address)
<1>1. HostEnd - 1 \in Int /\ Address \in SUBSET (0 .. HostEnd - 1)
  BY HostsAssumption
<1>2. IsFiniteSet(Address)
  <2> DEFINE range == 0 .. HostEnd - 1
  <2>1. IsFiniteSet(range) /\ Address \in SUBSET range
    BY <1>1, FS_Interval
  <2> HIDE DEF range
  <2> QED BY <2>1, FS_Subset
<1>3. Cardinality(Address) \in Nat
  BY <1>2, FS_CardinalityType
<1>4. FP!IsFiniteSet(Address) <=> IsFiniteSet(Address)
  BY DEF FP!IsFiniteSet, IsFiniteSet
<1>5. FP!Cardinality(Address) = Cardinality(Address)
  BY DEF FP!Cardinality, Cardinality
<1>6. Address \subseteq Nat /\ \A a \in Address : a < HostEnd
  BY HostsAssumption
<1> QED BY <1>2, <1>3, <1>4, <1>5, <1>6

LEMMA HostConstants ==
    /\ HostRound \in Nat /\ HostRound - 1 \in Nat /\ HostRound - 1 + 1 = HostRound
    /\ HostRound - 1 = (Cardinality(Address) + Span - 1) \div Span + 1
    /\ HostRound * MaxLoop \in Nat /\ MaxLoop \in Nat
<1>1. /\ HostRound \in Nat /\ HostRound - 1 \in Nat /\ HostRound - 1 + 1 = HostRound
      /\ HostRound - 1 = (Cardinality(Address) + Span - 1) \div Span + 1
  BY AddressBounded, RoundType DEF HostRound
<1> QED BY <1>1, LoopAssumption

\* From any place of the iterator, a sweep is at every host within a round.
LEMMA WithinHostRound ==
    ASSUME NEW it \in Address \cup {HostEnd}, NEW a \in Address
    PROVE  FP!Calls(Address, Span, it, a, HostRound - 1)
<1> DEFINE d == HostRound - 1
           size == Cardinality(Address)
<1>1. FP!EndAssumption /\ FP!AddressAssumption /\ FP!PrefsAssumption /\ FP!LimitsAssumption
      /\ FP!ClockAssumption
  BY FloodAssumptions
<1>2. d = (size + Span - 1) \div Span + 1 /\ Span \in Nat \ {0} /\ size \in Nat
  BY AddressBounded, HostConstants, SpanType
<1>3. FP!IsFiniteSet(Address) /\ Address \subseteq Nat /\ (\A u \in Address : u < HostEnd)
      /\ FP!Cardinality(Address) <= size
  BY AddressBounded
<1> HIDE DEF d, size
<1>4. FP!Calls(Address, Span, it, a, d)
  BY <1>1, <1>2, <1>3, FP!CallsBounded
<1> QED BY <1>4 DEF d

LEMMA PlacesOfHosts ==
    ASSUME FP!IInv
    PROVE  /\ DOMAIN peers \in SUBSET Address /\ hostIT \in DOMAIN peers \cup {HostEnd}
           /\ now \in Nat
           /\ \A a \in DOMAIN peers : \A t \in FP!DueTimes(a) : t \in Int
<1>1. now \in Nat
  BY LoopAssumption DEF FP!IInv, FP!RecordsInv
<1>2. ASSUME NEW a \in DOMAIN peers
      PROVE  \A t \in FP!DueTimes(a) : t \in Int
  <2>1. FP!GoodPeer(peers[a], now) /\ FP!GoodList(sessions[a], peers[a].tsLastSeen)
    BY DEF FP!IInv, FP!RecordsInv, FP!SessionsInv
  <2>2. \A t \in FP!DueOf(peers[a], sessions[a]) : t \in Int
    BY <1>1, <2>1, FP!DueType, FloodAssumptions
  <2> QED BY <2>2 DEF FP!DueTimes, FP!DueOf, FP!Banned
<1> QED BY <1>1, <1>2 DEF FP!IInv, FP!RecordsInv, FP!CursorValid

\* The same in the next state.
LEMMA DueAfter ==
    ASSUME FP!IInv', NEW a \in DOMAIN peers'
    PROVE  \A t \in FP!DueTimes(a)' : t \in Int
<1>1. now' \in Nat
  BY LoopAssumption DEF FP!IInv, FP!RecordsInv
<1>2. FP!GoodPeer(peers'[a], now') /\ FP!GoodList(sessions'[a], peers'[a].tsLastSeen)
  BY DEF FP!IInv, FP!RecordsInv, FP!SessionsInv, FP!GoodPeer, FP!GoodList
<1>3. \A t \in FP!DueOf(peers'[a], sessions'[a]) : t \in Int
  BY <1>1, <1>2, FP!DueType, FloodAssumptions
<1> QED BY <1>3 DEF FP!DueTimes, FP!DueOf, FP!Banned

-----------------------------------------------------------------------------
(***************************************************************************)
(* That invariant is inductive                                             *)
(***************************************************************************)

\* What is due later than now is settled in time, whatever the place.
LEMMA FreshSettled ==
    ASSUME TimeInv, now \in Nat, FP!IInv', now' = now, elapsed' = elapsed, at' # "flood",
           NEW a \in DOMAIN peers', NEW t \in Int, t > now
    PROVE  SettledIn(a, t, HostRound - 1)'
<1>1. hostIT' \in Address \cup {HostEnd} /\ a \in Address
  BY DEF FP!IInv, FP!RecordsInv, FP!CursorValid
<1>2. FP!Calls(Address, Span, hostIT', a, HostRound - 1)
  BY <1>1, WithinHostRound
<1>3. elapsed \in Nat /\ Begun' = Begun /\ Begun \in Int /\ Begun <= now
  BY LoopAssumption DEF TimeInv, Begun
<1>4. Begun + (HostRound - 1 + 1) * MaxLoop < t + HostRound * MaxLoop
  <2> DEFINE x == HostRound * MaxLoop
  <2>1. x \in Nat /\ HostRound - 1 + 1 = HostRound
    BY HostConstants
  <2> HIDE DEF x
  <2>2. Begun + x < t + x
    BY <1>3, <2>1
  <2> QED BY <2>1, <2>2 DEF x
<1> QED BY <1>2, <1>3, <1>4 DEF SettledIn, HostRound, RoundOf, Span, FP!Calls

LEMMA HostSweepInTime ==
    ASSUME FP!IInv, FP!IInv', TimeInv, HostInv, SweepHosts
    PROVE  HostInv'
<1>1. FP!DoProcessing
  BY DEF SweepHosts, Flood!DoProcessing, FP!DoProcessing, Flood!Visited, FP!Visited,
       Flood!VisitedFrom, FP!VisitedFrom, Flood!Forgettable, FP!Forgettable, Flood!Forgotten,
       FP!Forgotten, Flood!Advance, FP!Advance, Flood!PlaceAfter, FP!PlaceAfter,
       Flood!FirstFrom, FP!FirstFrom, Flood!CheckSessions, FP!CheckSessions, Flood!CheckPeer,
       FP!CheckPeer, Flood!ResetTickets, FP!ResetTickets, Flood!LiftBan, FP!LiftBan,
       Flood!Record, FP!Record, Flood!Banned, FP!Banned, Flood!Cardinality, FP!Cardinality
<1>2. /\ now' = now /\ elapsed' = elapsed /\ at = "flood" /\ at' = "store"
      /\ hostIT' = FP!PlaceAfter(DOMAIN peers, hostIT, SweepCount, FP!Forgotten)
      /\ FP!Forgotten \subseteq FP!Visited
  BY <1>1 DEF SweepHosts, FP!DoProcessing, FP!Advance, FP!Forgotten
<1>3. ASSUME NEW a \in DOMAIN peers', NEW t \in FP!DueTimes(a)'
      PROVE  \E d \in Nat : SettledIn(a, t, d)'
  <2>1. a \in DOMAIN peers \ FP!Forgotten /\ (t > now \/ (a \notin FP!Visited /\ t \in FP!DueTimes(a)))
    BY <1>1, FP!SweepDue, FloodAssumptions
  <2>2. t \in Int
    BY DueAfter
  <2>3. CASE t > now
    BY <1>2, <2>2, <2>3, FreshSettled, PlacesOfHosts, HostConstants
  <2>4. CASE a \notin FP!Visited /\ t \in FP!DueTimes(a)
    <3>1. PICK d \in Nat : SettledIn(a, t, d)
      BY <2>1, <2>4 DEF HostInv
    <3>2. PICK g \in Nat : g < d /\ FP!Calls(Address, Span, hostIT', a, g)
      <4> DEFINE S == DOMAIN peers
                 visited == FP!VisitedFrom(S, hostIT, SweepCount)
      <4>1. FP!Calls(Address, SweepCount - 1, hostIT, a, d)
        BY <3>1 DEF SettledIn, Span
      <4>2. SweepCount \in Nat /\ SweepCount >= 2
        BY LoopAssumption
      <4>3. FP!EndAssumption /\ FP!AddressAssumption /\ FP!PrefsAssumption
            /\ FP!LimitsAssumption /\ FP!ClockAssumption
        BY FloodAssumptions
      <4>4. FP!IsFiniteSet(Address) /\ Address \subseteq Nat /\ \A u \in Address : u < HostEnd
        BY AddressBounded
      <4>5. S \in SUBSET Address /\ hostIT \in S \cup {HostEnd}
        BY PlacesOfHosts
      <4>6. a \in S \ visited /\ FP!Forgotten \subseteq visited
        BY <1>2, <2>1, <2>4 DEF FP!Visited
      <4> HIDE DEF S
      <4>7. \E g \in Nat : /\ g < d
                          /\ FP!Calls(Address, SweepCount - 1,
                                      FP!PlaceAfter(S, hostIT, SweepCount, FP!Forgotten), a, g)
        BY <4>1, <4>2, <4>3, <4>4, <4>5, <4>6, FP!CallsCloser
      <4> QED BY <1>2, <4>7 DEF S, Span
    <3>3. (g + 1) * MaxLoop <= d * MaxLoop /\ (g + 1) * MaxLoop \in Nat /\ d * MaxLoop \in Nat
      BY <3>2, Scale, HostConstants
    <3>4. Begun + d * MaxLoop < t + HostRound * MaxLoop
      BY <1>2, <3>1, d + 0 = d DEF SettledIn
    <3>5. Begun' = Begun /\ Begun \in Int
      BY <1>2, PlacesOfHosts, LoopAssumption DEF Begun, TimeInv
    <3>6. Begun + (g + 1) * MaxLoop < t + HostRound * MaxLoop
      <4> DEFINE x == (g + 1) * MaxLoop
                 y == d * MaxLoop
                 z == t + HostRound * MaxLoop
      <4>1. x \in Nat /\ y \in Nat /\ x <= y /\ z \in Int
        BY <2>2, <3>3, HostConstants
      <4> HIDE DEF x, y, z
      <4>2. Begun + y < z
        BY <3>4 DEF y, z
      <4>3. Begun + x < z
        BY <3>5, <4>1, <4>2
      <4> QED BY <4>3 DEF x, z
    <3>7. SettledIn(a, t, g)'
      BY <1>2, <3>2, <3>5, <3>6 DEF SettledIn, HostRound, RoundOf, Span, FP!Calls
    <3> QED BY <3>7
  <2> QED BY <2>1, <2>3, <2>4
<1> QED BY <1>3 DEF HostInv

LEMMA PacketInTime ==
    ASSUME FP!IInv, FP!IInv', TimeInv, HostInv, HandlePacket
    PROVE  HostInv'
<1>1. PICK a \in Address : Flood!Receive(a)
  <2>1. ASSUME NEW a \in Address, Skip(a) \/ ServeOther(a) \/ ServeMalformed(a)
        PROVE  Flood!Receive(a)
    BY <2>1 DEF Skip, ServeOther, ServeMalformed, Flood!Receive
  <2>2. ASSUME NEW a \in Address, NEW id \in SessionId, ServeList(a, id)
        PROVE  Flood!Receive(a)
    BY <2>2 DEF ServeList, Flood!Receive
  <2>3. ASSUME NEW s \in Server, NEW info \in Store!Info, TakeReport(s, info)
        PROVE  s.address \in Address /\ Flood!Receive(s.address)
    BY <2>3, HostOfServer DEF TakeReport, Flood!Receive
  <2> QED BY <2>1, <2>2, <2>3 DEF HandlePacket
<1>2. FP!Receive(a)
  BY <1>1
     DEF Flood!Receive, FP!Receive, Flood!Ignore, FP!Ignore, Flood!Serve, FP!Serve,
       Flood!ServeMalformed, FP!ServeMalformed, Flood!ServeQuery, FP!ServeQuery,
       Flood!ServeResend, FP!ServeResend, Flood!Handled, FP!Handled, Flood!Gate, FP!Gate,
       Flood!CheckPeer, FP!CheckPeer, Flood!ResetTickets, FP!ResetTickets, Flood!LiftBan,
       FP!LiftBan, Flood!RepPeer, FP!RepPeer, Flood!Trips, FP!Trips, Flood!Record, FP!Record,
       Flood!Wrap, FP!Wrap, Flood!PeerRecord, FP!PeerRecord, Flood!NewPeer, FP!NewPeer,
       Flood!SessionsOf, FP!SessionsOf, Flood!SessionsAfterGate, FP!SessionsAfterGate,
       Flood!ForceExpire, FP!ForceExpire, Flood!Banned, FP!Banned, Flood!CreateSession,
       FP!CreateSession, Flood!GetSession, FP!GetSession, Flood!Put, FP!Put
<1>3. now' = now /\ hostIT' = hostIT /\ elapsed' = elapsed /\ at = "drain" /\ at' = "drain"
  BY <1>2 DEF HandlePacket, FP!Receive, FP!Ignore, FP!Serve, FP!ServeMalformed, FP!ServeQuery,
              FP!ServeResend, FP!Handled
<1>4. ASSUME NEW b \in DOMAIN peers', NEW t \in FP!DueTimes(b)'
      PROVE  \E d \in Nat : SettledIn(b, t, d)'
  <2>1. t > now \/ (b \in DOMAIN peers /\ t \in FP!DueTimes(b))
    BY <1>2, FP!ReceiveDue, FloodAssumptions
  <2>2. t \in Int
    BY DueAfter
  <2>3. CASE t > now
    BY <1>3, <2>2, <2>3, FreshSettled, PlacesOfHosts, HostConstants
  <2>4. CASE b \in DOMAIN peers /\ t \in FP!DueTimes(b)
    <3>1. PICK d \in Nat : SettledIn(b, t, d)
      BY <2>4 DEF HostInv
    <3>2. SettledIn(b, t, d)'
      BY <1>3, <3>1 DEF SettledIn, Begun, HostRound, RoundOf, Span, FP!Calls
    <3> QED BY <3>2
  <2> QED BY <2>1, <2>3, <2>4
<1> QED BY <1>4 DEF HostInv

LEMMA DrainEndSettles ==
    ASSUME FP!IInv, TimeInv, HostInv, EndDrain
    PROVE  HostInv'
<1>1. /\ now' = now /\ hostIT' = hostIT /\ peers' = peers /\ sessions' = sessions
      /\ elapsed' = 0 /\ at = "drain" /\ at' = "flood"
  BY DEF EndDrain, hosts
<1>2. ASSUME NEW a \in DOMAIN peers, NEW t \in FP!DueTimes(a)
      PROVE  \E d \in Nat : SettledIn(a, t, d)'
  <2>1. PICK d \in Nat : SettledIn(a, t, d)
    BY <1>2 DEF HostInv
  <2>2. Begun + (d + 1) * MaxLoop < t + HostRound * MaxLoop
    BY <1>1, <2>1 DEF SettledIn
  <2>3. now \in Nat /\ elapsed \in Nat /\ elapsed <= MaxLoop /\ Begun' = now /\ Begun = now - elapsed
    BY <1>1, PlacesOfHosts, HostConstants DEF TimeInv, Begun
  <2>4. now + d * MaxLoop < t + HostRound * MaxLoop
    <3> DEFINE x == d * MaxLoop
               z == t + HostRound * MaxLoop
    <3>1. x \in Nat /\ MaxLoop \in Nat /\ (d + 1) * MaxLoop = x + MaxLoop
      BY HostConstants
    <3>2. z \in Int
      BY <1>2, PlacesOfHosts, HostConstants
    <3> HIDE DEF x, z
    <3>3. Begun + (x + MaxLoop) < z
      BY <2>2, <3>1 DEF z
    <3>4. now + x < z
      BY <2>3, <3>1, <3>2, <3>3
    <3> QED BY <3>4 DEF x, z
  <2>5. SettledIn(a, t, d)'
    BY <1>1, <2>1, <2>3, <2>4, d + 0 = d DEF SettledIn, HostRound, RoundOf, Span, FP!Calls
  <2> QED BY <2>5
<1>3. DOMAIN peers' = DOMAIN peers /\ \A a : FP!DueTimes(a)' = FP!DueTimes(a)
  BY <1>1 DEF FP!DueTimes, FP!Banned
<1> QED BY <1>2, <1>3 DEF HostInv

\* A step that leaves flood control alone, and the second the iteration began in.
LEMMA OthersSettle ==
    ASSUME HostInv, peers' = peers, sessions' = sessions, hostIT' = hostIT, Begun' = Begun,
           (at' = "flood") = (at = "flood")
    PROVE  HostInv'
<1>1. ASSUME NEW a \in DOMAIN peers, NEW t \in FP!DueTimes(a)
      PROVE  \E d \in Nat : SettledIn(a, t, d)'
  <2>1. PICK d \in Nat : SettledIn(a, t, d)
    BY <1>1 DEF HostInv
  <2>2. SettledIn(a, t, d)'
    BY <2>1 DEF SettledIn, HostRound, RoundOf, Span, FP!Calls
  <2> QED BY <2>2
<1>2. DOMAIN peers' = DOMAIN peers /\ \A a : FP!DueTimes(a)' = FP!DueTimes(a)
  BY DEF FP!DueTimes, FP!Banned
<1> QED BY <1>1, <1>2 DEF HostInv

LEMMA StepSettles ==
    ASSUME FP!IInv, FP!IInv', TimeInv, HostInv, [Next]_vars
    PROVE  HostInv'
<1>1. CASE SweepHosts
  BY <1>1, HostSweepInTime
<1>2. CASE SweepServers
  BY <1>2, OthersSettle DEF SweepServers, Store!DoProcessing, hosts, Begun
<1>3. CASE HandlePacket
  BY <1>3, PacketInTime
<1>4. CASE EndDrain
  BY <1>4, DrainEndSettles
<1>5. CASE Tick
  <2>1. now \in Nat /\ elapsed \in Nat
    BY PlacesOfHosts, HostConstants DEF TimeInv
  <2>2. now' - elapsed' = now - elapsed
    BY <1>5, <2>1 DEF Tick
  <2> QED BY <1>5, <2>2, OthersSettle DEF Tick, hosts, Begun
<1>6. CASE UNCHANGED vars
  BY <1>6, OthersSettle DEF vars, hosts, Begun
<1> QED BY <1>1, <1>2, <1>3, <1>4, <1>5, <1>6 DEF Next

LEMMA SettledMeansBounded == ASSUME FP!IInv, TimeInv, HostInv PROVE HostsSettled
<1>1. \A a : FP!DueTimes(a) = Flood!DueTimes(a)
  BY DEF FP!DueTimes, Flood!DueTimes, FP!Banned, Flood!Banned
<1> SUFFICES ASSUME NEW a \in DOMAIN peers, NEW t \in FP!DueTimes(a)
             PROVE  now < t + HostRound * MaxLoop
  BY <1>1 DEF HostsSettled, HostRound
<1> DEFINE z == t + HostRound * MaxLoop
<1>2. PICK d \in Nat : SettledIn(a, t, d)
  BY DEF HostInv
<1>3. d >= 1
  <2>1. FP!Calls(Address, Span, hostIT, a, d)
    BY <1>2 DEF SettledIn
  <2>2. hostIT \in Nat /\ a \in Nat
    BY PlacesOfHosts, AddressBounded, HostsAssumption
  <2>3. Span \in Nat
    BY SpanType
  <2>4. FP!EndAssumption /\ FP!AddressAssumption /\ FP!PrefsAssumption /\ FP!LimitsAssumption
        /\ FP!ClockAssumption
    BY FloodAssumptions
  <2>5. FP!IsFiniteSet(Address) /\ Address \subseteq Nat
    BY AddressBounded
  <2> QED BY <2>1, <2>2, <2>3, <2>4, <2>5, FP!CallsPositive
<1>4. now \in Nat /\ elapsed \in Nat /\ elapsed <= MaxLoop /\ now = Begun + elapsed /\ Begun \in Int
  BY PlacesOfHosts, HostConstants DEF TimeInv, Begun
<1>5. z \in Int
  BY PlacesOfHosts, HostConstants
<1>6. PICK e \in Nat : e >= 1 /\ Begun + e * MaxLoop < z
  <2>1. CASE at # "flood"
    <3>1. Begun + (d + 1) * MaxLoop < z
      BY <1>2, <2>1 DEF SettledIn
    <3> QED BY <3>1, d + 1 \in Nat, d + 1 >= 1
  <2>2. CASE at = "flood"
    <3>1. Begun + d * MaxLoop < z
      BY <1>2, <2>2, d + 0 = d DEF SettledIn
    <3> QED BY <1>3, <3>1
  <2> QED BY <2>1, <2>2
<1>7. MaxLoop <= e * MaxLoop /\ e * MaxLoop \in Nat /\ MaxLoop \in Nat
  BY <1>6, Scale, HostConstants, 1 * MaxLoop = MaxLoop
<1> HIDE DEF z
<1>8. now < z
  <2> DEFINE x == e * MaxLoop
  <2>1. x \in Nat /\ MaxLoop <= x /\ Begun + x < z
    BY <1>6, <1>7
  <2> HIDE DEF x
  <2> QED BY <1>4, <1>5, <1>7, <2>1
<1> QED BY <1>8 DEF z

\* Bans are lifted, idle hosts forgotten and expired sessions destroyed within a
\* round of the sweep, as long as no iteration takes more than MaxLoop.
THEOREM HostsSettledInTime == Spec => []HostsSettled
<1>1. Init => TimeInv /\ HostInv
  BY TimeConstants DEF Init, Store!Init, Flood!Init, TimeInv, HostInv
<1>2. SP!IInv /\ TimeInv /\ [Next]_vars => TimeInv'
  BY StepInTime
<1>3. FP!IInv /\ FP!IInv' /\ TimeInv /\ HostInv /\ [Next]_vars => HostInv'
  BY StepSettles
<1>4. FP!IInv /\ TimeInv /\ HostInv => HostsSettled
  BY SettledMeansBounded
<1> QED BY <1>1, <1>2, <1>3, <1>4, FloodInv, StoreInv, PTL DEF Spec

=============================================================================
