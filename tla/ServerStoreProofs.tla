-------------------------- MODULE ServerStoreProofs --------------------------
(***************************************************************************)
(* What holds of ServerStore for every set of servers, every heap and      *)
(* every clock.  What the database promises a reporting server is proved   *)
(* for servers that do not share slots: for others it is false.  The       *)
(* reference counts of the type lists are proved for all: although records *)
(* point to names that were freed, and to names that took the place of     *)
(* freed ones, no count exceeds the number of records with its pointer.    *)
(***************************************************************************)
EXTENDS ServerStore, MapSweepProofs, TLAPS

-----------------------------------------------------------------------------
(***************************************************************************)
(* The inductive invariant                                                 *)
(***************************************************************************)

\* A record at time t under slot k.
GoodRecord(rec, k, t) == /\ rec.addr \in Server
                         /\ Slot(rec.addr) = k
                         /\ rec.props \in Props
                         /\ rec.last_info \in 0 .. t

RecordsInv == /\ now \in Nat
              /\ \A k \in DOMAIN servers : GoodRecord(servers[k], k, now)

\* The last report of s is what its slot holds.
InSlot(s) == /\ Slot(s) \in DOMAIN servers
             /\ servers[Slot(s)].addr = s
             /\ servers[Slot(s)].props = reports[s].props
             /\ servers[Slot(s)].last_info = reports[s].at

ReportsInv ==
    /\ \A s \in DOMAIN reports : s \in Server /\ reports[s].at \in 0 .. now
    /\ \A k \in DOMAIN servers : servers[k].addr \in DOMAIN reports
    /\ DistinctSlots => \A s \in DOMAIN reports : InSlot(s)

IInv == RecordsInv /\ CursorValid /\ ReportsInv

LEMMA InitInv == Init => IInv
BY StoreAssumption DEF Init, IInv, RecordsInv, CursorValid, ReportsInv

\* What a report does, whether its slot is free or taken.
ReportEffect(s, info) ==
    /\ now' = now /\ procIT' = procIT
    /\ DOMAIN servers' = DOMAIN servers \cup {Slot(s)}
    /\ \A k \in DOMAIN servers \ {Slot(s)} : servers'[k] = servers[k]
    /\ GoodRecord(servers'[Slot(s)], Slot(s), now)
    /\ servers'[Slot(s)].props = info.props
    /\ servers'[Slot(s)].last_info = now
    /\ DistinctSlots => servers'[Slot(s)].addr = s
    /\ servers'[Slot(s)].addr \in DOMAIN reports'
    /\ DOMAIN reports' = DOMAIN reports \cup {s}
    /\ reports'[s].props = info.props /\ reports'[s].at = now
    /\ \A r \in DOMAIN reports \ {s} : reports'[r] = reports[r]

LEMMA UpdateEffect ==
    ASSUME IInv, NEW s \in Server, NEW info \in Info, UpdateServer(s, info)
    PROVE  ReportEffect(s, info)
<1>1. Reported(s, info)
  BY DEF UpdateServer, AddServer, RenewServer
<1>2. info.props \in Props /\ now \in Nat
  BY DEF Info, IInv, RecordsInv
<1>3. PICK addr, g, m :
         /\ servers' = Put(servers, Slot(s), [addr |-> addr, game |-> g, mission |-> m,
                                              props |-> info.props, last_info |-> now])
         /\ addr \in Server /\ Slot(addr) = Slot(s) /\ addr \in DOMAIN reports \cup {s}
  <2>1. CASE AddServer(s, info)
    BY <2>1 DEF AddServer
  <2>2. CASE RenewServer(s, info)
    <3>1. GoodRecord(servers[Slot(s)], Slot(s), now) /\ servers[Slot(s)].addr \in DOMAIN reports
      BY <2>2 DEF RenewServer, IInv, RecordsInv, ReportsInv
    <3> QED BY <2>2, <3>1 DEF RenewServer, GoodRecord
  <2> QED BY <2>1, <2>2 DEF UpdateServer
<1>4. DistinctSlots => addr = s
  BY <1>3 DEF DistinctSlots
<1> QED BY <1>1, <1>2, <1>3, <1>4 DEF Reported, Put, GoodRecord, ReportEffect

LEMMA UpdateInv ==
    ASSUME IInv, NEW s \in Server, NEW info \in Info, UpdateServer(s, info)
    PROVE  IInv'
<1>0. ReportEffect(s, info)
  BY UpdateEffect
<1>1. RecordsInv'
  BY <1>0 DEF ReportEffect, IInv, RecordsInv
<1>2. CursorValid'
  BY <1>0 DEF ReportEffect, IInv, CursorValid
<1>3. ReportsInv'
  <2>1. \A r \in DOMAIN reports' : r \in Server /\ reports'[r].at \in 0 .. now'
    BY <1>0 DEF ReportEffect, IInv, RecordsInv, ReportsInv
  <2>2. \A k \in DOMAIN servers' : servers'[k].addr \in DOMAIN reports'
    BY <1>0 DEF ReportEffect, IInv, ReportsInv
  <2>3. ASSUME DistinctSlots, NEW r \in DOMAIN reports'
        PROVE  InSlot(r)'
    <3>1. CASE r = s
      BY <2>3, <3>1, <1>0 DEF ReportEffect, InSlot
    <3>2. CASE r # s
      <4>1. r \in DOMAIN reports /\ reports'[r] = reports[r] /\ InSlot(r) /\ r \in Server
        BY <2>3, <3>2, <1>0 DEF ReportEffect, IInv, ReportsInv
      <4>2. Slot(r) # Slot(s)
        BY <2>3, <3>2, <4>1 DEF DistinctSlots
      <4> QED BY <4>1, <4>2, <1>0 DEF ReportEffect, InSlot
    <3> QED BY <3>1, <3>2
  <2> QED BY <2>1, <2>2, <2>3 DEF ReportsInv
<1> QED BY <1>1, <1>2, <1>3 DEF IInv

LEMMA DoProcessingInv == ASSUME IInv, DoProcessing PROVE IInv'
<1> DEFINE kept == DOMAIN servers \ Removed
<1>1. /\ now' = now /\ now \in Nat
      /\ DOMAIN servers' = kept /\ \A k \in kept : servers'[k] = servers[k]
      /\ DOMAIN reports' = {r \in DOMAIN reports :
                               \/ reports[r].at + Heartbeat > now
                               \/ \E k \in DOMAIN servers' : servers'[k].addr = r}
      /\ \A r \in DOMAIN reports' : reports'[r] = reports[r]
  BY DEF DoProcessing, IInv, RecordsInv
<1>2. RecordsInv'
  BY <1>1 DEF IInv, RecordsInv
<1>3. CursorValid'
  <2>1. \A k \in DOMAIN servers : k \in Nat /\ k < End
    BY ServerAssumption DEF IInv, RecordsInv, GoodRecord
  <2>2. DOMAIN servers \subseteq Nat
    BY <2>1
  <2>3. Removed \subseteq VisitedFrom(DOMAIN servers, procIT, SweepCount)
    BY DEF Removed
  <2>4. procIT' \in kept \cup {End}
    BY <2>1, <2>2, <2>3, PlaceAfterValid DEF DoProcessing, Advance, IInv, CursorValid
  <2> QED BY <1>1, <2>4 DEF CursorValid
<1>4. ReportsInv'
  <2>1. ASSUME DistinctSlots, NEW r \in DOMAIN reports'
        PROVE  InSlot(r)'
    <3>1. InSlot(r) /\ reports'[r] = reports[r] /\ reports[r].at \in Nat
      BY <1>1, <2>1 DEF IInv, ReportsInv
    <3>2. Slot(r) \in kept
      <4>1. CASE reports[r].at + Heartbeat > now
        BY <1>1, <3>1, <4>1, StoreAssumption DEF InSlot, Lapsed, Removed
      <4>2. CASE \E k \in DOMAIN servers' : servers'[k].addr = r
        BY <1>1, <4>2 DEF IInv, RecordsInv, GoodRecord
      <4> QED BY <1>1, <4>1, <4>2
    <3> QED BY <1>1, <3>1, <3>2 DEF InSlot
  <2>2. \A k \in DOMAIN servers' : servers'[k].addr \in DOMAIN reports'
    BY <1>1 DEF IInv, ReportsInv
  <2>3. \A r \in DOMAIN reports' : r \in Server /\ reports'[r].at \in 0 .. now'
    BY <1>1 DEF IInv, ReportsInv
  <2> QED BY <2>1, <2>2, <2>3 DEF ReportsInv
<1> QED BY <1>2, <1>3, <1>4 DEF IInv

LEMMA TickInv == ASSUME IInv, Tick PROVE IInv'
<1>1. now \in Nat /\ now' = now + 1 /\ servers' = servers /\ procIT' = procIT /\ reports' = reports
  BY DEF Tick, IInv, RecordsInv
<1>2. RecordsInv' /\ CursorValid'
  BY <1>1 DEF IInv, RecordsInv, GoodRecord, CursorValid
<1>3. ReportsInv'
  <2>1. \A s \in DOMAIN reports : reports[s].at \in 0 .. now + 1
    BY <1>1 DEF IInv, ReportsInv
  <2>2. \A s : InSlot(s)' <=> InSlot(s)
    BY <1>1 DEF InSlot
  <2> QED BY <1>1, <2>1, <2>2 DEF IInv, ReportsInv
<1> QED BY <1>2, <1>3 DEF IInv

\* The inductive invariant holds in every reachable state.
THEOREM InvariantHolds == Spec => []IInv
<1>1. IInv /\ [Next]_vars => IInv'
  <2> SUFFICES ASSUME IInv, [Next]_vars PROVE IInv'
    OBVIOUS
  <2>1. CASE UNCHANGED vars
    BY <2>1 DEF vars, IInv, RecordsInv, CursorValid, ReportsInv, InSlot
  <2> QED BY <2>1, UpdateInv, DoProcessingInv, TickInv DEF Next, HeartbeatServer
<1> QED BY InitInv, <1>1, PTL DEF Spec

-----------------------------------------------------------------------------
(***************************************************************************)
(* The properties                                                          *)
(***************************************************************************)

\* The sweep's iterator never dangles.
THEOREM CursorNeverDangles == Spec => []CursorValid
<1>1. IInv => CursorValid
  BY DEF IInv
<1> QED BY <1>1, InvariantHolds, PTL

\* Where no two servers share a slot, a server that reported within Heartbeat
\* is in the database with its last report.
THEOREM ReportersAreListed == ASSUME DistinctSlots PROVE Spec => []FreshReportListed
<1>1. IInv => FreshReportListed
  BY DEF IInv, ReportsInv, InSlot, FreshReportListed
<1> QED BY <1>1, InvariantHolds, PTL

\* The servers listed are those whose slots are taken.
ListedShape ==
    /\ DOMAIN Listed = {s \in Server : Slot(s) \in DOMAIN servers}
    /\ \A s \in DOMAIN Listed :
          Listed[s] = [props |-> servers[Slot(s)].props, at |-> servers[Slot(s)].last_info]

LEMMA ListedDomain == ASSUME IInv, DistinctSlots PROVE ListedShape
<1>1. \A k \in DOMAIN servers : servers[k].addr \in Server /\ Slot(servers[k].addr) = k
  BY DEF IInv, RecordsInv, GoodRecord
<1>2. \A s \in Server : Slot(s) \in DOMAIN servers => servers[Slot(s)].addr = s
  BY <1>1 DEF DistinctSlots
<1> QED BY <1>1, <1>2 DEF Listed, ListedShape

LEMMA ListedDomainNext == ASSUME IInv', DistinctSlots PROVE ListedShape'
<1>1. \A k \in DOMAIN servers' : servers'[k].addr \in Server /\ Slot(servers'[k].addr) = k
  BY DEF IInv, RecordsInv, GoodRecord
<1>2. \A s \in Server : Slot(s) \in DOMAIN servers' => servers'[Slot(s)].addr = s
  BY <1>1 DEF DistinctSlots
<1> QED BY <1>1, <1>2 DEF Listed, ListedShape

-----------------------------------------------------------------------------
(***************************************************************************)
(* The database implements the registry                                    *)
(***************************************************************************)

LEMMA InitMaps == Init => Registry!Init
BY StoreAssumption DEF Init, Registry!Init, Listed, LastReport

\* Where slots are distinct, what is listed is what was reported.
LEMMA ListedIsReported ==
    ASSUME IInv, DistinctSlots
    PROVE  DOMAIN Listed = DOMAIN reports /\ \A s \in DOMAIN Listed : Slot(s) \in DOMAIN servers
<1>1. \A k \in DOMAIN servers : /\ servers[k].addr \in DOMAIN reports
                                /\ Slot(servers[k].addr) = k
  BY DEF IInv, ReportsInv, RecordsInv, GoodRecord
<1>2. \A s \in DOMAIN reports : Slot(s) \in DOMAIN servers /\ servers[Slot(s)].addr = s
  BY DEF IInv, ReportsInv, InSlot
<1> QED BY <1>1, <1>2 DEF Listed

LEMMA ListedIsReportedNext ==
    ASSUME IInv', DistinctSlots
    PROVE  DOMAIN Listed' = DOMAIN reports'
<1>1. \A k \in DOMAIN servers' : /\ servers'[k].addr \in DOMAIN reports'
                                 /\ Slot(servers'[k].addr) = k
  BY DEF IInv, ReportsInv, RecordsInv, GoodRecord
<1>2. \A s \in DOMAIN reports' : Slot(s) \in DOMAIN servers' /\ servers'[Slot(s)].addr = s
  BY DEF IInv, ReportsInv, InSlot
<1> QED BY <1>1, <1>2 DEF Listed

\* A report is a report: it lists the server, or renews its lease.
LEMMA UpdateMaps ==
    ASSUME IInv, IInv', DistinctSlots,
           NEW s \in Server, NEW info \in Info, UpdateServer(s, info)
    PROVE  Registry!Report(s, info.props)
<1>1. ReportEffect(s, info)
  BY UpdateEffect
<1>2. DOMAIN Listed = {r \in Server : Slot(r) \in DOMAIN servers}
         /\ \A r \in DOMAIN Listed :
               Listed[r] = [props |-> servers[Slot(r)].props, at |-> servers[Slot(r)].last_info]
  BY ListedDomain DEF ListedShape
<1>3. DOMAIN Listed' = {r \in Server : Slot(r) \in DOMAIN servers'}
         /\ \A r \in DOMAIN Listed' :
               Listed'[r] = [props |-> servers'[Slot(r)].props, at |-> servers'[Slot(r)].last_info]
  BY ListedDomainNext DEF ListedShape
<1>4. \A r \in Server : Slot(r) = Slot(s) => r = s
  BY DEF DistinctSlots
<1>5. DOMAIN Listed' = DOMAIN Listed \cup {s}
  BY <1>1, <1>2, <1>3, <1>4 DEF ReportEffect
<1>6. \A r \in DOMAIN Listed' :
         Listed'[r] = IF r = s THEN [props |-> info.props, at |-> now] ELSE Listed[r]
  BY <1>1, <1>2, <1>3, <1>4, <1>5 DEF ReportEffect
<1>7. Listed' = [r \in DOMAIN Listed' |-> Listed'[r]]
  BY DEF Listed
<1>8. Listed' = Registry!With(Listed, s, [props |-> info.props, at |-> now])
  <2> HIDE DEF Listed
  <2> QED BY <1>5, <1>6, <1>7 DEF Registry!With
<1>9. LastReport' = Registry!With(LastReport, s, [props |-> info.props, at |-> now])
  BY <1>1 DEF ReportEffect, LastReport, Registry!With
<1> QED BY <1>1, <1>8, <1>9 DEF Registry!Report, ReportEffect

\* A sweep ends only leases that have lapsed.
LEMMA DoProcessingMaps ==
    ASSUME IInv, IInv', DistinctSlots, DoProcessing
    PROVE  Registry!Expire
<1> DEFINE gone == {r \in DOMAIN Listed : Slot(r) \in Removed}
<1>1. /\ now' = now
      /\ DOMAIN servers' = DOMAIN servers \ Removed
      /\ \A k \in DOMAIN servers' : servers'[k] = servers[k]
      /\ \A r \in DOMAIN reports' : reports'[r] = reports[r]
  BY DEF DoProcessing
<1>2. DOMAIN Listed = {r \in Server : Slot(r) \in DOMAIN servers}
         /\ \A r \in DOMAIN Listed :
               Listed[r] = [props |-> servers[Slot(r)].props, at |-> servers[Slot(r)].last_info]
  BY ListedDomain DEF ListedShape
<1>3. DOMAIN Listed' = {r \in Server : Slot(r) \in DOMAIN servers'}
         /\ \A r \in DOMAIN Listed' :
               Listed'[r] = [props |-> servers'[Slot(r)].props, at |-> servers'[Slot(r)].last_info]
  BY ListedDomainNext DEF ListedShape
<1>4. Listed' = [r \in DOMAIN Listed' |-> Listed'[r]]
  BY DEF Listed
<1> HIDE DEF Listed
<1>5. gone \in SUBSET Registry!Lapsed
  <2>1. DOMAIN Listed = DOMAIN reports /\ \A r \in DOMAIN reports : InSlot(r)
    BY ListedIsReported DEF IInv, ReportsInv
  <2> QED BY <2>1 DEF Registry!Lapsed, Removed, Lapsed, LastReport, InSlot
<1>6. DOMAIN Listed' = DOMAIN Listed \ gone
  BY <1>1, <1>2, <1>3
<1>7. \A r \in DOMAIN Listed' : Listed'[r] = Listed[r]
  BY <1>1, <1>2, <1>3, <1>6
<1>8. Listed' = [r \in DOMAIN Listed \ gone |-> Listed[r]]
  <2> HIDE DEF gone
  <2> QED BY <1>4, <1>6, <1>7
<1>9. DOMAIN reports' = DOMAIN reports \ gone
  <2>1. DOMAIN Listed = DOMAIN reports
    BY ListedIsReported
  <2>2. DOMAIN Listed' = DOMAIN reports'
    BY ListedIsReportedNext
  <2> QED BY <1>6, <2>1, <2>2
<1>10. LastReport' = [r \in DOMAIN LastReport \ gone |-> LastReport[r]]
  <2> HIDE DEF gone
  <2> QED BY <1>1, <1>9 DEF LastReport
<1> QED BY <1>1, <1>5, <1>8, <1>10 DEF Registry!Expire

LEMMA NextMaps ==
    ASSUME IInv, IInv', DistinctSlots, [Next]_vars
    PROVE  [Registry!Next]_(Registry!vars)
<1>1. ASSUME NEW s \in Server, NEW info \in Info, UpdateServer(s, info)
      PROVE  Registry!Next
  BY <1>1, UpdateMaps DEF Registry!Next, Info
<1>2. CASE DoProcessing
  BY <1>2, DoProcessingMaps DEF Registry!Next
<1>3. CASE Tick
  BY <1>3 DEF Tick, Registry!Next, Registry!Tick, Listed, LastReport
<1>4. CASE UNCHANGED vars
  BY <1>4 DEF vars, Registry!vars, Listed, LastReport
<1> QED BY <1>1, <1>2, <1>3, <1>4 DEF Next, HeartbeatServer

\* Where no two servers share a slot, every behaviour of the database is one of
\* the registry: a server stays listed until its lease lapses.
THEOREM StoreImplementsRegistry == ASSUME DistinctSlots PROVE Spec => ImplementsRegistry
<1>1. Init => Registry!Init
  BY InitMaps
<1>2. IInv /\ IInv' /\ [Next]_vars => [Registry!Next]_(Registry!vars)
  BY NextMaps
<1> QED BY <1>1, <1>2, InvariantHolds, PTL DEF Spec, ImplementsRegistry, Registry!Spec

-----------------------------------------------------------------------------
(***************************************************************************)
(* One list, and the pointers use[k] that the records k have into it       *)
(***************************************************************************)
Users(use, p) == {k \in DOMAIN use : use[k] = p}

Entry(Name) == [name : Name, refCount : Nat \ {0}]

Counted(list, Name, use) ==
    /\ IsFiniteSet(DOMAIN use)
    /\ DOMAIN list \subseteq Pointer
    /\ \A p \in DOMAIN list : list[p] \in Entry(Name)
    /\ \A p, q \in DOMAIN list : list[p].name = list[q].name => p = q
    /\ \A p \in DOMAIN list : list[p].refCount <= Cardinality(Users(use, p))

LEMMA UsersFinite ==
    ASSUME NEW use, IsFiniteSet(DOMAIN use), NEW p
    PROVE  IsFiniteSet(Users(use, p)) /\ Cardinality(Users(use, p)) \in Nat
<1>1. Users(use, p) \in SUBSET (DOMAIN use)
  BY DEF Users
<1> QED BY <1>1, FS_Subset, FS_CardinalityType

\* A record that is added or changed to pointer q is a user of q.
LEMMA NewUser ==
    ASSUME NEW use, IsFiniteSet(DOMAIN use), NEW k, NEW q, NEW new, new = Put(use, k, q)
    PROVE  /\ DOMAIN new = DOMAIN use \cup {k} /\ IsFiniteSet(DOMAIN new)
           /\ Users(new, q) = Users(use, q) \cup {k}
           /\ \A p : p # q => Users(new, p) = Users(use, p) \ {k}
<1>1. DOMAIN new = DOMAIN use \cup {k} /\ new[k] = q /\ \A j \in DOMAIN use \ {k} : new[j] = use[j]
  BY DEF Put
<1>2. IsFiniteSet(DOMAIN new)
  BY <1>1, FS_AddElement
<1>3. Users(new, q) = Users(use, q) \cup {k}
  BY <1>1 DEF Users
<1>4. ASSUME NEW p, p # q PROVE Users(new, p) = Users(use, p) \ {k}
  BY <1>1, <1>4 DEF Users
<1> QED BY <1>1, <1>2, <1>3, <1>4

\* A push that counts a known name bonus times.
Pushed(push, list, name, bonus) ==
    \/ \E p \in DOMAIN list :
           /\ list[p].name = name
           /\ push = [ptr  |-> p,
                      list |-> Put(list, p, [name |-> name, refCount |-> list[p].refCount + bonus])]
    \/ /\ \A p \in DOMAIN list : list[p].name # name
       /\ \E p \in Pointer \ DOMAIN list :
              push = [ptr |-> p, list |-> Put(list, p, [name |-> name, refCount |-> 1])]

LEMMA PushCounting ==
    ASSUME NEW list, NEW name, NEW push \in Push(list, name, TRUE)
    PROVE  Pushed(push, list, name, 1)
BY DEF Push, Pushed

LEMMA PushNotCounting ==
    ASSUME NEW list, NEW name, NEW push \in Push(list, name, FALSE)
    PROVE  Pushed(push, list, name, 0)
BY DEF Push, Pushed

\* What a push gives: the name's entry, counted or new.
LEMMA PushGives ==
    ASSUME NEW list, NEW Name, NEW use, Counted(list, Name, use), NEW name \in Name,
           NEW push, NEW bonus \in Nat, Pushed(push, list, name, bonus)
    PROVE  /\ push.ptr \in Pointer /\ DOMAIN push.list = DOMAIN list \cup {push.ptr}
           /\ \A p \in DOMAIN list \ {push.ptr} : push.list[p] = list[p]
           /\ push.list[push.ptr] \in Entry(Name) /\ push.list[push.ptr].name = name
           /\ \A p \in DOMAIN list \ {push.ptr} : list[p].name # name
           /\ push.list[push.ptr].refCount =
                IF push.ptr \in DOMAIN list THEN list[push.ptr].refCount + bonus ELSE 1
<1>1. CASE \E p \in DOMAIN list : list[p].name = name
  <2>1. PICK p \in DOMAIN list :
          /\ list[p].name = name
          /\ push = [ptr |-> p, list |-> Put(list, p, [name |-> name, refCount |-> list[p].refCount + bonus])]
    BY <1>1 DEF Pushed
  <2>2. list[p].refCount \in Nat \ {0} /\ p \in Pointer
    BY DEF Counted, Entry
  <2>3. list[p].refCount + bonus \in Nat \ {0}
    BY <2>2
  <2>4. /\ push.ptr = p /\ DOMAIN push.list = DOMAIN list \cup {p}
        /\ \A r \in DOMAIN list \ {p} : push.list[r] = list[r]
        /\ push.list[p] = [name |-> name, refCount |-> list[p].refCount + bonus]
    BY <2>1 DEF Put
  <2> QED BY <2>1, <2>2, <2>3, <2>4 DEF Counted, Entry
<1>2. CASE \A p \in DOMAIN list : list[p].name # name
  <2>1. PICK p \in Pointer \ DOMAIN list :
          push = [ptr |-> p, list |-> Put(list, p, [name |-> name, refCount |-> 1])]
    BY <1>2 DEF Pushed
  <2>2. /\ push.ptr = p /\ DOMAIN push.list = DOMAIN list \cup {p}
        /\ \A r \in DOMAIN list \ {p} : push.list[r] = list[r]
        /\ push.list[p] = [name |-> name, refCount |-> 1]
    BY <2>1 DEF Put
  <2> QED BY <1>2, <2>1, <2>2 DEF Entry
<1> QED BY <1>1, <1>2

\* What the pops of the records S leave, where pops[p] of them point to p.
LEMMA PopsLeave ==
    ASSUME NEW list, NEW Name, NEW use, Counted(list, Name, use), NEW S, NEW ptr,
           NEW pops, \A p \in DOMAIN list : pops[p] = Cardinality({s \in S : ptr[s] = p}) /\ pops[p] \in Nat,
           NEW rest, rest = PopRefs(list, S, ptr)
    PROVE  /\ DOMAIN rest \subseteq DOMAIN list
           /\ \A p \in DOMAIN rest : /\ rest[p] \in Entry(Name) /\ rest[p].name = list[p].name
                                     /\ rest[p].refCount = list[p].refCount - pops[p]
<1> DEFINE count(p) == Cardinality({s \in S : ptr[s] = p})
<1>0. rest = [p \in {q \in DOMAIN list : list[q].refCount > count(q)} |->
                 [list[p] EXCEPT !.refCount = @ - count(p)]]
  BY Zenon DEF PopRefs
<1> HIDE DEF count
<1>1. \A p \in DOMAIN rest : p \in DOMAIN list /\ list[p].refCount > pops[p]
  BY <1>0 DEF count
<1>2. \A p \in DOMAIN rest : rest[p] = [list[p] EXCEPT !.refCount = @ - pops[p]]
  BY <1>0 DEF count
<1>3. ASSUME NEW p \in DOMAIN rest
      PROVE  /\ rest[p] \in Entry(Name) /\ rest[p].name = list[p].name
             /\ rest[p].refCount = list[p].refCount - pops[p]
  <2>1. /\ list[p] \in [name : Name, refCount : Nat \ {0}] /\ list[p].refCount > pops[p]
        /\ pops[p] \in Nat
    BY <1>1 DEF Counted, Entry
  <2>2. list[p].refCount - pops[p] \in Nat \ {0}
    BY <2>1
  <2> QED BY <1>2, <2>1, <2>2 DEF Entry
<1> QED BY <1>1, <1>3

LEMMA AddCounted ==
    ASSUME NEW list, NEW Name, NEW use, Counted(list, Name, use), NEW name \in Name,
           NEW k, k \notin DOMAIN use, NEW push \in Push(list, name, TRUE)
    PROVE  Counted(push.list, Name, Put(use, k, push.ptr)) /\ push.ptr \in Pointer
<1> DEFINE new == Put(use, k, push.ptr)
<1>1. /\ push.ptr \in Pointer /\ DOMAIN push.list = DOMAIN list \cup {push.ptr}
      /\ \A p \in DOMAIN list \ {push.ptr} : push.list[p] = list[p]
      /\ push.list[push.ptr] \in Entry(Name) /\ push.list[push.ptr].name = name
      /\ \A p \in DOMAIN list \ {push.ptr} : list[p].name # name
      /\ push.list[push.ptr].refCount = IF push.ptr \in DOMAIN list THEN list[push.ptr].refCount + 1 ELSE 1
  <2>1. Pushed(push, list, name, 1)
    BY PushCounting
  <2> QED BY <2>1, PushGives
<1>2. IsFiniteSet(DOMAIN use)
  BY DEF Counted
<1>3. ASSUME NEW p \in DOMAIN push.list PROVE push.list[p].refCount <= Cardinality(Users(new, p))
  <2>1. /\ p = push.ptr => Users(new, p) = Users(use, p) \cup {k}
        /\ p # push.ptr => Users(new, p) = Users(use, p) \ {k}
    <3>1. /\ DOMAIN new = DOMAIN use \cup {k} /\ new[k] = push.ptr
          /\ \A j \in DOMAIN use \ {k} : new[j] = use[j]
      BY DEF Put
    <3> HIDE DEF new
    <3> QED BY <3>1 DEF Users
  <2>2. k \notin Users(use, p)
    BY DEF Users
  <2>3. IsFiniteSet(Users(use, p)) /\ Cardinality(Users(use, p)) \in Nat
    BY <1>2, UsersFinite
  <2>4. CASE p = push.ptr
    <3>1. Cardinality(Users(new, p)) = Cardinality(Users(use, p)) + 1
      BY <2>1, <2>2, <2>3, <2>4, FS_AddElement
    <3> QED BY <1>1, <2>3, <2>4, <3>1 DEF Counted, Entry
  <2>5. CASE p # push.ptr
    <3>1. Users(new, p) = Users(use, p)
      BY <2>1, <2>2, <2>5
    <3> QED BY <1>1, <2>5, <3>1 DEF Counted
  <2> QED BY <2>4, <2>5
<1>4. IsFiniteSet(DOMAIN new)
  BY <1>2, NewUser DEF new
<1> HIDE DEF new
<1>5. \A p \in DOMAIN push.list : push.list[p] \in Entry(Name)
  BY <1>1 DEF Counted
<1>6. \A p, q \in DOMAIN push.list : push.list[p].name = push.list[q].name => p = q
  BY <1>1 DEF Counted
<1>7. Counted(push.list, Name, new)
  BY <1>1, <1>3, <1>4, <1>5, <1>6 DEF Counted
<1> QED BY <1>1, <1>7 DEF new

LEMMA RenewCounted ==
    ASSUME NEW list, NEW Name, NEW use, Counted(list, Name, use), NEW name \in Name,
           NEW k \in DOMAIN use, NEW push \in Push(list, name, FALSE)
    PROVE  /\ Counted(Release(push.list, use[k], push.ptr), Name, Put(use, k, push.ptr))
           /\ push.ptr \in Pointer
<1> DEFINE new  == Put(use, k, push.ptr)
           rest == Release(push.list, use[k], push.ptr)
           drop == [p \in Pointer |-> IF p = use[k] /\ use[k] # push.ptr THEN 1 ELSE 0]
<1>1. /\ push.ptr \in Pointer /\ DOMAIN push.list = DOMAIN list \cup {push.ptr}
      /\ \A p \in DOMAIN list \ {push.ptr} : push.list[p] = list[p]
      /\ push.list[push.ptr] \in Entry(Name) /\ push.list[push.ptr].name = name
      /\ \A p \in DOMAIN list \ {push.ptr} : list[p].name # name
      /\ push.list[push.ptr].refCount = IF push.ptr \in DOMAIN list THEN list[push.ptr].refCount ELSE 1
  <2>1. Pushed(push, list, name, 0)
    BY PushNotCounting
  <2>2. \A p \in DOMAIN list : list[p].refCount \in Nat
    BY DEF Counted, Entry
  <2> QED BY <2>1, <2>2, PushGives
<1>2. IsFiniteSet(DOMAIN use) /\ DOMAIN push.list \subseteq Pointer
  BY <1>1 DEF Counted
<1>3. \A p \in DOMAIN push.list : push.list[p] \in Entry(Name)
  BY <1>1 DEF Counted
<1>4. \A p, q \in DOMAIN push.list : push.list[p].name = push.list[q].name => p = q
  BY <1>1 DEF Counted
\* One reference is dropped, of the old pointer, unless it is the new one.
<1>5. /\ DOMAIN rest \subseteq DOMAIN push.list
      /\ \A p \in DOMAIN rest :
            /\ rest[p] \in Entry(Name) /\ rest[p].name = push.list[p].name
            /\ rest[p].refCount = push.list[p].refCount - drop[p]
  <2>1. CASE use[k] = push.ptr
    <3>1. rest = push.list
      BY <2>1 DEF Release
    <3>2. \A p \in DOMAIN push.list : push.list[p].refCount \in Nat /\ drop[p] = 0
      BY <1>2, <1>3, <2>1 DEF Entry
    <3>3. \A p \in DOMAIN push.list : push.list[p].refCount - drop[p] = push.list[p].refCount
      BY <3>2
    <3> QED BY <1>3, <3>1, <3>3
  <2>2. CASE use[k] # push.ptr
    <3> DEFINE old == use[k]
    <3>1. rest = PopRefs(push.list, {old}, [p \in {old} |-> p])
      BY <2>2 DEF Release
    <3>2. DOMAIN rest = {q \in DOMAIN push.list :
                            push.list[q].refCount > Cardinality({s \in {old} : [p \in {old} |-> p][s] = q})}
      BY <3>1 DEF PopRefs
    <3>3. \A q \in Pointer : Cardinality({s \in {old} : [p \in {old} |-> p][s] = q}) = drop[q]
      <4>1. ASSUME NEW q \in Pointer, q = old
            PROVE  Cardinality({s \in {old} : [p \in {old} |-> p][s] = q}) = drop[q]
        <5>1. {s \in {old} : [p \in {old} |-> p][s] = q} = {old}
          BY <4>1
        <5> QED BY <2>2, <4>1, <5>1, FS_Singleton
      <4>2. ASSUME NEW q \in Pointer, q # old
            PROVE  Cardinality({s \in {old} : [p \in {old} |-> p][s] = q}) = drop[q]
        <5>1. {s \in {old} : [p \in {old} |-> p][s] = q} = {}
          BY <4>2
        <5> QED BY <4>2, <5>1, FS_EmptySet
      <4> QED BY <4>1, <4>2
    <3>4. \A p \in DOMAIN rest :
             rest[p] = [push.list[p] EXCEPT !.refCount = @ - Cardinality({s \in {old} : [r \in {old} |-> r][s] = p})]
      BY <3>1, <3>2 DEF PopRefs
    <3>5. \A p \in Pointer : drop[p] \in Nat
      OBVIOUS
    <3> HIDE DEF rest, drop
    <3>6. ASSUME NEW p \in DOMAIN rest
          PROVE  /\ rest[p] \in Entry(Name) /\ rest[p].name = push.list[p].name
                 /\ rest[p].refCount = push.list[p].refCount - drop[p]
      <4>1. p \in Pointer /\ push.list[p] \in [name : Name, refCount : Nat \ {0}]
              /\ drop[p] \in Nat /\ push.list[p].refCount > drop[p]
        BY <1>2, <1>3, <3>2, <3>3, <3>5 DEF Entry
      <4>2. rest[p] = [push.list[p] EXCEPT !.refCount = @ - drop[p]]
        BY <3>3, <3>4, <4>1
      <4>3. push.list[p].refCount - drop[p] \in Nat \ {0}
        BY <4>1
      <4> QED BY <4>1, <4>2, <4>3 DEF Entry
    <3> QED BY <3>2, <3>6
  <2> QED BY <2>1, <2>2
<1>6. ASSUME NEW p \in DOMAIN rest PROVE rest[p].refCount <= Cardinality(Users(new, p))
  <2>1. /\ p = push.ptr => Users(new, p) = Users(use, p) \cup {k}
        /\ p # push.ptr => Users(new, p) = Users(use, p) \ {k}
    <3>1. /\ DOMAIN new = DOMAIN use \cup {k} /\ new[k] = push.ptr
          /\ \A j \in DOMAIN use \ {k} : new[j] = use[j]
      BY DEF Put
    <3> HIDE DEF new
    <3> QED BY <3>1 DEF Users
  <2>2. k \in Users(use, p) <=> use[k] = p
    BY DEF Users
  <2>3. IsFiniteSet(Users(use, p)) /\ Cardinality(Users(use, p)) \in Nat
    BY <1>2, UsersFinite
  <2>4. p \in Pointer /\ p \in DOMAIN push.list /\ push.list[p].refCount \in Nat \ {0}
          /\ rest[p].refCount = push.list[p].refCount - drop[p]
    BY <1>2, <1>3, <1>5 DEF Entry
  <2>5. p \in DOMAIN list => list[p].refCount <= Cardinality(Users(use, p)) /\ list[p].refCount \in Nat
    BY DEF Counted, Entry
  <2>6. CASE p = push.ptr
    <3>1. drop[p] = 0
      BY <2>4, <2>6
    <3>2. Cardinality(Users(new, p)) =
            IF use[k] = p THEN Cardinality(Users(use, p)) ELSE Cardinality(Users(use, p)) + 1
      BY <2>1, <2>2, <2>3, <2>6, FS_AddElement
    <3>3. use[k] = p => Cardinality(Users(use, p)) >= 1
      BY <2>2, <2>3, FS_EmptySet
    <3> HIDE DEF rest, drop, new
    <3> QED BY <1>1, <2>3, <2>4, <2>5, <2>6, <3>1, <3>2, <3>3
  <2>7. CASE p # push.ptr
    <3>1. drop[p] = IF p = use[k] THEN 1 ELSE 0
      BY <2>4, <2>7
    <3>2. Cardinality(Users(new, p)) =
            IF use[k] = p THEN Cardinality(Users(use, p)) - 1 ELSE Cardinality(Users(use, p))
      BY <2>1, <2>2, <2>3, <2>7, FS_RemoveElement
    <3>3. p \in DOMAIN list /\ push.list[p] = list[p]
      BY <1>1, <2>4, <2>7
    <3> HIDE DEF rest, drop, new
    <3> QED BY <2>3, <2>4, <2>5, <3>1, <3>2, <3>3
  <2> QED BY <2>6, <2>7
<1>7. IsFiniteSet(DOMAIN new)
  BY <1>2, NewUser DEF new
<1> HIDE DEF new, rest, drop
<1>8. Counted(rest, Name, new)
  BY <1>2, <1>4, <1>5, <1>6, <1>7 DEF Counted
<1> QED BY <1>1, <1>8 DEF new, rest

LEMMA PopCounted ==
    ASSUME NEW list, NEW Name, NEW use, Counted(list, Name, use), NEW S \in SUBSET (DOMAIN use),
           NEW ptr, \A s \in S : ptr[s] = use[s],
           NEW kept, kept = [k \in DOMAIN use \ S |-> use[k]],
           NEW rest, rest = PopRefs(list, S, ptr)
    PROVE  Counted(rest, Name, kept)
<1> DEFINE pops == [p \in DOMAIN list |-> Cardinality({s \in S : ptr[s] = p})]
<1>1. IsFiniteSet(DOMAIN use) /\ DOMAIN kept = DOMAIN use \ S /\ IsFiniteSet(DOMAIN kept)
  <2>1. IsFiniteSet(DOMAIN use) /\ DOMAIN kept = DOMAIN use \ S
    BY DEF Counted
  <2> QED BY <2>1, FS_Difference
<1>2. ASSUME NEW p \in DOMAIN list
      PROVE  /\ pops[p] = Cardinality({s \in S : ptr[s] = p}) /\ pops[p] \in Nat
             /\ Cardinality(Users(kept, p)) = Cardinality(Users(use, p)) - pops[p]
  <2> DEFINE gone == {s \in S : ptr[s] = p}
  <2>1. gone \in SUBSET Users(use, p) /\ Users(kept, p) = Users(use, p) \ gone
    BY DEF Users
  <2>2. IsFiniteSet(Users(use, p))
    BY <1>1, UsersFinite
  <2>3. IsFiniteSet(gone) /\ Cardinality(gone) \in Nat
    <3> HIDE DEF gone
    <3> QED BY <2>1, <2>2, FS_Subset, FS_CardinalityType
  <2>4. Cardinality(Users(kept, p)) = Cardinality(Users(use, p)) - Cardinality(gone)
    <3> HIDE DEF gone
    <3>1. Users(use, p) \cap gone = gone
      BY <2>1
    <3> QED BY <2>1, <2>2, <3>1, FS_Difference
  <2>5. pops[p] = Cardinality(gone)
    OBVIOUS
  <2> QED BY <2>3, <2>4, <2>5
<1> HIDE DEF pops
<1>3. /\ DOMAIN rest \subseteq DOMAIN list
      /\ \A p \in DOMAIN rest : /\ rest[p] \in Entry(Name) /\ rest[p].name = list[p].name
                                /\ rest[p].refCount = list[p].refCount - pops[p]
  <2>1. \A p \in DOMAIN list : pops[p] = Cardinality({s \in S : ptr[s] = p}) /\ pops[p] \in Nat
    BY <1>2
  <2> QED BY <2>1, PopsLeave
<1>4. ASSUME NEW p \in DOMAIN rest PROVE rest[p].refCount <= Cardinality(Users(kept, p))
  <2>1. p \in DOMAIN list /\ rest[p].refCount = list[p].refCount - pops[p]
    BY <1>3
  <2>2. list[p].refCount <= Cardinality(Users(use, p)) /\ list[p].refCount \in Nat
    BY <2>1 DEF Counted, Entry
  <2>3. Cardinality(Users(use, p)) \in Nat
    BY <1>1, UsersFinite
  <2>4. pops[p] \in Nat /\ Cardinality(Users(kept, p)) = Cardinality(Users(use, p)) - pops[p]
    BY <1>2, <2>1
  <2> QED BY <2>1, <2>2, <2>3, <2>4
<1>5. DOMAIN rest \subseteq Pointer /\ \A p, q \in DOMAIN rest : rest[p].name = rest[q].name => p = q
  BY <1>3 DEF Counted
<1> QED BY <1>1, <1>3, <1>4, <1>5 DEF Counted

-----------------------------------------------------------------------------
(***************************************************************************)
(* Both lists of the database                                              *)
(***************************************************************************)
Games == [k \in DOMAIN servers |-> servers[k].game]
Missions == [k \in DOMAIN servers |-> servers[k].mission]

RecordsOK == /\ now \in Epoch .. MaxClock
             /\ \A k \in DOMAIN servers : servers[k] \in Record /\ Slot(servers[k].addr) = k
             /\ DOMAIN reports \subseteq Server

TInv == /\ RecordsOK
        /\ Counted(gameTypes, GameType, Games)
        /\ Counted(missionTypes, MissionType, Missions)

LEMMA InitTInv == Init => TInv
<1> SUFFICES ASSUME Init PROVE TInv
  OBVIOUS
<1>1. servers = <<>> /\ gameTypes = <<>> /\ missionTypes = <<>> /\ reports = <<>> /\ now = Epoch
  BY DEF Init
<1>2. RecordsOK
  BY <1>1, StoreAssumption DEF RecordsOK
<1>3. DOMAIN Games = {} /\ DOMAIN Missions = {}
  BY <1>1 DEF Games, Missions
<1>4. IsFiniteSet({})
  BY FS_EmptySet
<1>5. Counted(gameTypes, GameType, Games) /\ Counted(missionTypes, MissionType, Missions)
  BY <1>1, <1>3, <1>4 DEF Counted
<1> QED BY <1>2, <1>5 DEF TInv

\* A report puts a record that has the pointers g and m.
LEMMA PutTInv ==
    ASSUME TInv, NEW s \in Server, NEW info \in Info, Reported(s, info),
           NEW addr \in Server, Slot(addr) = Slot(s), NEW g \in Pointer, NEW m \in Pointer,
           servers' = Put(servers, Slot(s), [addr |-> addr, game |-> g, mission |-> m,
                                             props |-> info.props, last_info |-> now])
    PROVE  /\ RecordsOK'
           /\ Games' = Put(Games, Slot(s), g) /\ Missions' = Put(Missions, Slot(s), m)
<1>1. /\ DOMAIN servers' = DOMAIN servers \cup {Slot(s)}
      /\ \A k \in DOMAIN servers \ {Slot(s)} : servers'[k] = servers[k]
      /\ servers'[Slot(s)] = [addr |-> addr, game |-> g, mission |-> m,
                              props |-> info.props, last_info |-> now]
  BY DEF Put
<1>2. now' = now /\ DOMAIN reports' = DOMAIN reports \cup {s} /\ info.props \in Props
  BY DEF Reported, Put, Info
<1>3. RecordsOK'
  BY <1>1, <1>2 DEF TInv, RecordsOK, Record
<1>4. Games' = Put(Games, Slot(s), g)
  <2>1. DOMAIN Games' = DOMAIN servers' /\ DOMAIN Games = DOMAIN servers
    BY DEF Games
  <2>2. ASSUME NEW k \in DOMAIN servers' PROVE Games'[k] = Put(Games, Slot(s), g)[k]
    BY <1>1 DEF Games, Put
  <2> QED BY <1>1, <2>1, <2>2 DEF Games, Put
<1>5. Missions' = Put(Missions, Slot(s), m)
  <2>1. DOMAIN Missions' = DOMAIN servers' /\ DOMAIN Missions = DOMAIN servers
    BY DEF Missions
  <2>2. ASSUME NEW k \in DOMAIN servers' PROVE Missions'[k] = Put(Missions, Slot(s), m)[k]
    BY <1>1 DEF Missions, Put
  <2> QED BY <1>1, <2>1, <2>2 DEF Missions, Put
<1> QED BY <1>3, <1>4, <1>5

LEMMA AddTInv ==
    ASSUME TInv, NEW s \in Server, NEW info \in Info, AddServer(s, info)
    PROVE  TInv'
<1>1. PICK g \in Push(gameTypes, info.game, TRUE), m \in Push(missionTypes, info.mission, TRUE) :
         /\ servers' = Put(servers, Slot(s), [addr |-> s, game |-> g.ptr, mission |-> m.ptr,
                                              props |-> info.props, last_info |-> now])
         /\ gameTypes' = g.list /\ missionTypes' = m.list
  BY DEF AddServer
<1>2. Slot(s) \notin DOMAIN servers /\ Reported(s, info)
  BY DEF AddServer
<1>3. info.game \in GameType /\ info.mission \in MissionType
  BY DEF Info
<1>4. /\ Counted(gameTypes, GameType, Games) /\ Slot(s) \notin DOMAIN Games
      /\ Counted(missionTypes, MissionType, Missions) /\ Slot(s) \notin DOMAIN Missions
  BY <1>2 DEF TInv, Games, Missions
<1>5. Counted(g.list, GameType, Put(Games, Slot(s), g.ptr)) /\ g.ptr \in Pointer
  BY <1>3, <1>4, AddCounted
<1>6. Counted(m.list, MissionType, Put(Missions, Slot(s), m.ptr)) /\ m.ptr \in Pointer
  BY <1>3, <1>4, AddCounted
<1>7. RecordsOK' /\ Games' = Put(Games, Slot(s), g.ptr) /\ Missions' = Put(Missions, Slot(s), m.ptr)
  BY <1>1, <1>2, <1>5, <1>6, PutTInv
<1> QED BY <1>1, <1>5, <1>6, <1>7 DEF TInv

LEMMA RenewTInv ==
    ASSUME TInv, NEW s \in Server, NEW info \in Info, RenewServer(s, info)
    PROVE  TInv'
<1> DEFINE rec == servers[Slot(s)]
<1>1. PICK g \in Push(gameTypes, info.game, FALSE), m \in Push(missionTypes, info.mission, FALSE) :
         /\ servers' = Put(servers, Slot(s), [addr |-> rec.addr, game |-> g.ptr, mission |-> m.ptr,
                                              props |-> info.props, last_info |-> now])
         /\ gameTypes' = Release(g.list, rec.game, g.ptr)
         /\ missionTypes' = Release(m.list, rec.mission, m.ptr)
  BY DEF RenewServer
<1>2. Slot(s) \in DOMAIN servers /\ Reported(s, info)
  BY DEF RenewServer
<1>3. info.game \in GameType /\ info.mission \in MissionType
  BY DEF Info
<1>4. /\ Counted(gameTypes, GameType, Games) /\ Slot(s) \in DOMAIN Games
      /\ Counted(missionTypes, MissionType, Missions) /\ Slot(s) \in DOMAIN Missions
      /\ Games[Slot(s)] = rec.game /\ Missions[Slot(s)] = rec.mission
  BY <1>2 DEF TInv, Games, Missions
<1>5. Counted(Release(g.list, rec.game, g.ptr), GameType, Put(Games, Slot(s), g.ptr)) /\ g.ptr \in Pointer
  BY <1>3, <1>4, RenewCounted
<1>6. Counted(Release(m.list, rec.mission, m.ptr), MissionType, Put(Missions, Slot(s), m.ptr)) /\ m.ptr \in Pointer
  BY <1>3, <1>4, RenewCounted
<1>7. rec.addr \in Server /\ Slot(rec.addr) = Slot(s)
  BY <1>2 DEF TInv, RecordsOK, Record
<1>8. RecordsOK' /\ Games' = Put(Games, Slot(s), g.ptr) /\ Missions' = Put(Missions, Slot(s), m.ptr)
  BY <1>1, <1>2, <1>5, <1>6, <1>7, PutTInv
<1> QED BY <1>1, <1>5, <1>6, <1>8 DEF TInv

LEMMA SweepTInv == ASSUME TInv, DoProcessing PROVE TInv'
<1>1. Removed \in SUBSET (DOMAIN servers)
  BY DEF Removed, VisitedFrom
<1>2. /\ DOMAIN servers' = DOMAIN servers \ Removed
      /\ \A k \in DOMAIN servers' : servers'[k] = servers[k]
      /\ now' = now /\ DOMAIN reports' \subseteq DOMAIN reports
  BY DEF DoProcessing
<1>3. RecordsOK'
  BY <1>2 DEF TInv, RecordsOK, Record
<1>4. Counted(gameTypes', GameType, Games')
  <2>1. Games' = [k \in DOMAIN Games \ Removed |-> Games[k]]
    BY <1>2 DEF Games
  <2>2. gameTypes' = PopRefs(gameTypes, Removed, [k \in Removed |-> servers[k].game])
    BY DEF DoProcessing
  <2>3. Removed \in SUBSET (DOMAIN Games) /\ \A k \in Removed : [j \in Removed |-> servers[j].game][k] = Games[k]
    BY <1>1 DEF Games
  <2> QED BY <2>1, <2>2, <2>3, PopCounted DEF TInv
<1>5. Counted(missionTypes', MissionType, Missions')
  <2>1. Missions' = [k \in DOMAIN Missions \ Removed |-> Missions[k]]
    BY <1>2 DEF Missions
  <2>2. missionTypes' = PopRefs(missionTypes, Removed, [k \in Removed |-> servers[k].mission])
    BY DEF DoProcessing
  <2>3. Removed \in SUBSET (DOMAIN Missions) /\ \A k \in Removed : [j \in Removed |-> servers[j].mission][k] = Missions[k]
    BY <1>1 DEF Missions
  <2> QED BY <2>1, <2>2, <2>3, PopCounted DEF TInv
<1> QED BY <1>3, <1>4, <1>5 DEF TInv

LEMMA NextTInv == TInv /\ [Next]_vars => TInv'
<1> SUFFICES ASSUME TInv, [Next]_vars PROVE TInv'
  OBVIOUS
<1>1. ASSUME NEW s \in Server, NEW info \in Info, UpdateServer(s, info) PROVE TInv'
  BY <1>1, AddTInv, RenewTInv DEF UpdateServer
<1>2. CASE DoProcessing
  BY <1>2, SweepTInv
<1>3. CASE Tick
  BY <1>3, StoreAssumption DEF Tick, types, TInv, RecordsOK, Record, Games, Missions
<1>4. CASE UNCHANGED vars
  BY <1>4 DEF vars, TInv, RecordsOK, Record, Games, Missions
<1>5. ASSUME NEW s \in Server, HeartbeatServer(s) PROVE TInv'
  BY <1>4, <1>5 DEF HeartbeatServer
<1> QED BY <1>1, <1>2, <1>3, <1>4, <1>5 DEF Next

\* The type invariant: every record is in the slot of its own address, and the
\* type lists hold each name once, wherever the heap puts new names.
THEOREM TypesCorrect == Spec => []TypeOK
<1>1. TInv => TypeOK
  BY DEF TInv, RecordsOK, TypeOK, IsTypeList, Counted, Entry
<1> QED BY <1>1, InitTInv, NextTInv, PTL DEF Spec

\* No name's count exceeds the number of records that have its pointer, so a
\* name without servers is not kept: PopRef frees names too early, never late.
THEOREM CountsInUse == Spec => []TypesInUse
<1>1. TInv => TypesInUse
  <2> SUFFICES ASSUME TInv PROVE TypesInUse
    OBVIOUS
  <2>1. \A p : Users(Games, p) = UsersOfGame(p) /\ Users(Missions, p) = UsersOfMission(p)
    BY DEF Users, Games, Missions, UsersOfGame, UsersOfMission
  <2> QED BY <2>1 DEF TInv, Counted, TypesInUse
<1> QED BY <1>1, InitTInv, NextTInv, PTL DEF Spec

=============================================================================
