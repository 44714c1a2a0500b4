------------------------- MODULE FloodControlProofs -------------------------
(***************************************************************************)
(* What holds of FloodControl for every set of addresses, every preference *)
(* and every clock that ClockAssumption allows.                            *)
(***************************************************************************)
EXTENDS FloodControl, MapSweepProofs, TLAPS

(***************************************************************************)
(* Arithmetic of S32 timestamps                                            *)
(***************************************************************************)

\* A sum that fits is stored as it is.
LEMMA WrapFits ==
    ASSUME NEW n \in 0 .. SignBit - 1
    PROVE  Wrap(n) = n
BY ClockAssumption DEF Wrap

\* A sum of two timestamps beyond 2^31 is stored as a negative number.
LEMMA WrapOverflows ==
    ASSUME NEW n \in SignBit .. 2 * SignBit - 1
    PROVE  Wrap(n) = n - 2 * SignBit
BY ClockAssumption DEF Wrap

-----------------------------------------------------------------------------
(***************************************************************************)
(* The inductive invariant                                                 *)
(***************************************************************************)

\* A record between two handlers at time t.  That a ban was set at or after
\* Epoch is what makes a second one overflow, and so end at once.
GoodPeer(p, t) ==
    p \in [tsLastSeen    : 0 .. t,
           tsLastReset   : 0 .. t,
           tsBannedUntil : {0} \cup Epoch .. t + BanTime,
           tickets       : 0 .. MaxTickets - 1]

\* A session list whose host was last seen at time t.
GoodList(list, t) == /\ list \in Seq(Session)
                     /\ Len(list) <= SESSION_MAX
                     /\ \A i \in 1 .. Len(list) : list[i].lastUsed <= t

RecordsInv == /\ now \in Epoch .. MaxClock
              /\ DOMAIN peers \subseteq Address
              /\ peers = [a \in DOMAIN peers |-> peers[a]]
              /\ \A a \in DOMAIN peers : GoodPeer(peers[a], now)

SessionsInv == /\ DOMAIN sessions = DOMAIN peers
               /\ \A a \in DOMAIN peers : GoodList(sessions[a], peers[a].tsLastSeen)
               /\ BannedHasNoSessions

HistoryInv == /\ DOMAIN lastActive = DOMAIN peers
              /\ \A a \in DOMAIN peers : lastActive[a] \in 0 .. peers[a].tsLastSeen

IInv == RecordsInv /\ CursorValid /\ SessionsInv /\ HistoryInv

-----------------------------------------------------------------------------
(***************************************************************************)
(* What the operations do to one record                                    *)
(***************************************************************************)

LEMMA NewPeerGood ==
    ASSUME now \in Epoch .. MaxClock
    PROVE  GoodPeer(NewPeer, now) /\ ~Banned(NewPeer)
BY PrefsAssumption, ClockAssumption DEF NewPeer, Record, GoodPeer, Banned

LEMMA CheckPeerGood ==
    ASSUME now \in Epoch .. MaxClock, NEW p, GoodPeer(p, now)
    PROVE  /\ GoodPeer(CheckPeer(p), now)
           /\ CheckPeer(p).tsBannedUntil =
                IF Banned(p) /\ p.tsBannedUntil <= now THEN 0 ELSE p.tsBannedUntil
           /\ CheckPeer(p).tsLastSeen =
                IF Banned(p) /\ p.tsBannedUntil <= now THEN now ELSE p.tsLastSeen
<1>1. GoodPeer(ResetTickets(p), now) /\ ResetTickets(p).tsBannedUntil = p.tsBannedUntil
                                     /\ ResetTickets(p).tsLastSeen = p.tsLastSeen
  BY PrefsAssumption, ClockAssumption DEF GoodPeer, ResetTickets, Record
<1> DEFINE q == ResetTickets(p)
<1> HIDE DEF q
<1>2. GoodPeer(LiftBan(q), now)
         /\ LiftBan(q).tsBannedUntil = (IF Banned(q) /\ q.tsBannedUntil <= now THEN 0 ELSE q.tsBannedUntil)
         /\ LiftBan(q).tsLastSeen = (IF Banned(q) /\ q.tsBannedUntil <= now THEN now ELSE q.tsLastSeen)
  BY <1>1, ClockAssumption DEF GoodPeer, LiftBan, Record, Banned, q
<1> QED BY <1>1, <1>2 DEF CheckPeer, q, Banned

\* RepPeer on a host that is not banned: the ban it may set is well formed.
LEMMA RepPeerUnbanned ==
    ASSUME now \in Epoch .. MaxClock, NEW p, GoodPeer(p, now), ~Banned(p), NEW n \in Nat \ {0}
    PROVE  /\ GoodPeer(RepPeer(p, n), now)
           /\ RepPeer(p, n).tsLastSeen = now
           /\ RepPeer(p, n).tsBannedUntil = IF Trips(p, n) THEN now + BanTime ELSE 0
<1>1. p.tsBannedUntil = 0 /\ now + BanTime \in 0 .. SignBit - 1
  BY PrefsAssumption, ClockAssumption DEF Banned
<1>2. Wrap(p.tsBannedUntil + now + BanTime) = now + BanTime
  <2>1. p.tsBannedUntil + now + BanTime = now + BanTime
    BY <1>1, PrefsAssumption, ClockAssumption
  <2> QED BY <1>1, <2>1, WrapFits
<1>3. CASE Trips(p, n)
  <2>1. RepPeer(p, n) = Record(now, p.tsLastReset, now + BanTime, 0)
    BY <1>2, <1>3 DEF RepPeer
  <2> QED BY <2>1, <1>3, PrefsAssumption, ClockAssumption DEF GoodPeer, Record
<1>4. CASE ~Trips(p, n)
  BY <1>1, <1>4, PrefsAssumption, ClockAssumption DEF GoodPeer, RepPeer, Trips, Record
<1> QED BY <1>3, <1>4

\* RepPeer on a banned host: the maximum reached again leaves a negative time.
LEMMA RepPeerBanned ==
    ASSUME now \in Epoch .. MaxClock, NEW p, GoodPeer(p, now), Banned(p), Trips(p, 1)
    PROVE  RepPeer(p, 1).tsBannedUntil < 0
<1>1. p.tsBannedUntil \in Epoch .. now + BanTime
  BY DEF GoodPeer, Banned
<1>2. p.tsBannedUntil + now + BanTime \in SignBit .. 2 * SignBit - 1
  BY <1>1, PrefsAssumption, ClockAssumption
<1>3. RepPeer(p, 1).tsBannedUntil = Wrap(p.tsBannedUntil + now + BanTime)
  BY DEF RepPeer, Record
<1> QED BY <1>1, <1>2, <1>3, WrapOverflows, PrefsAssumption, ClockAssumption

\* The gate leaves a good record, and bans only where the host was banned
\* already or the packet's ticket trips the maximum.
LEMMA GateGood ==
    ASSUME now \in Epoch .. MaxClock, NEW p, GoodPeer(p, now),
           NEW g, g = CheckPeer(RepPeer(p, 1))
    PROVE  /\ GoodPeer(g, now)
           /\ g.tsLastSeen = now
           /\ Banned(p) /\ Trips(p, 1) => ~Banned(g)
           /\ Banned(p) /\ ~Trips(p, 1) =>
                g.tsBannedUntil = IF p.tsBannedUntil <= now THEN 0 ELSE p.tsBannedUntil
           /\ ~Banned(p) => ~Banned(g) \/ (Trips(p, 1) /\ g.tsBannedUntil = now + BanTime)
<1> DEFINE r == RepPeer(p, 1)
<1>1. CASE ~Banned(p)
  <2>1. GoodPeer(r, now) /\ r.tsLastSeen = now
                         /\ r.tsBannedUntil = IF Trips(p, 1) THEN now + BanTime ELSE 0
    BY <1>1, RepPeerUnbanned
  <2> HIDE DEF r
  <2> QED BY <1>1, <2>1, CheckPeerGood, ClockAssumption DEF Banned, r
<1>2. CASE Banned(p) /\ ~Trips(p, 1)
  <2>1. r = Record(now, p.tsLastReset, p.tsBannedUntil, p.tickets + 1)
    BY <1>2 DEF RepPeer
  <2>2. GoodPeer(r, now) /\ r.tsLastSeen = now /\ r.tsBannedUntil = p.tsBannedUntil
    BY <1>2, <2>1, PrefsAssumption, ClockAssumption DEF GoodPeer, Record, Trips
  <2> HIDE DEF r
  <2> QED BY <1>2, <2>2, CheckPeerGood DEF Banned, r
<1>3. CASE Banned(p) /\ Trips(p, 1)
  <2>1. r = Record(now, p.tsLastReset, r.tsBannedUntil, 0)
    BY <1>3 DEF RepPeer, Record
  <2>2. r.tsBannedUntil < 0
    BY <1>3, RepPeerBanned
  <2>3. r.tsBannedUntil \in Int
    BY <1>3, PrefsAssumption, ClockAssumption DEF GoodPeer, RepPeer, Record, Wrap
  <2> HIDE DEF r
  <2>4. PICK reset \in 0 .. now : ResetTickets(r) = Record(now, reset, r.tsBannedUntil, 0)
    BY <2>1, ClockAssumption DEF ResetTickets, Record, GoodPeer
  <2>5. LiftBan(ResetTickets(r)) = Record(now, reset, 0, 0)
    BY <2>2, <2>3, <2>4, ClockAssumption DEF LiftBan, Banned, Record
  <2>6. g = Record(now, reset, 0, 0)
    BY <2>5 DEF CheckPeer, r
  <2> QED BY <1>3, <2>6, PrefsAssumption, ClockAssumption DEF GoodPeer, Banned, Record
<1> QED BY <1>1, <1>2, <1>3

-----------------------------------------------------------------------------
(***************************************************************************)
(* What the operations do to one session list                              *)
(***************************************************************************)

\* The walk of CheckSessions, one element at a time.
WalkStep(list, n, sofar) ==
    IF list[n].lastUsed + SESSION_EXPIRE_TIME > now THEN Append(sofar, list[n]) ELSE sofar

IsWalk(list, k, f) ==
    f = [n \in 0 .. k |-> IF n = 0 THEN <<>> ELSE WalkStep(list, n, f[n - 1])]

\* The recursive function of CheckSessions exists.
LEMMA WalkExists ==
    ASSUME NEW list \in Seq(Session)
    PROVE  \E f : IsWalk(list, Len(list), f)
<1> DEFINE len == Len(list)
           step == [x \in Seq(Session) \X (1 .. len) |-> WalkStep(list, x[2], x[1])]
<1>1. len \in Nat /\ <<>> \in Seq(Session) /\ \A n \in 1 .. len : list[n] \in Session
  OBVIOUS
<1>2. \A sofar \in Seq(Session), n \in 1 .. len : WalkStep(list, n, sofar) \in Seq(Session)
  BY <1>1 DEF WalkStep
<1>3. /\ step \in [Seq(Session) \X (1 .. len) -> Seq(Session)]
      /\ \A sofar \in Seq(Session), n \in 1 .. len : step[<<sofar, n>>] = WalkStep(list, n, sofar)
  BY <1>2
<1> HIDE DEF step
<1>4. PICK f \in [0 .. len -> Seq(Session)] : IsRecursion(f, len, <<>>, step)
  BY <1>1, <1>3, RecursionDefines
<1>5. \A n \in 0 .. len : f[n] = IF n = 0 THEN <<>> ELSE WalkStep(list, n, f[n - 1])
  <2>1. \A n \in 0 .. len : f[n] = IF n = 0 THEN <<>> ELSE step[<<f[n - 1], n>>]
    BY <1>4 DEF IsRecursion
  <2>2. \A n \in 1 .. len : n - 1 \in 0 .. len /\ f[n - 1] \in Seq(Session)
    BY <1>1, <1>4
  <2>3. \A n \in 1 .. len : step[<<f[n - 1], n>>] = WalkStep(list, n, f[n - 1])
    BY <1>3, <2>2
  <2>4. \A n \in 0 .. len : n = 0 \/ n \in 1 .. len
    BY <1>1
  <2> QED BY <2>1, <2>3, <2>4
<1> QED BY <1>4, <1>5 DEF IsWalk

\* CheckSessions drops sessions and does nothing else: it invents none, makes
\* no list longer, leaves an empty list empty, and keeps none that has expired.
LEMMA CheckSessionsGood ==
    ASSUME NEW t \in Nat, NEW list, GoodList(list, t)
    PROVE  /\ GoodList(CheckSessions(list), t)
           /\ list = <<>> => CheckSessions(list) = <<>>
           /\ \A i \in 1 .. Len(CheckSessions(list)) :
                 CheckSessions(list)[i].lastUsed + SESSION_EXPIRE_TIME > now
<1> DEFINE len == Len(list)
           W == CHOOSE f : IsWalk(list, len, f)
<1>1. len \in Nat /\ list \in Seq(Session) /\ \A n \in 1 .. len : list[n] \in Session
  BY DEF GoodList
<1>2. CheckSessions(list) = W[len]
  BY DEF CheckSessions, IsWalk, WalkStep
<1>3. IsWalk(list, len, W)
  BY <1>1, WalkExists
<1> HIDE DEF W
<1>4. W[0] = <<>> /\ \A n \in 1 .. len : W[n] = WalkStep(list, n, W[n - 1])
  BY <1>1, <1>3 DEF IsWalk
<1> DEFINE Good(s, n) == /\ s \in Seq(Session)
                         /\ Len(s) <= n
                         /\ \A i \in 1 .. Len(s) : s[i].lastUsed <= t
                         /\ \A i \in 1 .. Len(s) : s[i].lastUsed + SESSION_EXPIRE_TIME > now
           Fails == {n \in 0 .. len : ~Good(W[n], n)}
<1>5. Fails = {}
  <2> SUFFICES ASSUME Fails # {} PROVE FALSE
    OBVIOUS
  <2>1. PICK k \in Fails : \A j \in Fails : k <= j
    <3>1. Fails \subseteq Nat
      BY <1>1
    <3> HIDE DEF Fails
    <3> QED BY <3>1, LeastElement
  <2>2. Good(W[0], 0)
    BY <1>4
  <2>3. k \in 1 .. len /\ k - 1 \in 0 .. len /\ k - 1 \notin Fails
    BY <1>1, <2>1, <2>2
  <2>4. Good(W[k - 1], k - 1)
    BY <2>3
  <2>5. list[k] \in Session /\ list[k].lastUsed <= t
    BY <1>1, <2>3 DEF GoodList
  <2>6. list[k].lastUsed + SESSION_EXPIRE_TIME > now => Good(Append(W[k - 1], list[k]), k)
    BY <1>1, <2>3, <2>4, <2>5
  <2>7. Good(W[k - 1], k)
    BY <1>1, <2>3, <2>4
  <2> HIDE DEF Good
  <2>8. Good(W[k], k)
    BY <1>4, <2>3, <2>6, <2>7 DEF WalkStep
  <2> QED BY <2>1, <2>8
<1>6. Good(W[len], len)
  BY <1>1, <1>5
<1>7. Len(list) <= SESSION_MAX
  BY DEF GoodList
<1>8. GoodList(W[len], t)
  BY <1>1, <1>6, <1>7, LimitsAssumption DEF GoodList
<1>9. list = <<>> => W[len] = <<>>
  BY <1>4
<1>10. \A i \in 1 .. Len(W[len]) : W[len][i].lastUsed + SESSION_EXPIRE_TIME > now
  BY <1>6
<1> QED BY <1>2, <1>8, <1>9, <1>10

LEMMA CreateSessionGood ==
    ASSUME now \in Nat, NEW list, GoodList(list, now), NEW id \in SessionId
    PROVE  GoodList(CreateSession(list, id), now)
<1>1. [id |-> id, lastUsed |-> now] \in Session
  BY DEF Session
<1>2. ASSUME Len(list) < SESSION_MAX
      PROVE  GoodList(Append(list, [id |-> id, lastUsed |-> now]), now)
  BY <1>1, <1>2, LimitsAssumption DEF GoodList
<1>3. Len(list) \in Nat /\ SESSION_MAX \in Nat
  BY LimitsAssumption DEF GoodList
<1> QED BY <1>2, <1>3 DEF CreateSession

LEMMA GetSessionGood ==
    ASSUME now \in Nat, NEW list, GoodList(list, now), NEW id \in SessionId
    PROVE  GoodList(GetSession(list, id), now) /\ (list = <<>> => GetSession(list, id) = <<>>)
<1> DEFINE touched(i) == IF list[i].id = id /\ \A j \in 1 .. i - 1 : list[j].id # id
                         THEN [id |-> id, lastUsed |-> now] ELSE list[i]
<1>1. Len(list) \in Nat /\ DOMAIN list = 1 .. Len(list)
         /\ \A i \in 1 .. Len(list) : list[i] \in Session /\ list[i].lastUsed <= now
  BY DEF GoodList
<1>2. \A i \in 1 .. Len(list) : touched(i) \in Session /\ touched(i).lastUsed <= now
  BY <1>1 DEF Session
<1> HIDE DEF touched
<1>3. GetSession(list, id) = [i \in 1 .. Len(list) |-> touched(i)]
  BY <1>1 DEF GetSession, touched
<1>4. GetSession(list, id) \in Seq(Session) /\ Len(GetSession(list, id)) = Len(list)
  BY <1>1, <1>2, <1>3
<1> QED BY <1>1, <1>2, <1>3, <1>4 DEF GoodList

\* A list that is good for an earlier time is good for a later one.
LEMMA GoodListLater ==
    ASSUME NEW t \in Nat, NEW u \in Nat, t <= u, NEW list, GoodList(list, t)
    PROVE  GoodList(list, u)
<1>1. \A i \in 1 .. Len(list) : list[i] \in Session
  BY DEF GoodList
<1>2. \A i \in 1 .. Len(list) : list[i].lastUsed \in Nat
  BY <1>1 DEF Session
<1> QED BY <1>2 DEF GoodList

LEMMA NoSessionsGood == ASSUME NEW t \in Nat PROVE GoodList(<<>>, t)
BY LimitsAssumption DEF GoodList

-----------------------------------------------------------------------------
(***************************************************************************)
(* The actions preserve the invariant                                      *)
(***************************************************************************)

LEMMA InitInv == Init => IInv
BY ClockAssumption DEF Init, IInv, RecordsInv, CursorValid, SessionsInv, HistoryInv,
                       BannedHasNoSessions

\* A packet of a host leaves a good record and a good list.
LEMMA HandledInv ==
    ASSUME IInv, NEW a \in Address, NEW p, NEW list,
           GoodPeer(p, now), p.tsLastSeen = now, GoodList(list, now),
           Banned(p) => list = <<>>,
           Handled(a, p, list)
    PROVE  IInv'
<1>1. now' = now /\ procIT' = procIT
  BY DEF Handled
<1>2. DOMAIN peers' = DOMAIN peers \cup {a} /\ DOMAIN sessions' = DOMAIN peers'
         /\ DOMAIN lastActive' = DOMAIN peers'
  BY DEF Handled, Put, IInv, SessionsInv, HistoryInv
<1>3. peers'[a] = p /\ sessions'[a] = list /\ lastActive'[a] = now
  BY DEF Handled, Put
<1>4. \A b \in DOMAIN peers \ {a} :
         peers'[b] = peers[b] /\ sessions'[b] = sessions[b] /\ lastActive'[b] = lastActive[b]
  BY DEF Handled, Put, IInv, SessionsInv, HistoryInv
<1>5. RecordsInv'
  <2>1. peers' = [b \in DOMAIN peers' |-> peers'[b]]
    BY DEF Handled, Put
  <2> QED BY <1>1, <1>2, <1>3, <1>4, <2>1 DEF IInv, RecordsInv, GoodPeer
<1>6. CursorValid'
  BY <1>1, <1>2 DEF IInv, CursorValid
<1>7. SessionsInv'
  BY <1>2, <1>3, <1>4 DEF IInv, SessionsInv, BannedHasNoSessions, Banned
<1>8. HistoryInv'
  BY <1>2, <1>3, <1>4, ClockAssumption DEF IInv, RecordsInv, HistoryInv
<1> QED BY <1>5, <1>6, <1>7, <1>8 DEF IInv

\* What every packet finds when it has passed the gate, admitted or not.
LEMMA AtGate ==
    ASSUME IInv, NEW a \in Address
    PROVE  /\ GoodPeer(Gate(a), now) /\ Gate(a).tsLastSeen = now
           /\ GoodList(SessionsAfterGate(a), now)
           /\ Banned(Gate(a)) => SessionsAfterGate(a) = <<>>
<1>1. now \in Epoch .. MaxClock /\ now \in Nat
  BY ClockAssumption DEF IInv, RecordsInv
<1>2. GoodPeer(PeerRecord(a), now)
  BY <1>1, NewPeerGood DEF PeerRecord, IInv, RecordsInv
<1>3. GoodList(SessionsOf(a), now) /\ (Banned(PeerRecord(a)) => SessionsOf(a) = <<>>)
  <2>1. CASE a \in DOMAIN peers
    <3>1. GoodList(sessions[a], peers[a].tsLastSeen) /\ peers[a].tsLastSeen \in 0 .. now
      BY <2>1 DEF IInv, SessionsInv, RecordsInv, GoodPeer
    <3>2. GoodList(sessions[a], now)
      BY <1>1, <3>1, GoodListLater
    <3> QED BY <2>1, <3>2 DEF IInv, SessionsInv, BannedHasNoSessions, SessionsOf, PeerRecord
  <2>2. CASE a \notin DOMAIN peers
    BY <1>1, <2>2, NoSessionsGood DEF SessionsOf
  <2> QED BY <2>1, <2>2
<1>4. GoodList(SessionsAfterGate(a), now)
  BY <1>1, <1>3, NoSessionsGood DEF SessionsAfterGate, ForceExpire
<1>5. GoodPeer(Gate(a), now) /\ Gate(a).tsLastSeen = now
  BY <1>1, <1>2, GateGood DEF Gate
<1>6. Banned(Gate(a)) => SessionsAfterGate(a) = <<>>
  BY <1>1, <1>2, <1>3, GateGood DEF Gate, SessionsAfterGate, ForceExpire
<1> QED BY <1>4, <1>5, <1>6

LEMMA ReceiveInv == ASSUME IInv, NEW a \in Address, Receive(a) PROVE IInv'
<1> DEFINE g == Gate(a)
           list == SessionsAfterGate(a)
<1>1. now \in Epoch .. MaxClock /\ now \in Nat
  BY ClockAssumption DEF IInv, RecordsInv
<1>2. GoodPeer(g, now) /\ g.tsLastSeen = now /\ GoodList(list, now) /\ (Banned(g) => list = <<>>)
  BY AtGate
<1> HIDE DEF g, list
<1>3. CASE Ignore(a)
  BY <1>2, <1>3, HandledInv DEF Ignore, g, list
<1>4. CASE Serve(a)
  BY <1>2, <1>4, HandledInv DEF Serve, g, list
<1>5. CASE ServeMalformed(a)
  <2> DEFINE r == RepPeer(g, BadMsgTickets)
             l == IF Trips(g, BadMsgTickets) THEN ForceExpire ELSE list
  <2>1. ~Banned(g) /\ Handled(a, r, l)
    BY <1>5 DEF ServeMalformed, g, list
  <2>2. GoodPeer(r, now) /\ r.tsLastSeen = now
           /\ r.tsBannedUntil = IF Trips(g, BadMsgTickets) THEN now + BanTime ELSE 0
    BY <1>1, <1>2, <2>1, RepPeerUnbanned, PrefsAssumption
  <2>3. GoodList(l, now) /\ (Banned(r) => l = <<>>)
    BY <1>1, <1>2, <2>2, NoSessionsGood DEF Banned, ForceExpire
  <2> QED BY <2>1, <2>2, <2>3, HandledInv
<1>6. ASSUME NEW id \in SessionId, ServeQuery(a, id) PROVE IInv'
  <2>1. GoodList(CreateSession(list, id), now)
    BY <1>1, <1>2, CreateSessionGood
  <2>2. ~Banned(g) /\ Handled(a, g, CreateSession(list, id))
    BY <1>6 DEF ServeQuery, g, list
  <2> QED BY <1>2, <2>1, <2>2, HandledInv
<1>7. ASSUME NEW id \in SessionId, ServeResend(a, id) PROVE IInv'
  BY <1>1, <1>2, <1>7, GetSessionGood, HandledInv DEF ServeResend, g, list
<1> QED BY <1>3, <1>4, <1>5, <1>6, <1>7 DEF Receive

LEMMA AdvanceValid ==
    ASSUME IInv
    PROVE  Advance \in (DOMAIN peers \ Forgotten) \cup {End}
<1>1. /\ DOMAIN peers \subseteq Nat
      /\ \A a \in DOMAIN peers : a < End
      /\ procIT \in DOMAIN peers \cup {End}
  BY AddressAssumption DEF IInv, RecordsInv, CursorValid
<1>2. Forgotten \subseteq VisitedFrom(DOMAIN peers, procIT, SweepCount)
  BY DEF Forgotten, Visited
<1> QED BY <1>1, <1>2, PlaceAfterValid DEF Advance

LEMMA DoProcessingInv == ASSUME IInv, DoProcessing PROVE IInv'
<1> DEFINE kept == DOMAIN peers \ Forgotten
<1>1. now' = now /\ now \in Epoch .. MaxClock /\ now \in Nat
  BY ClockAssumption DEF DoProcessing, IInv, RecordsInv
<1>2. DOMAIN peers' = kept /\ DOMAIN sessions' = kept /\ DOMAIN lastActive' = kept
         /\ peers' = [a \in kept |-> peers'[a]] /\ kept \subseteq DOMAIN peers
  BY DEF DoProcessing
<1>3. \A a \in kept :
         /\ peers'[a] = IF a \in Visited THEN CheckPeer(peers[a]) ELSE peers[a]
         /\ sessions'[a] = IF a \in Visited THEN CheckSessions(sessions[a]) ELSE sessions[a]
         /\ lastActive'[a] = IF a \in Visited /\ Banned(peers[a]) /\ peers[a].tsBannedUntil <= now
                             THEN now ELSE lastActive[a]
  BY DEF DoProcessing
<1> HIDE DEF kept
<1>4. ASSUME NEW a \in kept
      PROVE  /\ GoodPeer(peers'[a], now)
             /\ Banned(peers'[a]) => Banned(peers[a])
             /\ peers[a].tsLastSeen \in Nat /\ peers'[a].tsLastSeen \in Nat
             /\ peers[a].tsLastSeen <= peers'[a].tsLastSeen
             /\ lastActive'[a] \in 0 .. peers'[a].tsLastSeen
  <2>1. GoodPeer(peers[a], now) /\ lastActive[a] \in 0 .. peers[a].tsLastSeen
    BY <1>2 DEF IInv, RecordsInv, HistoryInv
  <2>2. peers[a].tsLastSeen \in 0 .. now
    BY <2>1 DEF GoodPeer
  <2>3. CASE a \in Visited
    BY <1>1, <1>3, <2>1, <2>2, <2>3, CheckPeerGood DEF Banned
  <2>4. CASE a \notin Visited
    BY <1>1, <1>3, <2>1, <2>2, <2>4
  <2> QED BY <2>3, <2>4
<1>5. RecordsInv'
  BY <1>1, <1>2, <1>4 DEF IInv, RecordsInv
<1>6. CursorValid'
  <2>1. procIT' = Advance
    BY DEF DoProcessing
  <2> QED BY <1>2, <2>1, AdvanceValid DEF CursorValid, kept
<1>7. SessionsInv'
  <2>1. ASSUME NEW a \in kept
        PROVE  GoodList(sessions'[a], peers'[a].tsLastSeen)
               /\ (Banned(peers'[a]) => sessions'[a] = <<>>)
    <3>1. GoodList(sessions[a], peers[a].tsLastSeen) /\ (Banned(peers[a]) => sessions[a] = <<>>)
      BY <1>2 DEF IInv, SessionsInv, BannedHasNoSessions
    <3>2. GoodList(sessions'[a], peers[a].tsLastSeen)
             /\ (sessions[a] = <<>> => sessions'[a] = <<>>)
      BY <1>3, <1>4, <3>1, CheckSessionsGood
    <3> QED BY <1>4, <3>1, <3>2, GoodListLater
  <2> QED BY <1>2, <2>1 DEF SessionsInv, BannedHasNoSessions
<1>8. HistoryInv'
  BY <1>2, <1>4 DEF HistoryInv
<1> QED BY <1>5, <1>6, <1>7, <1>8 DEF IInv

LEMMA TickInv == ASSUME IInv, Tick PROVE IInv'
<1>1. now \in Nat /\ now' = now + 1 /\ now' \in Epoch .. MaxClock
  BY ClockAssumption DEF Tick, IInv, RecordsInv
<1>2. \A p : GoodPeer(p, now) => GoodPeer(p, now + 1)
  BY <1>1, PrefsAssumption, ClockAssumption DEF GoodPeer
<1> QED BY <1>1, <1>2 DEF Tick, IInv, RecordsInv, CursorValid, SessionsInv, HistoryInv,
                          BannedHasNoSessions, Banned

\* The inductive invariant holds in every reachable state.
THEOREM InvariantHolds == Spec => []IInv
<1>1. IInv /\ [Next]_vars => IInv'
  <2> SUFFICES ASSUME IInv, [Next]_vars PROVE IInv'
    OBVIOUS
  <2>1. CASE UNCHANGED vars
    BY <2>1 DEF vars, IInv, RecordsInv, CursorValid, SessionsInv, HistoryInv,
                BannedHasNoSessions, Banned, GoodPeer, GoodList
  <2> QED BY <2>1, ReceiveInv, DoProcessingInv, TickInv DEF Next
<1> QED BY InitInv, <1>1, PTL DEF Spec

-----------------------------------------------------------------------------
(***************************************************************************)
(* The properties                                                          *)
(***************************************************************************)

\* Between two handlers every record and every session list is well formed.
THEOREM TypesCorrect == Spec => []TypeOK
<1>1. IInv => TypeOK
  <2> SUFFICES ASSUME IInv PROVE TypeOK
    OBVIOUS
  <2>1. ASSUME NEW a \in DOMAIN peers PROVE peers[a] \in Peer
    <3>1. now \in Epoch .. MaxClock /\ GoodPeer(peers[a], now)
      BY DEF IInv, RecordsInv
    <3> QED BY <3>1, PrefsAssumption, ClockAssumption DEF GoodPeer, Peer, Timestamp
  <2>2. \A a \in DOMAIN peers : sessions[a] \in Seq(Session) /\ Len(sessions[a]) <= SESSION_MAX
    BY DEF IInv, SessionsInv, GoodList
  <2> QED BY <2>1, <2>2 DEF TypeOK, IInv, RecordsInv, SessionsInv, HistoryInv
<1> QED BY <1>1, InvariantHolds, PTL

\* The sweep's iterator never dangles.
THEOREM CursorNeverDangles == Spec => []CursorValid
<1>1. IInv => CursorValid
  BY DEF IInv
<1> QED BY <1>1, InvariantHolds, PTL

\* No ban lasts longer than BanTime, and none ends at a negative time.
THEOREM BansAreBounded == Spec => []BanBounded
<1>1. IInv => BanBounded
  <2> SUFFICES ASSUME IInv, NEW a \in DOMAIN peers
               PROVE  peers[a].tsBannedUntil \in 0 .. now + BanTime
    BY DEF BanBounded
  <2>1. now \in Epoch .. MaxClock /\ GoodPeer(peers[a], now)
    BY DEF IInv, RecordsInv
  <2> QED BY <2>1, PrefsAssumption, ClockAssumption DEF GoodPeer
<1> QED BY <1>1, InvariantHolds, PTL

\* A banned host has no session.
THEOREM BansEndSessions == Spec => []BannedHasNoSessions
<1>1. IInv => BannedHasNoSessions
  BY DEF IInv, SessionsInv
<1> QED BY <1>1, InvariantHolds, PTL

\* Only the sweep erases records.
LEMMA ReceiveKeepsRecords ==
    ASSUME NEW b \in Address, Receive(b)
    PROVE  /\ DOMAIN peers \subseteq DOMAIN peers'
           /\ \A a \in DOMAIN peers \ {b} : peers'[a] = peers[a]
<1>1. PICK p, list : Handled(b, p, list)
  BY DEF Receive, Ignore, Serve, ServeMalformed, ServeQuery, ServeResend
<1> QED BY <1>1 DEF Handled, Put

LEMMA OnlyForgottenErased ==
    ASSUME [Next]_vars, NEW a \in DOMAIN peers \ DOMAIN peers'
    PROVE  Forgettable(peers[a])
<1>1. CASE DoProcessing
  BY <1>1 DEF DoProcessing, Forgotten
<1>2. CASE Tick \/ UNCHANGED vars
  BY <1>2 DEF Tick, vars
<1>3. CASE \E b \in Address : Receive(b)
  BY <1>3, ReceiveKeepsRecords
<1> QED BY <1>1, <1>2, <1>3 DEF Next

\* A record is erased only ForgetTime after its host was heard or unbanned.
THEOREM IdleOnlyForgotten == Spec => Remembered
<1>1. IInv /\ [Next]_vars => [ForgetsOnlyIdle]_vars
  <2> SUFFICES ASSUME IInv, [Next]_vars, NEW a \in DOMAIN peers \ DOMAIN peers'
               PROVE  ~Banned(peers[a]) /\ lastActive[a] + ForgetTime <= now
    BY DEF ForgetsOnlyIdle
  <2>1. Forgettable(peers[a])
    BY OnlyForgottenErased
  <2>2. lastActive[a] \in 0 .. peers[a].tsLastSeen /\ GoodPeer(peers[a], now)
    BY DEF IInv, HistoryInv, RecordsInv
  <2>3. peers[a].tsLastSeen \in 0 .. now /\ now \in Epoch .. MaxClock
    BY <2>2 DEF GoodPeer, IInv, RecordsInv
  <2> QED BY <2>1, <2>2, <2>3, PrefsAssumption, ClockAssumption DEF Forgettable
<1> QED BY <1>1, InvariantHolds, PTL DEF Spec, Remembered

\* Forgetting a host destroys no session that has time left.
THEOREM NoLiveSessionLost == Spec => LiveSessionsKept
<1>1. IInv /\ [Next]_vars => [ForgetsNoLiveSession]_vars
  <2> SUFFICES ASSUME IInv, [Next]_vars, ForgetTime >= SESSION_EXPIRE_TIME,
                      NEW a \in DOMAIN peers \ DOMAIN peers',
                      NEW i \in DOMAIN sessions[a]
               PROVE  Expired(sessions[a][i])
    BY DEF ForgetsNoLiveSession
  <2>1. ~Banned(peers[a]) /\ peers[a].tsLastSeen + ForgetTime <= now
    BY OnlyForgottenErased DEF Forgettable
  <2>2. GoodList(sessions[a], peers[a].tsLastSeen) /\ GoodPeer(peers[a], now)
    BY DEF IInv, SessionsInv, RecordsInv
  <2>3. sessions[a][i] \in Session /\ sessions[a][i].lastUsed <= peers[a].tsLastSeen
    BY <2>2 DEF GoodList
  <2>4. sessions[a][i].lastUsed \in Nat
    BY <2>3 DEF Session
  <2>5. peers[a].tsLastSeen \in 0 .. now /\ now \in Epoch .. MaxClock
    BY <2>2 DEF GoodPeer, IInv, RecordsInv
  <2> QED BY <2>1, <2>3, <2>4, <2>5, PrefsAssumption, LimitsAssumption, ClockAssumption DEF Expired
<1> QED BY <1>1, InvariantHolds, PTL DEF Spec, LiveSessionsKept

\* A ban ends by its time, or by the host reaching the maximum once more.
THEOREM BansHold == Spec => BanHolds
<1>1. IInv /\ [Next]_vars => [KeepsBans]_vars
  <2> SUFFICES ASSUME IInv, [Next]_vars, NEW a \in DOMAIN peers, Banned(peers[a]),
                      ~(peers[a].tsBannedUntil <= now), ~Trips(peers[a], 1)
               PROVE  a \in DOMAIN peers' /\ peers'[a].tsBannedUntil = peers[a].tsBannedUntil
    BY DEF KeepsBans
  <2>1. GoodPeer(peers[a], now) /\ now \in Epoch .. MaxClock
    BY DEF IInv, RecordsInv
  <2>2. CASE DoProcessing
    <3>1. a \notin Forgotten
      BY DEF Forgotten, Forgettable
    <3> QED BY <2>1, <2>2, <3>1, CheckPeerGood DEF DoProcessing
  <2>3. CASE Tick \/ UNCHANGED vars
    BY <2>3 DEF Tick, vars
  <2>4. ASSUME NEW b \in Address, Receive(b)
        PROVE  a \in DOMAIN peers' /\ peers'[a].tsBannedUntil = peers[a].tsBannedUntil
    <3>1. CASE a # b
      BY <2>4, <3>1, ReceiveKeepsRecords
    <3>2. CASE a = b
      <4>1. Gate(a).tsBannedUntil = peers[a].tsBannedUntil
        BY <2>1, GateGood DEF Gate, PeerRecord
      <4>2. Banned(Gate(a))
        BY <4>1 DEF Banned
      <4>3. Ignore(a)
        BY <2>4, <3>2, <4>2 DEF Receive, Serve, ServeMalformed, ServeQuery, ServeResend
      <4> QED BY <4>1, <4>3 DEF Ignore, Handled, Put
    <3> QED BY <3>1, <3>2
  <2> QED BY <2>2, <2>3, <2>4 DEF Next
<1> QED BY <1>1, InvariantHolds, PTL DEF Spec, BanHolds

\* A ban that a step leaves is the one that was there, or was set by this step
\* for the whole ban time.
LEMMA BansSetOrKept ==
    ASSUME IInv, [Next]_vars, NEW a \in DOMAIN peers', Banned(peers'[a])
    PROVE  \/ peers'[a].tsBannedUntil = now + BanTime
           \/ a \in DOMAIN peers /\ Banned(peers[a]) /\ peers'[a].tsBannedUntil = peers[a].tsBannedUntil
<1>1. now \in Epoch .. MaxClock
  BY DEF IInv, RecordsInv
<1>2. CASE DoProcessing
  <2>1. a \in DOMAIN peers /\ GoodPeer(peers[a], now)
    BY <1>2 DEF DoProcessing, IInv, RecordsInv
  <2> QED BY <1>1, <1>2, <2>1, CheckPeerGood DEF DoProcessing, Banned
<1>3. CASE Tick \/ UNCHANGED vars
  BY <1>3 DEF Tick, vars
<1>4. ASSUME NEW b \in Address, Receive(b), a # b
      PROVE  a \in DOMAIN peers /\ peers'[a] = peers[a]
  <2>1. PICK p, list : Handled(b, p, list)
    BY <1>4 DEF Receive, Ignore, Serve, ServeMalformed, ServeQuery, ServeResend
  <2> QED BY <1>4, <2>1 DEF Handled, Put
<1>5. CASE Receive(a)
  <2>1. GoodPeer(PeerRecord(a), now) /\ GoodPeer(Gate(a), now)
    <3>1. GoodPeer(PeerRecord(a), now)
      BY <1>1, NewPeerGood DEF PeerRecord, IInv, RecordsInv
    <3> QED BY <1>1, <3>1, GateGood DEF Gate
  <2>2. CASE Ignore(a)
    <3>1. peers'[a] = Gate(a)
      BY <2>2 DEF Ignore, Handled, Put
    <3>2. Banned(PeerRecord(a)) => a \in DOMAIN peers /\ PeerRecord(a) = peers[a]
      BY <1>1, NewPeerGood DEF PeerRecord
    <3> QED BY <1>1, <2>1, <3>1, <3>2, GateGood DEF Gate, Banned
  <2>3. CASE ServeMalformed(a)
    <3>1. peers'[a] = RepPeer(Gate(a), BadMsgTickets) /\ ~Banned(Gate(a))
      BY <2>3 DEF ServeMalformed, Handled, Put
    <3> QED BY <1>1, <2>1, <3>1, RepPeerUnbanned, PrefsAssumption DEF Banned
  <2>4. CASE Serve(a) \/ \E id \in SessionId : ServeQuery(a, id) \/ ServeResend(a, id)
    <3>1. peers'[a] = Gate(a) /\ ~Banned(Gate(a))
      BY <2>4 DEF Serve, ServeQuery, ServeResend, Handled, Put
    <3> QED BY <3>1
  <2> QED BY <1>5, <2>2, <2>3, <2>4 DEF Receive
<1> QED BY <1>2, <1>3, <1>4, <1>5 DEF Next

\* The exception of BanHolds is a defect for every choice of preferences: the
\* packet that trips a banned host's maximum lifts its ban, however much of the
\* ban is left, and is served.
THEOREM RebanLiftsBan ==
    ASSUME IInv, NEW a \in DOMAIN peers, Banned(peers[a]), Trips(peers[a], 1)
    PROVE  ~Banned(Gate(a))
<1>1. GoodPeer(peers[a], now) /\ now \in Epoch .. MaxClock
  BY DEF IInv, RecordsInv
<1> QED BY <1>1, GateGood DEF Gate, PeerRecord


-----------------------------------------------------------------------------
(***************************************************************************)
(* What a packet and a call of the sweep do to the times at which          *)
(* something is due                                                        *)
(***************************************************************************)

DueOf(p, list) ==
    {IF Banned(p) THEN p.tsBannedUntil ELSE p.tsLastSeen + ForgetTime}
        \cup {list[i].lastUsed + SESSION_EXPIRE_TIME : i \in DOMAIN list}

LEMMA DueType ==
    ASSUME NEW u \in Nat, NEW p, GoodPeer(p, u), NEW list, GoodList(list, p.tsLastSeen)
    PROVE  \A t \in DueOf(p, list) : t \in Int
<1>1. p.tsBannedUntil \in Int /\ p.tsLastSeen \in Int
  BY PrefsAssumption, ClockAssumption DEF GoodPeer
<1>2. \A i \in DOMAIN list : list[i].lastUsed \in Nat
  <2>1. \A i \in DOMAIN list : list[i] \in Session
    BY DEF GoodList
  <2> QED BY <2>1 DEF Session
<1> QED BY <1>1, <1>2, PrefsAssumption, LimitsAssumption DEF DueOf

\* A session of the list was in the list before, as it is, or was touched now.
LastUses(list, before) ==
    \A i \in DOMAIN list : \/ list[i].lastUsed = now
                           \/ \E j \in DOMAIN before : list[i].lastUsed = before[j].lastUsed

LEMMA HandledDue ==
    ASSUME IInv, NEW a \in Address, NEW p, NEW list, Handled(a, p, list),
           p.tsLastSeen = now, Banned(p) => p.tsBannedUntil > now,
           LastUses(list, SessionsOf(a)),
           NEW b \in DOMAIN peers', NEW t \in DueTimes(b)'
    PROVE  t > now \/ (b \in DOMAIN peers /\ t \in DueTimes(b))
<1>1. now \in Nat /\ {ForgetTime, SESSION_EXPIRE_TIME} \subseteq Nat \ {0}
  BY PrefsAssumption, LimitsAssumption, ClockAssumption DEF IInv, RecordsInv
<1>2. DOMAIN peers' = DOMAIN peers \cup {a} /\ DOMAIN sessions = DOMAIN peers
  BY DEF Handled, Put, IInv, SessionsInv
<1>3. CASE b = a
  <2>1. peers'[b] = p /\ sessions'[b] = list
    BY <1>3 DEF Handled, Put
  <2>2. CASE t = IF Banned(p) THEN p.tsBannedUntil ELSE p.tsLastSeen + ForgetTime
    BY <1>1, <2>2
  <2>3. ASSUME NEW i \in DOMAIN list, t = list[i].lastUsed + SESSION_EXPIRE_TIME
        PROVE  t > now \/ (b \in DOMAIN peers /\ t \in DueTimes(b))
    <3>1. CASE list[i].lastUsed = now
      BY <1>1, <2>3, <3>1
    <3>2. CASE list[i].lastUsed # now
      <4>1. PICK j \in DOMAIN SessionsOf(a) : list[i].lastUsed = SessionsOf(a)[j].lastUsed
        BY <2>3, <3>2 DEF LastUses
      <4>2. a \in DOMAIN peers /\ j \in DOMAIN sessions[a] /\ list[i].lastUsed = sessions[a][j].lastUsed
        BY <4>1 DEF SessionsOf
      <4> QED BY <1>3, <2>3, <4>2 DEF DueTimes
    <3> QED BY <3>1, <3>2
  <2>4. t \in DueOf(p, list)
    BY <2>1 DEF DueTimes, DueOf, Banned
  <2> QED BY <2>2, <2>3, <2>4 DEF DueOf
<1>4. CASE b # a
  <2>1. b \in DOMAIN peers /\ peers'[b] = peers[b] /\ sessions'[b] = sessions[b]
    BY <1>2, <1>4 DEF Handled, Put
  <2> QED BY <2>1 DEF DueTimes, Banned
<1> QED BY <1>3, <1>4

\* After a packet, what is due is due later, or was due at that time before.
LEMMA ReceiveDue ==
    ASSUME IInv, NEW a \in Address, Receive(a), NEW b \in DOMAIN peers', NEW t \in DueTimes(b)'
    PROVE  t > now \/ (b \in DOMAIN peers /\ t \in DueTimes(b))
<1> DEFINE g == Gate(a)
           list == SessionsAfterGate(a)
<1>1. now \in Epoch .. MaxClock /\ now \in Nat /\ BanTime \in Nat \ {0}
  BY PrefsAssumption, ClockAssumption DEF IInv, RecordsInv
<1>2. GoodPeer(g, now) /\ g.tsLastSeen = now /\ GoodList(list, now)
  BY AtGate
<1>3. Banned(g) => g.tsBannedUntil > now
  <2>1. GoodPeer(PeerRecord(a), now)
    BY <1>1, NewPeerGood DEF PeerRecord, IInv, RecordsInv
  <2>2. PeerRecord(a).tsBannedUntil \in Int
    BY <1>1, <2>1, PrefsAssumption, ClockAssumption DEF GoodPeer
  <2> QED BY <1>1, <2>1, <2>2, GateGood DEF Gate, Banned
<1>4. LastUses(list, SessionsOf(a))
  BY DEF LastUses, SessionsAfterGate, ForceExpire
<1> HIDE DEF g, list
<1>5. CASE Ignore(a) \/ Serve(a)
  <2>1. Handled(a, g, list)
    BY <1>5 DEF Ignore, Serve, g, list
  <2> QED BY <1>2, <1>3, <1>4, <2>1, HandledDue
<1>6. CASE ServeMalformed(a)
  <2> DEFINE r == RepPeer(g, BadMsgTickets)
             l == IF Trips(g, BadMsgTickets) THEN ForceExpire ELSE list
  <2>1. ~Banned(g) /\ Handled(a, r, l)
    BY <1>6 DEF ServeMalformed, g, list
  <2>2. r.tsLastSeen = now /\ r.tsBannedUntil = IF Trips(g, BadMsgTickets) THEN now + BanTime ELSE 0
    BY <1>1, <1>2, <2>1, RepPeerUnbanned, PrefsAssumption
  <2>3. Banned(r) => r.tsBannedUntil > now
    BY <1>1, <2>2 DEF Banned
  <2>4. LastUses(l, SessionsOf(a))
    BY <1>4 DEF LastUses, ForceExpire
  <2> HIDE DEF r, l
  <2> QED BY <2>1, <2>2, <2>3, <2>4, HandledDue
<1>7. ASSUME NEW id \in SessionId, ServeQuery(a, id)
      PROVE  t > now \/ (b \in DOMAIN peers /\ t \in DueTimes(b))
  <2> DEFINE l == CreateSession(list, id)
  <2>1. Handled(a, g, l)
    BY <1>7 DEF ServeQuery, g, list
  <2>2. LastUses(Append(list, [id |-> id, lastUsed |-> now]), SessionsOf(a))
    <3>1. list \in Seq(Session)
      BY <1>2 DEF GoodList
    <3>2. \A i \in DOMAIN Append(list, [id |-> id, lastUsed |-> now]) :
             \/ Append(list, [id |-> id, lastUsed |-> now])[i].lastUsed = now
             \/ i \in DOMAIN list /\ Append(list, [id |-> id, lastUsed |-> now])[i] = list[i]
      BY <3>1
    <3> QED BY <1>4, <3>2 DEF LastUses
  <2>3. LastUses(l, SessionsOf(a))
    BY <1>4, <2>2 DEF CreateSession
  <2> HIDE DEF l
  <2> QED BY <1>2, <1>3, <2>1, <2>3, HandledDue
<1>8. ASSUME NEW id \in SessionId, ServeResend(a, id)
      PROVE  t > now \/ (b \in DOMAIN peers /\ t \in DueTimes(b))
  <2> DEFINE l == GetSession(list, id)
  <2>1. Handled(a, g, l)
    BY <1>8 DEF ServeResend, g, list
  <2>2. DOMAIN l = DOMAIN list /\ \A i \in DOMAIN list : l[i].lastUsed = now \/ l[i] = list[i]
    BY DEF GetSession
  <2>3. LastUses(l, SessionsOf(a))
    BY <1>4, <2>2 DEF LastUses
  <2> HIDE DEF l
  <2> QED BY <1>2, <1>3, <2>1, <2>3, HandledDue
<1> QED BY <1>5, <1>6, <1>7, <1>8 DEF Receive

\* What a call of the sweep has gone through and left is due later.
LEMMA SweepDue ==
    ASSUME IInv, DoProcessing, NEW b \in DOMAIN peers', NEW t \in DueTimes(b)'
    PROVE  /\ b \in DOMAIN peers \ Forgotten
           /\ t > now \/ (b \notin Visited /\ t \in DueTimes(b))
<1>1. b \in DOMAIN peers \ Forgotten
  BY DEF DoProcessing
<1>2. /\ peers'[b] = IF b \in Visited THEN CheckPeer(peers[b]) ELSE peers[b]
      /\ sessions'[b] = IF b \in Visited THEN CheckSessions(sessions[b]) ELSE sessions[b]
  BY <1>1 DEF DoProcessing
<1>3. CASE b \notin Visited
  BY <1>1, <1>2, <1>3 DEF DueTimes, Banned
<1>4. CASE b \in Visited
  <2> DEFINE p == peers[b]
             q == CheckPeer(p)
             l == CheckSessions(sessions[b])
  <2>1. now \in Epoch .. MaxClock /\ now \in Nat /\ ForgetTime \in Nat \ {0} /\ SESSION_EXPIRE_TIME \in Nat
    BY PrefsAssumption, LimitsAssumption, ClockAssumption DEF IInv, RecordsInv
  <2>2. GoodPeer(p, now) /\ GoodList(sessions[b], p.tsLastSeen)
    BY <1>1 DEF IInv, RecordsInv, SessionsInv
  <2>3. p.tsLastSeen \in Nat /\ p.tsBannedUntil \in Int
    BY <2>1, <2>2, PrefsAssumption, ClockAssumption DEF GoodPeer
  <2>4. ~Banned(p) => p.tsLastSeen + ForgetTime > now
    BY <1>1, <1>4, <2>1, <2>3 DEF Forgotten, Forgettable
  <2>5. /\ q.tsBannedUntil = IF Banned(p) /\ p.tsBannedUntil <= now THEN 0 ELSE p.tsBannedUntil
        /\ q.tsLastSeen = IF Banned(p) /\ p.tsBannedUntil <= now THEN now ELSE p.tsLastSeen
    BY <2>1, <2>2, CheckPeerGood
  <2>6. \A i \in 1 .. Len(l) : l[i].lastUsed + SESSION_EXPIRE_TIME > now
    BY <2>2, <2>3, CheckSessionsGood
  <2>7. DOMAIN l = 1 .. Len(l)
    <3>1. GoodList(l, p.tsLastSeen)
      BY <2>2, <2>3, CheckSessionsGood
    <3> HIDE DEF l
    <3> QED BY <3>1 DEF GoodList
  <2>8. t \in DueOf(q, l)
    BY <1>2, <1>4 DEF DueTimes, DueOf, Banned
  <2> HIDE DEF p, q, l
  <2>9. (IF Banned(q) THEN q.tsBannedUntil ELSE q.tsLastSeen + ForgetTime) > now
    BY <2>1, <2>3, <2>4, <2>5 DEF Banned
  <2> QED BY <1>1, <2>6, <2>7, <2>8, <2>9 DEF DueOf
<1> QED BY <1>1, <1>3, <1>4

=============================================================================
