---------------------------- MODULE FloodControl ----------------------------
(***************************************************************************)
(* The flood control and session manager of the master server              *)
(* (masterd/SessionHandler.cc), driven by the receive loop of              *)
(* MasterdCore::RunThread and by the message dispatch of ProcMessage       *)
(* (masterd/core.cc).                                                      *)
(*                                                                         *)
(* A remote host is known by its IP address alone.  Every packet costs it  *)
(* one ticket, a malformed one more; a host that reaches the maximum is    *)
(* banned for a while.  A record also holds the host's query sessions.     *)
(* The periodic sweep walks the records with a persistent iterator, a few  *)
(* records per call.                                                       *)
(*                                                                         *)
(* One handler runs at a time (the server has one thread) and reads one    *)
(* value of the clock: the seconds counter does not advance inside it.     *)
(***************************************************************************)
EXTENDS MapSweep, Sequences

CONSTANTS
    Address,             \* the IP addresses, ordered as the map orders them
    SessionId,           \* the (session, key) pairs of packet headers
    MaxTickets, ResetTime, BanTime, ForgetTime, BadMsgTickets,   \* $flood::*
    SESSION_EXPIRE_TIME, SESSION_MAX,
    SweepCount,          \* DoProcessing's default argument: 5 in the code
    SignBit,             \* 2^31: timestamps are S32
    Epoch,               \* the time at which the server starts
    MaxClock             \* bound of the model: the clock stops here

ASSUME AddressAssumption == /\ Address \subseteq Nat
                            /\ \A a \in Address : a < End

ASSUME PrefsAssumption == /\ MaxTickets \in Nat \ {0}
                          /\ {ResetTime, BanTime, ForgetTime, BadMsgTickets} \subseteq Nat \ {0}

ASSUME LimitsAssumption == /\ {SESSION_EXPIRE_TIME, SESSION_MAX} \subseteq Nat \ {0}
                           /\ SweepCount \in Nat /\ SweepCount >= 2

(***************************************************************************)
(* The clock is Unix time.  It is past 2^30 (January 2004), so the sum of  *)
(* two timestamps no longer fits an S32, and before 2^31 (January 2038) by *)
(* more than any of the configured durations.                              *)
(***************************************************************************)
ASSUME ClockAssumption ==
    /\ {SignBit, Epoch, MaxClock} \subseteq Nat
    /\ SESSION_EXPIRE_TIME <= Epoch /\ Epoch <= MaxClock
    /\ SignBit <= 2 * Epoch
    /\ \A d \in {ResetTime, BanTime, ForgetTime, SESSION_EXPIRE_TIME} : MaxClock + d < SignBit

VARIABLES
    now,        \* getAbsTime()
    peers,      \* m_Records: address -> reputation of the host
    sessions,   \* address -> the sessions list of its record
    procIT,     \* m_ProcIT: an address of m_Records, or End
    lastActive  \* history: when a recorded host was last heard or unbanned

vars == <<now, peers, sessions, procIT, lastActive>>

-----------------------------------------------------------------------------
Timestamp == -SignBit .. SignBit - 1

\* Fault for BanBounded: timestamps too wide to wrap.
WideSum(n) == n

\* Storing a U32 sum in an S32.
Wrap(n) == ((n + SignBit) % (2 * SignBit)) - SignBit

Peer == [tsLastSeen    : Timestamp,
         tsLastReset   : Timestamp,
         tsBannedUntil : Timestamp,
         tickets       : 0 .. MaxTickets - 1]

Session == [id : SessionId, lastUsed : Nat]

Record(seen, reset, banned, tickets) ==
    [tsLastSeen |-> seen, tsLastReset |-> reset, tsBannedUntil |-> banned, tickets |-> tickets]

\* GetPeerRecord: the new entry's own tsCreated, still 0, is what initialises
\* the other two timestamps.
NewPeer == Record(0, 0, 0, 0)

PeerRecord(a) == IF a \in DOMAIN peers THEN peers[a] ELSE NewPeer

SessionsOf(a) == IF a \in DOMAIN peers THEN sessions[a] ELSE <<>>

Banned(p) == p.tsBannedUntil # 0

\* Fault for ExpiredSessionsDropped: the walk stops at the first live session.
StopAtLiveSession(list) ==
    LET live == {n \in DOMAIN list : list[n].lastUsed + SESSION_EXPIRE_TIME > now}
    IN  IF live = {} THEN <<>>
        ELSE SubSeq(list, CHOOSE n \in live : \A m \in live : n <= m, Len(list))

\* CheckSessions(rec, false): the sessions that stay in the list, in order.
CheckSessions(list) ==
    LET kept[n \in 0 .. Len(list)] ==
            IF n = 0 THEN <<>>
            ELSE IF list[n].lastUsed + SESSION_EXPIRE_TIME > now
                 THEN Append(kept[n - 1], list[n])
                 ELSE kept[n - 1]
    IN  kept[Len(list)]

\* CheckSessions(rec, true): lastUsed is zeroed first, so none stays.
ForceExpire == <<>>

-----------------------------------------------------------------------------
(***************************************************************************)
(* Reputation                                                              *)
(***************************************************************************)

\* Fault for TypeOK: the maximum itself does not ban.
TripsLate(p, n) == p.tickets + n > MaxTickets

\* n more tickets reach the maximum: RepPeer bans, and destroys the sessions.
Trips(p, n) == p.tickets + n >= MaxTickets

\* Fault for LiveSessionsKept: tsLastSeen is not refreshed.
RepUnseen(p, n) ==
    IF Trips(p, n)
    THEN Record(p.tsLastSeen, p.tsLastReset, Wrap(p.tsBannedUntil + now + BanTime), 0)
    ELSE Record(p.tsLastSeen, p.tsLastReset, p.tsBannedUntil, p.tickets + n)

RepPeer(p, n) ==
    IF Trips(p, n)
    THEN Record(now, p.tsLastReset, Wrap(p.tsBannedUntil + now + BanTime), 0)
    ELSE Record(now, p.tsLastReset, p.tsBannedUntil, p.tickets + n)

ResetTickets(p) ==
    IF p.tsLastReset + ResetTime <= now
    THEN Record(p.tsLastSeen, now, p.tsBannedUntil, 0)
    ELSE p

\* Fault for Remembered: the forget time is not reset by the unban.
LiftUnseen(p) ==
    IF Banned(p) /\ p.tsBannedUntil <= now
    THEN Record(p.tsLastSeen, p.tsLastReset, 0, p.tickets)
    ELSE p

LiftBan(p) ==
    IF Banned(p) /\ p.tsBannedUntil <= now
    THEN Record(now, p.tsLastReset, 0, p.tickets)
    ELSE p

\* Fault for ElapsedBanLifted: only the ticket count is looked at.
CheckTicketsOnly(p) == ResetTickets(p)

\* CheckPeer(rec, false); the host is allowed when the result is not banned.
CheckPeer(p) == LiftBan(ResetTickets(p))

\* CheckPeer(addr, &rec, true), the gate every received packet passes.
Gate(a) == CheckPeer(RepPeer(PeerRecord(a), 1))

\* Fault for BannedHasNoSessions: the ban leaves the sessions alone.
SessionsUntouched(a) == SessionsOf(a)

SessionsAfterGate(a) == IF Trips(PeerRecord(a), 1) THEN ForceExpire ELSE SessionsOf(a)

-----------------------------------------------------------------------------
Init == /\ now = Epoch
        /\ peers = <<>>
        /\ sessions = <<>>
        /\ procIT = End
        /\ lastActive = <<>>

\* The record and the sessions of a when the handling of its packet is over.
Handled(a, p, list) == /\ peers' = Put(peers, a, p)
                       /\ sessions' = Put(sessions, a, list)
                       /\ lastActive' = Put(lastActive, a, now)
                       /\ UNCHANGED <<now, procIT>>

\* A packet of a banned host: the record is updated and the packet dropped.
Ignore(a) == /\ Banned(Gate(a))
             /\ Handled(a, Gate(a), SessionsAfterGate(a))

\* A well-formed packet that touches no session: a heartbeat, an info report,
\* a types or an info request.
Serve(a) == /\ ~Banned(Gate(a))
            /\ Handled(a, Gate(a), SessionsAfterGate(a))

\* A packet ProcMessage finds malformed: BadRepPeer.
ServeMalformed(a) ==
    /\ ~Banned(Gate(a))
    /\ Handled(a, RepPeer(Gate(a), BadMsgTickets),
               IF Trips(Gate(a), BadMsgTickets) THEN ForceExpire ELSE SessionsAfterGate(a))

\* CreateSession: at the limit, expired sessions included, it fails.
CreateSession(list, id) ==
    IF Len(list) >= SESSION_MAX THEN list ELSE Append(list, [id |-> id, lastUsed |-> now])

\* GetSession: it touches the first session of the list that has this id, and
\* does not look at its age.
GetSession(list, id) ==
    [i \in DOMAIN list |->
        IF list[i].id = id /\ \A j \in 1 .. i - 1 : list[j].id # id
        THEN [id |-> id, lastUsed |-> now]
        ELSE list[i]]

\* A well-formed list query.
ServeQuery(a, id) == /\ ~Banned(Gate(a))
                     /\ Handled(a, Gate(a), CreateSession(SessionsAfterGate(a), id))

\* A request to resend a packet of an earlier query.
ServeResend(a, id) == /\ ~Banned(Gate(a))
                      /\ Handled(a, Gate(a), GetSession(SessionsAfterGate(a), id))

Receive(a) == \/ Ignore(a)
              \/ Serve(a)
              \/ ServeMalformed(a)
              \/ \E id \in SessionId : ServeQuery(a, id) \/ ServeResend(a, id)

-----------------------------------------------------------------------------
(***************************************************************************)
(* DoProcessing: the sweep                                                 *)
(***************************************************************************)

Visited == VisitedFrom(DOMAIN peers, procIT, SweepCount)

\* Fault for BanHolds: bans are forgotten with their records.
ForgettableIfSilent(p) == p.tsLastSeen + ForgetTime <= now

Forgettable(p) == ~Banned(p) /\ p.tsLastSeen + ForgetTime <= now

Forgotten == {a \in Visited : Forgettable(peers[a])}

\* Fault for CursorValid: begin() is taken before the records are erased.
AdvanceToStaleBegin == PlaceAfter(DOMAIN peers, procIT, SweepCount, {})

\* Fault for IdleForgotten: the iterator is left at end().
AdvanceToEnd == FirstFrom(DOMAIN peers \ Visited, procIT)

Advance == PlaceAfter(DOMAIN peers, procIT, SweepCount, Forgotten)

DoProcessing ==
    LET kept == DOMAIN peers \ Forgotten
    IN  /\ peers' = [a \in kept |-> IF a \in Visited THEN CheckPeer(peers[a]) ELSE peers[a]]
        /\ sessions' = [a \in kept |-> IF a \in Visited THEN CheckSessions(sessions[a])
                                                        ELSE sessions[a]]
        /\ procIT' = Advance
        /\ lastActive' = [a \in kept |->
                             IF a \in Visited /\ Banned(peers[a]) /\ peers[a].tsBannedUntil <= now
                             THEN now ELSE lastActive[a]]
        /\ UNCHANGED now

Tick == /\ now < MaxClock
        /\ now' = now + 1
        /\ UNCHANGED <<peers, sessions, procIT, lastActive>>

Next == \/ \E a \in Address : Receive(a)
        \/ DoProcessing
        \/ Tick

Spec == Init /\ [][Next]_vars

(***************************************************************************)
(* The core loop sweeps between two drains of the socket, every 10 ms when *)
(* no packet comes: DoProcessing is fair as long as the drain ends, which  *)
(* is an assumption about the traffic (MasterdCore::RunThread has none).   *)
(***************************************************************************)
FairSpec == Spec /\ WF_vars(DoProcessing) /\ WF_vars(Tick)

-----------------------------------------------------------------------------
(***************************************************************************)
(* Properties                                                              *)
(***************************************************************************)

\* Between handlers: the maps agree on the hosts they record, the ticket count
\* is below the maximum, and no list exceeds the session limit.
TypeOK ==
    /\ now \in Epoch .. MaxClock
    /\ DOMAIN peers \subseteq Address
    /\ peers \in [DOMAIN peers -> Peer]
    /\ DOMAIN sessions = DOMAIN peers
    /\ \A a \in DOMAIN peers : sessions[a] \in Seq(Session) /\ Len(sessions[a]) <= SESSION_MAX
    /\ DOMAIN lastActive = DOMAIN peers

\* The sweep's iterator, kept across calls while records come and go, never
\* dangles: it is end() or at a record that exists.
CursorValid == procIT \in DOMAIN peers \cup {End}

\* Although RepPeer adds to tsBannedUntil, a ban seen between two handlers was
\* set once: it ends at most BanTime from now, and is never a negative time.
BanBounded == \A a \in DOMAIN peers : peers[a].tsBannedUntil \in 0 .. now + BanTime

\* A ban destroys the host's sessions and none is created until it ends.
BannedHasNoSessions == \A a \in DOMAIN peers : Banned(peers[a]) => sessions[a] = <<>>

\* When something of the record of a is due: the end of its ban, or else the
\* time to forget it; and the end of each of its sessions.
DueTimes(a) ==
    {IF Banned(peers[a]) THEN peers[a].tsBannedUntil ELSE peers[a].tsLastSeen + ForgetTime}
        \cup {sessions[a][i].lastUsed + SESSION_EXPIRE_TIME : i \in DOMAIN sessions[a]}

Expired(session) == session.lastUsed + SESSION_EXPIRE_TIME <= now

\* Forgetting a host never destroys a session that is still alive, provided
\* the forget time is no shorter than the life of a session.
ForgetsNoLiveSession ==
    ForgetTime >= SESSION_EXPIRE_TIME =>
        \A a \in DOMAIN peers \ DOMAIN peers' :
            \A i \in DOMAIN sessions[a] : Expired(sessions[a][i])

LiveSessionsKept == [][ForgetsNoLiveSession]_vars

\* "Once unbanned then the forget time is reset": a record is erased only when
\* its host is not banned and has been silent, and out of a ban, for ForgetTime.
ForgetsOnlyIdle ==
    \A a \in DOMAIN peers \ DOMAIN peers' :
        ~Banned(peers[a]) /\ lastActive[a] + ForgetTime <= now

Remembered == [][ForgetsOnlyIdle]_vars

\* A ban stays as it was set until its time is up, with one exception: the
\* host's tickets reaching the maximum once more (see BanServed).
KeepsBans ==
    \A a \in DOMAIN peers :
        Banned(peers[a]) =>
            \/ a \in DOMAIN peers' /\ peers'[a].tsBannedUntil = peers[a].tsBannedUntil
            \/ peers[a].tsBannedUntil <= now
            \/ Trips(peers[a], 1)

BanHolds == [][KeepsBans]_vars

\* What the preferences file documents: a banned host is ignored until the ban
\* time has expired.
BanServed ==
    [][\A a \in DOMAIN peers :
           Banned(peers[a]) /\ peers[a].tsBannedUntil > now =>
               a \in DOMAIN peers' /\ Banned(peers'[a])]_vars

\* The sweep gets to every idle record, however records come and go around its
\* iterator: a host that may be forgotten is, unless it is heard again.
IdleForgotten ==
    \A a \in Address :
        (a \in DOMAIN peers /\ Forgettable(peers[a]))
            ~> ~(a \in DOMAIN peers /\ Forgettable(peers[a]))

\* An elapsed ban is lifted even if the host stays silent.
ElapsedBanLifted ==
    \A a \in Address :
        (a \in DOMAIN peers /\ Banned(peers[a]) /\ peers[a].tsBannedUntil <= now)
            ~> ~(a \in DOMAIN peers /\ Banned(peers[a]) /\ peers[a].tsBannedUntil <= now)

\* Expired sessions leave the list even while other requests keep coming.
ExpiredSessionsDropped ==
    \A a \in Address :
        (a \in DOMAIN sessions /\ \E i \in DOMAIN sessions[a] : Expired(sessions[a][i]))
            ~> (a \in DOMAIN sessions => \A i \in DOMAIN sessions[a] : ~Expired(sessions[a][i]))

=============================================================================
