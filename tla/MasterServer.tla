---------------------------- MODULE MasterServer ----------------------------
(***************************************************************************)
(* The loop of MasterdCore::RunThread (masterd/core.cc) driving flood      *)
(* control and the server database, which share its clock: an iteration    *)
(* sweeps the one, sweeps the other, and drains the socket, each packet    *)
(* through flood control first.                                            *)
(*                                                                         *)
(* FloodControl and ServerStore say what each call does, and assume that   *)
(* sweeps and packets come in any order.  Here the loop orders them.       *)
(***************************************************************************)
EXTENDS Integers, FiniteSets

CONSTANTS
    Address, SessionId, HostEnd,
    MaxTickets, ResetTime, BanTime, ForgetTime, BadMsgTickets,
    SESSION_EXPIRE_TIME, SESSION_MAX,
    Server, GameType, MissionType, Props, Pointer, HalfWord, SlotEnd,
    Heartbeat,
    SweepCount, SignBit,
    Epoch, MaxClock,
    MaxLoop     \* how many seconds an iteration may take: a bound on traffic

VARIABLES
    now,
    peers, sessions, hostIT, lastActive,                        \* flood control
    servers, slotIT, gameTypes, missionTypes, reports,          \* the database
    at,             \* the call the loop makes next
    elapsed         \* history: the seconds since the iteration began

hosts == <<peers, sessions, hostIT, lastActive>>
database == <<servers, slotIT, gameTypes, missionTypes, reports>>
vars == <<now, hosts, database, at, elapsed>>

Flood == INSTANCE FloodControl WITH procIT <- hostIT, End <- HostEnd

Store == INSTANCE ServerStore WITH procIT <- slotIT, End <- SlotEnd

(***************************************************************************)
(* What the two components assume of their constants, and that the host of *)
(* every server is an address.                                             *)
(***************************************************************************)
ASSUME HostsAssumption ==
    /\ HostEnd \in Nat /\ Address \subseteq 0 .. HostEnd - 1
    /\ {MaxTickets, ResetTime, BanTime, ForgetTime, BadMsgTickets} \subseteq Nat \ {0}
    /\ {SESSION_EXPIRE_TIME, SESSION_MAX} \subseteq Nat \ {0}

ASSUME ServersAssumption ==
    /\ SlotEnd \in Nat /\ {HalfWord, Heartbeat} \subseteq Nat \ {0}
    /\ Server \subseteq [address : Address \cap (0 .. HalfWord * HalfWord - 1), port : 0 .. HalfWord - 1]
    /\ \A s \in Server : Store!Slot(s) \in 0 .. SlotEnd - 1

ASSUME LoopAssumption ==
    /\ SweepCount \in Nat /\ SweepCount >= 2
    /\ MaxLoop \in Nat \ {0}
    /\ {SignBit, Epoch, MaxClock} \subseteq Nat
    /\ SESSION_EXPIRE_TIME <= Epoch /\ Epoch <= MaxClock /\ SignBit <= 2 * Epoch
    /\ \A d \in {ResetTime, BanTime, ForgetTime, SESSION_EXPIRE_TIME} : MaxClock + d < SignBit

Init == /\ Flood!Init
        /\ Store!Init
        /\ at = "flood"
        /\ elapsed = 0

-----------------------------------------------------------------------------
SweepHosts ==
    /\ at = "flood" /\ at' = "store"
    /\ Flood!DoProcessing
    /\ UNCHANGED <<database, elapsed>>

SweepServers ==
    /\ at = "store" /\ at' = "drain"
    /\ Store!DoProcessing
    /\ UNCHANGED <<hosts, elapsed>>

\* Fault for StoreRuns: what is listed of a banned host goes at once.
SkipAndUnlist(a) ==
    /\ Flood!Ignore(a)
    /\ servers' = [k \in {j \in DOMAIN servers : servers[j].addr.address # a} |-> servers[k]]
    /\ UNCHANGED <<slotIT, gameTypes, missionTypes, reports>>

\* poll() found a packet of host a, which flood control makes the loop skip.
Skip(a) == Flood!Ignore(a) /\ UNCHANGED database

\* Fault for NoReportInBan: the result of CheckPeer is not looked at.
TakeAnyReport(s, info) ==
    (Flood!Serve(s.address) \/ Flood!Ignore(s.address)) /\ Store!UpdateServer(s, info)

\* A report, well-formed.
TakeReport(s, info) == Flood!Serve(s.address) /\ Store!UpdateServer(s, info)

\* A heartbeat or a request for types or information.
ServeOther(a) == Flood!Serve(a) /\ UNCHANGED database

ServeMalformed(a) == Flood!ServeMalformed(a) /\ UNCHANGED database

ServeList(a, id) == /\ Flood!ServeQuery(a, id) \/ Flood!ServeResend(a, id)
                    /\ UNCHANGED database

HandlePacket ==
    /\ at = "drain"
    /\ \/ \E a \in Address : Skip(a) \/ ServeOther(a) \/ ServeMalformed(a)
       \/ \E a \in Address, id \in SessionId : ServeList(a, id)
       \/ \E s \in Server, info \in Store!Info : TakeReport(s, info)
    /\ UNCHANGED <<at, elapsed>>

\* Fault for FloodRuns: the loop goes on with the database.
EndDrainAtStore ==
    /\ at = "drain" /\ at' = "store"
    /\ elapsed' = 0
    /\ UNCHANGED <<now, hosts, database>>

\* No packet came within 10 ms.
EndDrain ==
    /\ at = "drain" /\ at' = "flood"
    /\ elapsed' = 0
    /\ UNCHANGED <<now, hosts, database>>

Tick ==
    /\ elapsed < MaxLoop /\ elapsed' = elapsed + 1
    /\ now < MaxClock /\ now' = now + 1
    /\ UNCHANGED <<hosts, database, at>>

Next == SweepHosts \/ SweepServers \/ HandlePacket \/ EndDrain \/ Tick

Spec == Init /\ [][Next]_vars

\* The loop goes on, and each drain ends, which is what MaxLoop assumes.
FairSpec == /\ Spec
            /\ WF_vars(SweepHosts) /\ WF_vars(SweepServers) /\ WF_vars(EndDrain)
            /\ WF_vars(Tick)

-----------------------------------------------------------------------------
(***************************************************************************)
(* Properties                                                              *)
(***************************************************************************)

\* Under the loop, each component behaves as its own specification says, the
\* fairness of its sweep included: all that is shown of it alone holds here.
FloodRuns == Flood!FairSpec
StoreRuns == Store!FairSpec

HostOf(rec) == rec.addr.address

\* Whatever is listed of a banned host was reported before the ban: its leases
\* run out while the ban lasts.  That is so unless a server of another host has
\* the same slot, since its reports renew the banned one's record.
NoReportInBan ==
    \A k \in DOMAIN servers :
        LET a == HostOf(servers[k])
        IN  a \in DOMAIN peers /\ Flood!Banned(peers[a])
                => servers[k].last_info + BanTime <= peers[a].tsBannedUntil

\* The most iterations it takes until a sweep has been at each of n places: the
\* one that goes on, one in which the iterator only goes back to the beginning,
\* and those of the walk.
RoundOf(n) == (n + SweepCount - 2) \div (SweepCount - 1) + 2

Round == RoundOf(Cardinality(Server))

\* If no iteration takes more than MaxLoop seconds, a server that no longer
\* reports stays listed for its lease and a round of the sweep at most, however
\* other servers come and go around the iterator meanwhile.
StaleBounded ==
    \A k \in DOMAIN servers : now < servers[k].last_info + Heartbeat + Round * MaxLoop

\* Under the same assumption on the loop, bans are lifted, idle hosts forgotten
\* and expired sessions destroyed at most a round of the sweep after their time,
\* however other hosts come and go around the iterator meanwhile.
HostsSettled ==
    \A a \in DOMAIN peers : \A t \in Flood!DueTimes(a) :
        now < t + RoundOf(Cardinality(Address)) * MaxLoop

=============================================================================
