# PushButton Master Server: a TLA+ verification

The PushButton Master Server is the directory of Torque game servers. Game
servers report to it over UDP, game clients ask it for the servers that match a
filter. It is one process with one thread, a few in-memory maps, and a socket.

This directory models the parts of it that keep state, checks them with TLC on
small instances, and proves the main results with TLAPS for every instance.
Paths below are relative to the repository (`masterd/...` is
`src/masterd/...`).

## 1. Inventory

| part | code | state | operations |
|---|---|---|---|
| core loop | `masterd/core.cc` RunThread, ProcMessage | `m_RunThread` | sweep both components; drain the socket (each packet: reputation gate, dispatch, penalty when malformed); stop on a signal |
| flood control | `masterd/SessionHandler.cc` | `m_Records`: IP address -> tickets, last reset, last seen, end of ban, sessions; the iterator `m_ProcIT` | CheckPeer, RepPeer, DoProcessing |
| query sessions | the same, `Session` | in each peer record a list of (session, key, lastUsed, results, layout) | CreateSession, GetSession, CheckSessions |
| server database | `masterd/ServerStoreRAM.cc`, `include/ServerStore.h` | `m_Servers`: slot -> ServerInfo; `m_ProcIT`; two `UniqueStringList`s of type names | UpdateServer, HeartbeatServer, QueryServers, DoProcessing |
| messages | `masterd/TorqueIO.cc` | none | parse and answer: list, types, info requests; info reports; heartbeats |
| preferences | `masterd/core.cc` | `m_Prefs` | defaults, load line by line, create file, clamp |
| daemon | `masterd/core.cc` main, sigproc | `coreMan`, the pid file | start, stop by SIGINT or SIGTERM |
| packets | `network/Packet.cc` | buffer, pointer, status | bounded reads and writes |
| transport | `network/MasterdTransport.cc`, `network/netSocket.cc` | socket | poll, sendPacket |
| vendored | `include/ul.h`, `network/ulError.cxx` | - | - |

**How they interact.** The loop alternates two sweeps (one call of each
DoProcessing) with a drain of the socket. For every packet flood control is
asked first, and it gets a pointer to the host's record that lives until the
packet is handled. A list query creates a session in that record, and the
database fills it; a resend request is answered from the session. The types
answer reads the database's type lists. Everything is a direct call in one
thread, so a handler is atomic; only signals interrupt it.

**What is hard in it.**

- Both sweeps keep a `std::map` iterator between calls, while records are
  inserted and erased around it.
- Times are signed 32-bit seconds. One of them is *added to* rather than set.
- A record is created, ticketed, reset, banned, unbanned, swept and forgotten in
  an order set by the traffic and the clock; no single step shows a mistake.
- Sessions expire by time but leave their list only in the sweep, in between
  they count, can be found and can be renewed.
- Types are compared by pointer, and a counter decides when the pointer is freed.
- Datagrams are lost, duplicated and reordered, and clients repeat themselves.
- The layout of an answer is arithmetic in 8 and 16 bits.
- A datagram may be cut at any byte; some reads are checked, some are not.
- Bans are kept per host and leases per address and port, in two components that
  know nothing of each other; each gets its sweep only when a drain has ended.
- A line of the preferences file is edited by people and taken apart in place.

**What makes each part correct.** Flood control: bans are bounded, end, and hold
until then; banned hosts have no sessions; only idle hosts are forgotten, all
idle hosts are, and no live session goes with them. Sessions: never more than
the limit, never lost while alive, dropped in the end. Database: a server that
reported within `$heartbeat` seconds is listed with its last report, one that
stopped is removed; a type name exists exactly while a server has it. Answers:
every server of the result in exactly one packet, nothing else. Messages: what is
stored is what was reported, a request cut short does no harm, a query finds the
servers that meet it. Loop: both components keep under it what they promise
alone, a banned host gets nothing listed, a silent server is gone in bounded
time, and so are elapsed bans, idle hosts and expired sessions. Daemon: a stop
request stops it, the pid file leads to no process that ended by itself, and the
preferences file it writes brings it up again with the same settings.

## 2. Modules

| module | models | kind |
|---|---|---|
| `Maps` | a `std::map` as a function | operators |
| `MapSweep` | the sweep over a map with a persistent iterator that flood control and the database share; map iterators | operators |
| `FloodControl` | flood control, query sessions, the gate and the dispatch | specification |
| `ServerRegistry` | what the database promises: a lease per server | abstract specification |
| `TypeLists` | a list of type names that are counted, with the pointers it hands out | operators |
| `ServerStore` | the database and its type lists | specification, refines `ServerRegistry` |
| `MasterServer` | the loop driving flood control and the database with one clock | composition, implements both |
| `PacketBuffer` | writing and reading a packet, with the bounds tests | operators |
| `Messages` | the dispatch, the parse of reports and list requests, the filter with the type lists it looks in | specification |
| `ListPaging` | the layout of list answers, queries, resends, expiry | specification |
| `TypesResponse` | the types answer and the type lists it is made from | specification |
| `Preferences` | the lines of the preferences file, reading and writing it | operators |
| `MasterdCore` | the daemon: start, loop, signals, shutdown, preferences and pid file, several instances | specification |
| `MCServerStore`, `MCListPaging`, `MCMasterdCore`, `MCMessages`, `MCMasterServer` | instances for TLC | |
| `MapSweepProofs`, `FloodControlProofs`, `ServerStoreProofs`, `MasterServerProofs`, `ListPagingProofs`, `TypesResponseProofs`, `MessagesProofs`, `MasterdCoreProofs` | theorems | |

`FloodControl` and `ServerStore` extend `MapSweep`; `ServerStore` and `Messages`
extend `TypeLists`; `ListPaging`, `TypesResponse` and `Messages` extend
`PacketBuffer`; `MasterdCore` extends `Preferences`; `ServerStore` instantiates `ServerRegistry` under its refinement
mapping; `MasterServer` instantiates `FloodControl` and `ServerStore`, with a
variable of its own for each of the two iterators.

### MapSweep

A map is the set of its keys, numbers in the order of the map; an iterator is a
key, or `End`. `VisitedFrom` is the set of entries one call goes through:
`--count` is tested before each entry, so the default argument 5 visits four.
`PlaceAfter` is where the iterator stands afterwards.

### FloodControl

`peers` is `m_Records` without the sessions, `sessions` the lists of sessions of
the same records, `procIT` is `m_ProcIT`, `now` is `getAbsTime()`. `lastActive`
is a history variable. `tsCreated` and `bans` are written and never read by a
decision, so they are left out, but for the one use of `tsCreated` that
matters: `NewPeer` shows that it initialises the other timestamps with 0.

One packet is one step, since the thread is in the handler until the packet is
done. `Gate` is `CheckPeer(addr, &rec, true)`: find or create the record, one
ticket, perhaps a ban, then reset and unban. `Ignore` is the `goto SkipPeerMsg`.
The other actions of `Receive` are the outcomes of ProcMessage: a handler that
touches no session, a malformed packet, a query, a resend. The result of a
handler is named by the state it leaves, not by the message type.

Timestamps are stored with `Wrap`, the conversion to S32.

### TypeLists, ServerStore and ServerRegistry

A type list maps the pointer of each name to the name and its count; `Push`
takes *any* pointer that is free for a new name, as the allocator may, and
`PopRefs` frees a name whose count drops to 0, whoever still points to it.

`servers` maps the slot of `AddrToSlot` to a record. Addresses are two half
words and a port, and `Slot` is the 32-bit arithmetic of the code. `gameTypes`
and `missionTypes` are the two type lists. Records and queries compare pointers,
as the code does. Everything else in a
report is one value of `Props`. `reports` is a history variable: the last
report of each server while it is fresh or listed.

`ServerRegistry` knows no slots, types or sweep: a report starts or renews the
lease of its server and of no other, only lapsed leases end, at any time after
they lapsed. `Listed` and `LastReport` are the refinement mapping.

A heartbeat changes nothing here (`HeartbeatServer`), as in the code: only a
report renews a record. The preferences describe `$heartbeat` as the time since
the last *heartbeat*; with the code, a server whose heartbeats arrive and whose
reports are lost is deleted.

### ListPaging

The sessions of one (session, key) and the set of all packets sent: a client may
have received any part of that set, in any order, any number of times.
`Layout`, `Count` and `Start` are the arithmetic of QueryServers and
sendListResponse, with the field widths; what lies behind the end of the results
is `Garbage`. `Reply` writes the same packet into a `PacketBuffer`, whose length
says whether it fits. `PerPacket` is computed from the size of a packet as in
`packetconf.h`. Expiry is any session at any time: which of them is next depends
on the resends, and the clock is in `FloodControl`.

### MasterdCore

`pc` is the call an instance makes next, from main to its return; a signal
handler, a crash, a packet or an edit of the preferences may come before any
step. `Stop` has the three outcomes a SIGINT or SIGTERM has: the process ends
when the handler is not installed yet, nothing happens while `coreMan` is NULL,
and otherwise `m_RunThread` is cleared, in an object that has been freed if the
signal comes between `delete coreMan` and `coreMan = NULL`. `bound` and `queue`
are the socket; the port is fought for, the preferences file and the pid file
are shared by all instances. The writing of a file is one step, which may fail:
no preferences file is created then, and the pid file is left as it was, or
empty. That the preferences file is written in part only is left out. `ClearPid`
may fail to remove the pid file, which the code does not look at: it stays, and
`unclean`, a history variable, remembers the instance, as it does those that
were killed or ended before they came there. `Handle` and
`Sweep` change nothing here: their effects are the actions of `FloodControl` and
`ServerStore`.

Two things the model shows and that no property here says, since they do not
hold: a stop request that arrives after `new MasterdCore` and before
`m_RunThread = true` (`core.cc:284`) is logged as "shutting down" and lost; and
an instance that cannot bind removes the pid file of the one that serves.

### Preferences

A line is a sequence of characters, a file a sequence of lines. `strtrim`,
`Name` and `Value` take a line apart as the three functions of the code do: the
end of the text is cut at every second place only, a line without a blank has no
value (which is not an empty one), and `strprocfieldvalue` drops quotes wherever
they are. A number is what `Decimal` says its digits are. None is above 32
bits, to which LoadPrefs would cut it. `Read` is
the loop of LoadPrefs: the last line that sets a setting counts. `EndsProcess`
is a setting without a value, for which strtoul or strlen is given NULL, and
`MayEndProcess` adds an unknown name, for which the warning prints an argument
it does not get. LoadPrefs of `MasterdCore` then ends the process, or may.

`Underflows` says of a line that the backward loop of strtrim passes the
beginning of the buffer: its length is even and every second character a blank.
What becomes of it depends on the memory there. Where it holds no blank, the
loop ends with nothing done; a blank is cleared, and `StrayBlank` are the
instances that have one. Then LoadPrefs may end the process, or go on as if
nothing had been there, if the cleared byte is padding. (In a build with
g++ -O2 for x86-64 the eight bytes before the buffer are padding, and the ninth is
the top byte of a pointer, which is 0; another layout may have a variable there.)
`CreatePrefs` writes the lines of the real file as far as their shapes differ: the
text of a description (`Remark`), an empty line of one (`BareRemark`, which is
`# ` and underflows), blank lines and settings.

The name of a setting is one character of a line here. Two settings stand for
all: the two with a limit that something else depends on.

### PacketBuffer and TypesResponse

A packet that is written is its size, its write pointer and its status.
`WriteBytes` has the test of the code as it binds,
`(!(getLength() + length)) > size`, which is never true; `WriteU8` tests its
byte correctly. A packet that is read holds cells, each of which knows which
value it is a part of, so that a read at the wrong place or of the wrong width
does not give a value that was sent. A read that does not fit sets the status and
leaves what it was to fill as it was.

A type name is its length, and a type list the sequence of the lengths with the
running total that UniqueStringList keeps. The state is the two lists; `Add` and
`Remove` are a Push of a new name and a PopRef of a last reference (counting is
in `ServerStore`). `Reply` is sendTypesResponse: it changes nothing, so it is an
expression over the state and the properties are about it.

### Messages

A message is a record, its datagram the cells `Encode` makes of it, and what
arrives is any beginning of that. `ProcMessage` has one action per outcome of
the dispatch; `handleInfoResponse` and `handleListRequest` read the fields in the
order and with the widths of the code and test the status where the code does.
For a report that is before the list of players is read, so `Lists` gives the
unread entries any value. Servers are stored as `UpdateServer` does, without the
slot and the lease, which are in `ServerStore`: a lapse (`Drop`) may come at any
time here. The types of a record are in `pointers`, pointers into two `TypeLists`
that are pushed and popped as in `ServerStore`: a type is looked up by name in the
list and compared with the record by pointer (`IsType`). `Passes` is the rest of
the tests in QueryServers. `servers` keeps the names of the types as they came,
which no step reads, for `StoredAsReported`. `reported` is a
history variable: the last report of each server that had its fixed part, and how
many of its players arrived.

The answer to a request is an expression over the state; the session it makes
is in `FloodControl`. A type name is a number with a size, and what
isPrintableString accepts is a constant. Masks are numbers, and `Common` says
whether two have a bit in common.

### MasterServer

`at` is the call the loop makes next. An iteration is `SweepHosts`,
`SweepServers`, and the drain, in which any number of packets are handled and
time may pass. Each action is an action of `FloodControl` together with one of
`ServerStore`, or one of them while the other's state stays: a report of a host
that is served updates the database (`TakeReport`), a report of a host that is
skipped does not (`Skip`). `elapsed` is a history variable, the seconds since the
iteration began; `MaxLoop` bounds it. That is an assumption about the traffic,
since the code bounds no drain. What it buys is `StaleBounded` and
`HostsSettled`: `RoundOf` is how many iterations may pass until a sweep has been
at each of so many places, and `DueTimes` of `FloodControl` is when something of
a record is due.

## 3. Runs

| run | properties | instance and why it is enough |
|---|---|---|
| `FloodSweep` | `TypeOK` `CursorValid` `BanBounded` `BannedHasNoSessions` `LiveSessionsKept` `Remembered` `BanHolds` `ExpiredSessionsDropped` `IdleForgotten` `ElapsedBanLifted` | two hosts and one entry a call, so that a walk of the map takes two calls and a host appears before, at and after the iterator; one session id used again and again, two sessions to a host, so that an expired session can be behind a renewed one. The limit is 3 tickets, so it is reached by packets, by malformed ones and by both; four seconds are enough to be banned, unbanned and forgotten |
| `StoreRegistry` | `TypeOK` `CursorValid` `FreshReportListed` `TypesInUse` `ImplementsRegistry` `LapsedRemoved` | three servers on two hosts, two game types and one mission type in two pointers, so that a pointer that is freed is soon another name's; one entry a call, a lease of 2 s and 5 clock values |
| `ListPages` | `PagesDisjoint` `ReadsInRange` `ShortListWhole` | five servers to a packet, bytes of 3 and words of 6 bits, with the inequalities between these sizes as in the code; lists of every length that fits a word, two answers, two sessions |
| `CoreLife` | `TypeOK` `PidFileCurrent` `StopHonoured` `CreatedIsRead` | two instances with equal or different ports, a socket buffer of one packet; two are enough for one to overwrite, remove and outlive the other's file. The preferences files: missing, unreadable, created by an instance, with settings out of range, oddly written, with a blank behind a value, with an unknown name. One of the two instances has a blank before its line buffer |
| `TypesAnswer` | `AllTypesSent` `HalvesNearlyFit` | a packet of 20 bytes, at most 3 types in a list that is sent, names of 0, 1 and 3 bytes: lists that fit, that are too long and that have too many entries |
| `Datagrams` | `TypeOK` `StoredAsReported` `CutRequestsHarmless` `AnswerExact` | two servers, two pointers, two game types (a freed name is found to miss its server, and another name in its place to find it) and one mission type; five reports, with none, one and two players, one of them with a type that is not printable; nine queries, together with a condition on every field, with values on both sides of each test; all of them cut at every byte. Two GUIDs, which unread entries of a list may hold; servers and pointers are symmetric |
| `Loop` | `NoReportInBan` `StaleBounded` `HostsSettled` `FloodRuns` `StoreRuns` | two hosts with a server each, one record a call of either sweep, a ban of 2 s and a lease of 1 s, at most one second an iteration, six clock values: a server falls silent, is banned, forgotten and comes back, before, at and after either iterator. The clock ends where an idle host and a session of the first second must be gone; the first ban would need one second more, which doubles the states and is left to the theorem |

Bounds of the models, none of them in the code: `MaxClock` (the clock stops; all
else goes on, and liveness is about what happens after), `MaxLoop` in
`MasterServer`, `MaxAnswers` in `ListPaging`, and `MaxTypes` in `TypesResponse`.
`MaskBits` is 32 in the code and 4 in `Datagrams`, whose masks have no higher bit.
`QueueSize` is the socket's buffer, which is small here. `Epoch` and `SignBit`
put the clock where it is today: past half the range of an S32, so that adding
two times overflows.

Every property of these runs has a mutant in `PROJECT.json`: a fault in one
definition, written next to it in the module, under which TLC finds the property
violated.

**Fairness.** `FairSpec` of the two components says that DoProcessing runs again
and again and that time passes. That is what `FloodRuns` and `StoreRuns` check
of the loop: every behaviour of `MasterServer` is, seen from either component, a
fair behaviour of it. What the loop itself needs is that its own calls return and
that each drain ends. The code does not bound a drain (`core.cc:324`): under
packets that always come within 10 ms of each other no sweep runs. No fairness
is assumed of packets. In `MasterdCore` every process is scheduled once it has
started (weak fairness of its next step), and `StopHonoured` is about the time
after the last packet, since the code gives no more than that.

**Disagreements between the code and what it says.** Each is a run that TLC
finds violated.

| run | what happens | what is documented |
|---|---|---|
| `FloodBanServed` | RepPeer *adds* now + BanTime to the end of the ban. A banned host that reaches the limit again gets the sum of two Unix times, negative as an S32, and the next line of the gate lifts the ban | "ignored until the ban time has expired", "set or increase ban time" |
| `StoreCollision` | `addr->address << 16` loses the high half of the address: hosts that agree in the low half share a record | "4 bytes: IPv4 address" |
| `StoreTypes` | a record that changes to a known type takes no reference; the name is freed under it and typed queries miss the server | "reference counter" |
| `ListWhole` | the number of full packets is used as the number of servers per packet: from 242 servers on most are never sent | "number of servers per packet" |
| `TypesOverrun` | when the types do not all fit each list gets half the payload, the two count bytes are forgotten, and writeBytes does not refuse to write past the end | "prevent any possible buffer [...] overruns (write)" |

More were met and have no run.

- GetSession finds and renews a session that has expired and not been swept,
  while sessions are said to "expire ... after 15 seconds since last activity".
- `GetPeerRecord` initialises tsLastReset from a field that is still 0, so that
  the check of a new host's first packet takes its ticket back, while hosts are
  "ticketed for every packet".
- The ban time is documented as "Default: 300 (5 minutes)" and is 600
  (`core.cc:529`, `:561`).
- A query with a minimum of players and no maximum gets the minimum as its
  maximum (`TorqueIO.cc:147`), while "if something is null, it is a *"
  (`ServerStore.h:194`): it finds only servers with exactly that many players.
- The counts of the types answer are limited to a byte only when all types are
  sent (`TorqueIO.cc:336`). When the lists are cut, names of one and two
  characters can be more than 255 in half a packet, and writeU8 (`:378`) sends the
  low byte of their number. `TypesResponse` has the space they take and not this
  value.
- CPUSpeed of a report is "U16" in the comment (`TorqueIO.cc:218`) and read with
  readU32 (`:235`). The model's senders write four bytes.
- strtrim is to "trim both left and right of all whitespace characters"
  (`core.cc:140`) and looks at every second character from the end only. With
  `$port 5 ` the last blank goes, the digit is not looked at, the blank before it
  goes, too, and the value with it; the setting then has none, and the daemon
  ends. `$port 28002 ` is read as meant. `CoreLife` has such a file.
- The same loop runs below 0 on `# `, which the program itself writes for the
  empty lines in the descriptions of the verbosity and of flood control
  (`core.cc:497-510`, `:757-779`), and clears a blank that lies before the buffer.
  `CreatedIsRead` has this as its one exception.
- A pid file that cannot be removed leads to a process that has ended; the code
  says so ("we don't care if it fails or not", `core.cc:848`), and
  `PidFileCurrent` excludes it by name.
- The type of a query is looked up by name and compared by pointer, so the fault
  of `StoreTypes` reaches the client: `AnswerExact` says what is left of "finds
  the servers that meet it", with servers whose type was freed as an exception.

## 4. Proofs

All are checked by TLAPS with no fact taken on trust. The assumptions are those
named in the modules: keys are below `End`, the preferences are positive, a
sweep visits at least one entry, the clock is where `ClockAssumption` says, a
message fits its fields and counts its lists, a name fits a string, and every
number has digits of its own. No assumption bounds how many hosts, servers,
sessions, names or messages there are, beyond what the widths of their fields do.

*The sweep.* `PlaceAfterValid` is proved once, from `FirstFromInMap`, and that
from the least-element principle (`LeastElement`), which is proved from the
induction rule on naturals. `CursorNeverDangles` in both proof modules follows
from it for the sweep, and for all other steps because they erase nothing. How
soon a sweep is at an entry is counted in calls (`Calls`): the entries from the
iterator to it, rounded up to calls, and one call more when the iterator must
first go back to the beginning. `CallsBounded` is the most this can be.

*Flood control.* `IInv` is `TypeOK`, `CursorValid`, `BanBounded` and
`BannedHasNoSessions` strengthened by how the timestamps relate: nothing is seen
in the future, a session was used no later than its host was seen, and
`lastActive` is what `tsLastSeen` says. `BanBounded` is not inductive alone: that
RepPeer adds to an old end of ban is harmless only if an existing ban is undone
at once, which needs `WrapOverflows`: the sum of two ends of ban is negative.
`InvariantHolds` is the induction; `TypesCorrect`, `BansAreBounded`,
`BansEndSessions`, `IdleOnlyForgotten`, `NoLiveSessionLost` and `BansHold` are
its consequences. `RebanLiftsBan` shows that the fault in run `FloodBanServed`
does not depend on the preferences.

*Database.* `InvariantHolds` says that each record sits in the slot of its own
address and agrees with the last report of its server. With `DistinctSlots`
(which the code does not ensure: see `StoreCollision`) it gives
`ReportersAreListed` and the refinement `StoreImplementsRegistry`: every step
maps to a step of the registry or to a stutter.

*Type lists.* `TInv` of `ServerStoreProofs` says of either list that it has each
name once and that no count exceeds the records with its pointer. Neither
direction is obvious: a record may point to a name that was freed, and to another
name that took its place, and then counts as a user that never took a reference.
The count stays below all the same, since a reference is dropped only with a
record that has the pointer. The lemmas follow one list through a push
(`AddCounted`, `RenewCounted`) and through the pops of a sweep (`PopCounted`).
`TypesCorrect` and `CountsInUse` are the result for both.

*The loop.* `FloodSafe` and `StoreSafe` say that every behaviour of the loop is
one of either component, by a step of one component or a stutter for each
action. So the invariants of both hold of it. `NoReportWhileBanned` needs both:
a record changes only by a report of its own server, if no two share a slot, and
then its host has just been served, so it is not banned; and where a ban begins,
it ends `BanTime` from a moment no earlier than the report.
`StaleGoneInTime` is about time. `TimeInv` says of each record that there is a
number of calls in which the sweep comes to it (`DueIn`), and that so many
iterations of `MaxLoop` seconds, counted from the beginning of this one, end in
time. A sweep that does not reach the record takes one from that number
(`SweepInTime`), however the records before it come and go; the end of a drain
moves the beginning by `MaxLoop` at most (`DrainEndInTime`); and a report starts
with a whole round (`WithinRound`). A record the sweep reaches is either erased or
fresh, and a fresh one has a round before it.
`HostsSettledInTime` is the same argument for flood control (`HostInv`), where a
record has several times: the end of its ban or else the time to forget it, and
one for each session, each of them moved by packets. `ReceiveDue` says that a
packet leaves no due time that is past, unless it was there before: a ban that
holds after the gate ends later than now, a host that was heard is not idle, and
a session is as old as it was or was used now. `SweepDue` says that whatever a
call has gone through and left is due later, for which `CheckSessionsGood` shows
that CheckSessions keeps no expired session, wherever it is in the list.

*List answers.* `PageInv` says that every session is the layout of a list, that
every packet sent is a page of such a layout, and that a session's first page was
sent. The slices of two pages are in order (`SlicesInOrder`): `TimesMonotone`
puts their starts at least `packNum` apart, and `ProductFits` shows that the word
they are computed in does not wrap.
`ServersSentOnce` and `ShortListsSentWhole` follow for all sizes under
`CountedInByte`: the number of packets of every list fits its field. In the
code that is every list below 61710 servers.
`ReadsStayInRange` is the other half: what sendListResponse reads is inside the
results and what it writes inside its buffer, up to `PerPacket` full packets.

*Types answer.* `TypesInv` says of a list what sendTypesResponse relies on: its
running total and its count together are the bytes of its names, whatever names
came and went (`PushKeeps`, `DropKeeps`). So the size computed beforehand is the
size that is written, and `TypesSentWhole` follows: if it fits, every write
succeeds and all names are in the packet. `OverrunBounded` is what remains when
they do not fit: each list stops inside its half, and only the count bytes,
which the halves forget, exceed the packet.

*Messages.* Where each field of a datagram lies comes from `FlattenLayout` (a
concatenation holds its parts one after the other) by way of `FixedLayout` and
`ListLayout`; `Arrives` says what is left of it when the datagram is cut. A read
gets a field that lies at the pointer or fails, and no read undoes a failure
(`FieldWhole`, `PartRead`); the lists, whose reads nobody tests, have their first
entries right (`EntriesRead`, `ListsRead`). So a report either has its fixed part
and is stored as it was sent, or changes nothing (`ReportRead`), which makes
`StoredInv` inductive: a record is there exactly if such a report was, and agrees
with the last one. `RecordsReported` is its consequence, and with `TypesInv`, by
which the type lists stay sound through every push and pop (`PushTyped`,
`PopTyped`), so is `RecordsTyped`. A request is read whole or refused
(`IndexRead`, `QueryRead`); `CutRequestsRefused` follows, and with `StoredInv`
also `QueriesExact`: the chain of tests on the records finds the servers whose
reports meet the query. It has the three exceptions that `AnswerExact` states. A
type that is still where the record points is found by its name and no other
(`IsTypeKept`); of one that was freed nothing is said, since the server may be
missed or, when another name took its place, be found for that one.

*Daemon.* `TypesCorrect` says that every instance runs with settings in range
whatever lines the file has, since a text always gives a number (`NumberIsNat`)
and every number is limited afterwards (`ClampInRange`). With it `PidFileCurrent`
is inductive: a step either leaves the pid file alone and keeps the process it
names between SetPid and ClearPid, or writes the file, or removes it, or is a
crash or a remove() that fails, which `unclean` remembers. `PidFileLeadsToProcess` is the result.
`CreatedFileRead` is about the preferences file. Its comment and blank lines set
nothing (`RemarksSkipped`), so the settings are what their two lines give
(`CreatedLines`, `CreatedRead`). There LoadPrefs finds the name and value that
CreatePrefs wrote (`LineRead`: the line has one blank, and strtrim finds nothing
to cut), the value has no quotes to lose (`UnquotedSame`), its digits are no other
number's (`DecimalRead`), and the defaults are in range. So whichever instance
reads the file next runs with them, except that one with a blank before its
buffer may end at an empty line of a description.

*Functions on sequences.* The models define what a loop computes by a recursive
function on `0 .. n`. `RecursionDefines` in `MapSweepProofs` says that such a
function is there and obeys its equation, and `NatInSteps` and `UpToInSteps` are
the induction over its steps, stated for a set of numbers.

**Only model-checked:** the liveness properties `ExpiredSessionsDropped`,
`IdleForgotten`, `ElapsedBanLifted`, `LapsedRemoved` and `StopHonoured`, which
are out of the prover's reach, and with them the fairness in `FloodRuns` and
`StoreRuns`. The safety part of those two is `FloodSafe` and `StoreSafe`. The
first four say that something happens in the end; `HostsSettledInTime` and
`StaleGoneInTime` say by when, under the bound on an iteration.

## 5. Not modelled

All components that keep state are modelled. Left out are:

- *The info answer* (`sendInfoResponse`): two strings and a count in a packet
  they always fit in; it changes nothing.
- *System calls, log output, the socket wrapper* (`network/netSocket.cc`) *and
  the vendored utilities*: they keep no state a property here is about. Of the
  sockets, what bind and the receive buffer do is in `MasterdCore`, and loss,
  duplication and reordering are in the other models as packets that come in any
  order, any number of times.
- *Preferences lines longer than the buffer*, which are read as several lines,
  and the string settings, which are read like the numbers.
- *The old main loop* (`network/core.cc`), which is not built.

A question that is left: how old the servers in an answer may be when a client
keeps a session alive by resends.
