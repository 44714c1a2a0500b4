----------------------------- MODULE MasterdCore -----------------------------
(***************************************************************************)
(* The life of the daemon (masterd/core.cc): start, core loop, signals and *)
(* shutdown, with the preferences and pid files.  Several instances may be *)
(* started in one directory, which share both files and, if they are told  *)
(* the same port, fight for the socket.                                    *)
(*                                                                         *)
(* Signal handlers run between any two steps of their process.  What is    *)
(* done with a packet is in FloodControl and ServerStore.                  *)
(***************************************************************************)
EXTENDS Preferences

CONSTANTS
    Instance,
    None,
    Default,                  \* the compiled in settings
    MaxPort, MaxHeartbeat,    \* 65535 and 3600
    File,                     \* the lines of the preferences files there may be
    StrayBlank,               \* the instances that have a blank on the stack, left
                              \* there by earlier calls, before LoadPrefs' buffer
    QueueSize                 \* of the socket's buffer, in packets

ASSUME DefaultAssumption == /\ {MaxPort, MaxHeartbeat} \subseteq Nat
                            /\ Default \in [Setting -> Nat]
                            /\ Default["port"] \in 1 .. MaxPort
                            /\ Default["heartbeat"] <= MaxHeartbeat
                            /\ {Default[s] : s \in Setting} \subseteq DOMAIN Decimal

ASSUME NoneAssumption == None \notin Instance

ASSUME StrayAssumption == StrayBlank \subseteq Instance

ASSUME QueueAssumption == QueueSize \in Nat \ {0}

VARIABLES
    pc,             \* instance -> the call it is about to make
    m_RunThread,    \* instance -> its flag
    m_Prefs,        \* instance -> its settings
    bound,          \* the instances with a bound socket
    queue,          \* instance -> packets in its socket
    prefsFile,      \* the preferences file: its status and its lines
    pidFile,        \* whose pid the pid file holds, None when there is no file
                    \* or an empty one
    traffic,        \* whether packets still come
    unclean         \* history: the instances that ended before ClearPid, and
                    \* those whose remove() of the pid file failed

files == <<prefsFile, pidFile>>
socket == <<bound, queue>>
world == <<traffic, unclean>>
vars == <<pc, m_RunThread, m_Prefs, socket, files, world>>

\* The object coreMan points to exists; a signal handler finds it.
HasCore == {"LoadPrefs", "SetPid", "setFlag", "bind", "loop", "sweep", "poll",
            "handle", "ShutDown", "ClearPid", "delete"}

\* The preferences files.
WithLines(file) == [status |-> "good", lines |-> file]
Readable == {WithLines(file) : file \in File}
Missing == [status |-> "missing", lines |-> <<>>]
Unreadable == [status |-> "unreadable", lines |-> <<>>]

-----------------------------------------------------------------------------
(***************************************************************************)
(* Start                                                                   *)
(***************************************************************************)
Init == /\ pc = [i \in Instance |-> "install"]
        /\ m_RunThread = [i \in Instance |-> FALSE]
        /\ m_Prefs = [i \in Instance |-> Default]
        /\ bound = {}
        /\ queue = [i \in Instance |-> 0]
        /\ prefsFile \in Readable \cup {Missing, Unreadable}
        /\ pidFile = None
        /\ traffic = TRUE
        /\ unclean = {}

Goto(i, from, to) == pc[i] = from /\ pc' = [pc EXCEPT ![i] = to]

InstallHandlers(i) ==
    /\ Goto(i, "install", "new")
    /\ UNCHANGED <<m_RunThread, m_Prefs, socket, files, world>>

InitPrefs == Default

\* coreMan = new MasterdCore
NewCore(i) ==
    /\ Goto(i, "new", "LoadPrefs")
    /\ m_RunThread' = [m_RunThread EXCEPT ![i] = FALSE]
    /\ m_Prefs' = [m_Prefs EXCEPT ![i] = InitPrefs]
    /\ UNCHANGED <<socket, files, world>>

\* Fault for TypeOK: the other limit is forgotten.
ClampPort(prefs) == [prefs EXCEPT !["port"] = IF @ > MaxPort THEN Default["port"] ELSE @]

\* A port out of range is replaced by the default, a heartbeat by its maximum.
Clamp(prefs) ==
    [prefs EXCEPT !["port"]      = IF @ > MaxPort THEN Default["port"] ELSE @,
                  !["heartbeat"] = IF @ > MaxHeartbeat THEN MaxHeartbeat ELSE @]

\* A file that is missing is created with the defaults, which may fail.  A line
\* of the file may end the process, as may what strtrim clears before a line:
\* this is padding, or part of another local variable.
LoadPrefs(i) ==
    \/ /\ Goto(i, "LoadPrefs", "SetPid")
       /\ \/ /\ prefsFile = Missing
             /\ prefsFile' \in {Missing, WithLines(CreatePrefs(m_Prefs[i]))}
             /\ UNCHANGED m_Prefs
          \/ /\ prefsFile = Unreadable
             /\ UNCHANGED <<prefsFile, m_Prefs>>
          \/ /\ prefsFile.status = "good"
             /\ ~EndsProcess(prefsFile.lines)
             /\ m_Prefs' = [m_Prefs EXCEPT ![i] = Clamp(Read(@, prefsFile.lines))]
             /\ UNCHANGED prefsFile
       /\ UNCHANGED <<m_RunThread, socket, pidFile, world>>
    \/ /\ Goto(i, "LoadPrefs", "done")
       /\ prefsFile.status = "good"
       /\ \/ MayEndProcess(prefsFile.lines)
          \/ i \in StrayBlank /\ LooksBefore(prefsFile.lines)
       /\ unclean' = unclean \cup {i}
       /\ UNCHANGED <<m_RunThread, m_Prefs, socket, files, traffic>>

\* The file of another instance is written over.  Opening the file may fail,
\* and writing to the open file, which is empty then.
SetPid(i) ==
    /\ Goto(i, "SetPid", "setFlag")
    /\ pidFile' \in {i, pidFile, None}
    /\ UNCHANGED <<m_RunThread, m_Prefs, socket, prefsFile, world>>

\* A stop request that came before is lost here.
SetRunThread(i) ==
    /\ Goto(i, "setFlag", "bind")
    /\ m_RunThread' = [m_RunThread EXCEPT ![i] = TRUE]
    /\ UNCHANGED <<m_Prefs, socket, files, world>>

\* Port 0 asks for any port that is free.
PortTaken(i) == /\ m_Prefs[i]["port"] # 0
                /\ \E j \in bound : m_Prefs[j]["port"] = m_Prefs[i]["port"]

\* Fault for StopHonoured: the flag is set only after the socket is bound.
BindThenSetFlag(i) ==
    \/ /\ Goto(i, "bind", "loop")
       /\ ~PortTaken(i)
       /\ bound' = bound \cup {i}
       /\ m_RunThread' = [m_RunThread EXCEPT ![i] = TRUE]
       /\ UNCHANGED <<m_Prefs, queue, files, world>>
    \/ /\ Goto(i, "bind", "ShutDown")
       /\ UNCHANGED <<m_RunThread, m_Prefs, socket, files, world>>

\* Fault for PidFileCurrent: a failed start just returns.
BindOrReturn(i) ==
    \/ /\ Goto(i, "bind", "loop")
       /\ ~PortTaken(i)
       /\ bound' = bound \cup {i}
       /\ UNCHANGED <<m_RunThread, m_Prefs, queue, files, world>>
    \/ /\ Goto(i, "bind", "delete")
       /\ UNCHANGED <<m_RunThread, m_Prefs, socket, files, world>>

\* Bind may fail for other reasons than the port, too.
Bind(i) ==
    \/ /\ Goto(i, "bind", "loop")
       /\ ~PortTaken(i)
       /\ bound' = bound \cup {i}
       /\ UNCHANGED <<m_RunThread, m_Prefs, queue, files, world>>
    \/ /\ Goto(i, "bind", "ShutDown")
       /\ UNCHANGED <<m_RunThread, m_Prefs, socket, files, world>>

-----------------------------------------------------------------------------
(***************************************************************************)
(* The core loop                                                           *)
(***************************************************************************)
TestFlag(i) ==
    /\ Goto(i, "loop", IF m_RunThread[i] THEN "sweep" ELSE "ShutDown")
    /\ UNCHANGED <<m_RunThread, m_Prefs, socket, files, world>>

\* DoProcessing of flood control and of the database.
Sweep(i) ==
    /\ Goto(i, "sweep", "poll")
    /\ UNCHANGED <<m_RunThread, m_Prefs, socket, files, world>>

\* A packet that is there is taken.  An empty one ends the drain, as no packet
\* within 10 ms or a signal does.
Poll(i) ==
    \/ /\ queue[i] > 0
       /\ \/ Goto(i, "poll", "handle")
          \/ Goto(i, "poll", "loop")
       /\ queue' = [queue EXCEPT ![i] = @ - 1]
       /\ UNCHANGED <<m_RunThread, m_Prefs, bound, files, world>>
    \/ /\ queue[i] = 0
       /\ Goto(i, "poll", "loop")
       /\ UNCHANGED <<m_RunThread, m_Prefs, socket, files, world>>

\* CheckPeer and perhaps ProcMessage.  The flag is not looked at.
Handle(i) ==
    /\ Goto(i, "handle", "poll")
    /\ UNCHANGED <<m_RunThread, m_Prefs, socket, files, world>>

-----------------------------------------------------------------------------
(***************************************************************************)
(* The end                                                                 *)
(***************************************************************************)
Release(i) == /\ bound' = bound \ {i}
              /\ queue' = [queue EXCEPT ![i] = 0]

ShutDown(i) ==
    /\ Goto(i, "ShutDown", "ClearPid")
    /\ Release(i)
    /\ UNCHANGED <<m_RunThread, m_Prefs, files, world>>

\* The file goes whoever's pid it holds.  That it cannot be removed is not
\* looked at: it stays.
ClearPid(i) ==
    /\ Goto(i, "ClearPid", "delete")
    /\ \/ pidFile' = None /\ UNCHANGED unclean
       \/ unclean' = unclean \cup {i} /\ UNCHANGED pidFile
    /\ UNCHANGED <<m_RunThread, m_Prefs, socket, prefsFile, traffic>>

DeleteCore(i) ==
    /\ Goto(i, "delete", "setNull")
    /\ UNCHANGED <<m_RunThread, m_Prefs, socket, files, world>>

SetNull(i) ==
    /\ Goto(i, "setNull", "done")
    /\ UNCHANGED <<m_RunThread, m_Prefs, socket, files, world>>

-----------------------------------------------------------------------------
(***************************************************************************)
(* Signals and the world                                                   *)
(***************************************************************************)

\* SIGINT or SIGTERM.  Without a handler it ends the process; without an object
\* nothing happens; with one that is freed the write may end the process, too.
Stop(i) ==
    \/ /\ pc[i] \in HasCore
       /\ m_RunThread' = [m_RunThread EXCEPT ![i] = FALSE]
       /\ UNCHANGED <<pc, m_Prefs, socket, files, world>>
    \/ /\ Goto(i, "install", "done") \/ Goto(i, "setNull", "done")
       /\ UNCHANGED <<m_RunThread, m_Prefs, socket, files, world>>

\* A crash, or SIGKILL: the system closes the socket, the files stay.
Kill(i) ==
    /\ pc[i] # "done"
    /\ pc' = [pc EXCEPT ![i] = "done"]
    /\ Release(i)
    /\ unclean' = unclean \cup {i}
    /\ UNCHANGED <<m_RunThread, m_Prefs, files, traffic>>

\* Packets that find the buffer full are dropped.
Arrive(i) ==
    /\ traffic
    /\ i \in bound /\ queue[i] < QueueSize
    /\ queue' = [queue EXCEPT ![i] = @ + 1]
    /\ UNCHANGED <<pc, m_RunThread, m_Prefs, bound, files, world>>

TrafficEnds ==
    /\ traffic
    /\ traffic' = FALSE
    /\ UNCHANGED <<pc, m_RunThread, m_Prefs, socket, files, unclean>>

\* The preferences are edited or removed by hand.
EditPrefs ==
    /\ prefsFile' \in (Readable \cup {Missing}) \ {prefsFile}
    /\ UNCHANGED <<pc, m_RunThread, m_Prefs, socket, pidFile, world>>

Start(i) == \/ InstallHandlers(i) \/ NewCore(i) \/ LoadPrefs(i) \/ SetPid(i)
            \/ SetRunThread(i)

Work(i) == \/ Bind(i) \/ TestFlag(i) \/ Sweep(i) \/ Poll(i) \/ Handle(i)
           \/ ShutDown(i) \/ ClearPid(i) \/ DeleteCore(i) \/ SetNull(i)

Run(i) == Start(i) \/ Work(i)

Next == \/ \E i \in Instance : Run(i) \/ Stop(i) \/ Kill(i) \/ Arrive(i)
        \/ TrafficEnds
        \/ EditPrefs

Spec == Init /\ [][Next]_vars

\* Every process is scheduled, of which only what follows the start matters here.
FairSpec == Spec /\ \A i \in Instance : WF_vars(Work(i))

-----------------------------------------------------------------------------
(***************************************************************************)
(* Properties                                                              *)
(***************************************************************************)
Prefs == [Setting -> Nat]

\* The settings of every instance are in range whatever file it has read.
TypeOK ==
    /\ pc \in [Instance -> HasCore \cup {"install", "new", "setNull", "done"}]
    /\ m_RunThread \in [Instance -> BOOLEAN]
    /\ m_Prefs \in [Instance -> Prefs]
    /\ \A i \in Instance : /\ m_Prefs[i]["port"] <= MaxPort
                           /\ m_Prefs[i]["heartbeat"] <= MaxHeartbeat
    /\ bound \subseteq Instance
    /\ queue \in [Instance -> 0 .. QueueSize]
    /\ pidFile \in Instance \cup {None}
    /\ traffic \in BOOLEAN
    /\ unclean \subseteq Instance

\* Between SetPid and ClearPid.
HoldsPid == {"setFlag", "bind", "loop", "sweep", "poll", "handle", "ShutDown", "ClearPid"}

\* Whoever the pid file names is still at work, or was killed, or could not
\* remove the file, however many instances were started, failed to bind and
\* stopped in whatever order: where remove() works, the file never leads to a
\* process that has ended by itself.  It may be gone while an instance is at
\* work, since every instance removes it.
PidFileCurrent == pidFile # None => pc[pidFile] \in HoldsPid \/ pidFile \in unclean

\* The file an instance creates brings the next one up with the same settings,
\* whatever happens between: what CreatePrefs writes LoadPrefs reads, line by
\* line, without a value that is lost and without the end of the process.  One
\* thing may end it: an empty line in a description, when a blank lies on the
\* stack before the line.
CreatedIsRead ==
    [][\A i \in Instance :
         LoadPrefs(i) /\ prefsFile = WithLines(CreatePrefs(Default))
           => \/ pc'[i] = "SetPid" /\ m_Prefs'[i] = Default
              \/ pc'[i] = "done" /\ i \in StrayBlank]_vars

\* From the moment m_RunThread has been set, a stop request is never lost: once
\* no more packets come the daemon shuts down, with its socket closed.  Nothing
\* of the kind holds for a request that comes earlier, or while packets come.
Asked(i) == pc[i] \in {"bind", "loop", "sweep", "poll", "handle"} /\ ~m_RunThread[i]

StopHonoured ==
    \A i \in Instance : (Asked(i) /\ ~traffic) ~> (pc[i] = "done" /\ i \notin bound)

=============================================================================
