--------------------------- MODULE ServerRegistry ---------------------------
(***************************************************************************)
(* What a master server promises the game servers that report to it: a     *)
(* lease.  A server is listed, with what it reported last, from the moment *)
(* it reports and for at least Heartbeat seconds; each report renews the   *)
(* lease.  Nothing is promised on when a lapsed lease ends, and a server   *)
(* that is dropped is forgotten altogether.                                *)
(*                                                                         *)
(* ServerStore implements this specification as long as no two servers     *)
(* share a slot.                                                           *)
(***************************************************************************)
EXTENDS Integers

CONSTANTS Server, Props, Heartbeat

VARIABLES now,      \* the clock
          reports,  \* server -> [props, at]: its last report and when it came
          listed    \* server -> [props, at]: what a query is answered from

vars == <<now, reports, listed>>

Init == now \in Nat /\ reports = <<>> /\ listed = <<>>

With(f, s, v) == [r \in DOMAIN f \cup {s} |-> IF r = s THEN v ELSE f[r]]

Report(s, p) == /\ reports' = With(reports, s, [props |-> p, at |-> now])
                /\ listed' = With(listed, s, [props |-> p, at |-> now])
                /\ UNCHANGED now

Lapsed == {s \in DOMAIN listed : reports[s].at + Heartbeat <= now}

Expire == \E gone \in SUBSET Lapsed :
              /\ listed' = [s \in DOMAIN listed \ gone |-> listed[s]]
              /\ reports' = [s \in DOMAIN reports \ gone |-> reports[s]]
              /\ UNCHANGED now

Tick == now' = now + 1 /\ UNCHANGED <<reports, listed>>

Next == \/ \E s \in Server, p \in Props : Report(s, p)
        \/ Expire
        \/ Tick

Spec == Init /\ [][Next]_vars

=============================================================================
