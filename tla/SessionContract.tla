--------------------------- MODULE SessionContract ---------------------------
(***************************************************************************)
(* What sessions promise to a client that sends one request at a time:     *)
(* at most one session is open, every request served while it is open is   *)
(* appended to its trace, and once it has ended its trace is fixed.        *)
(*                                                                         *)
(* A control reset (or seed) cuts an open session off: its trace is lost   *)
(* and nothing is added to it any more, but it has not ended.              *)
(***************************************************************************)
EXTENDS Naturals, Sequences

CONSTANT Req

VARIABLES
  status,   \* of every session created so far, sessions numbered from 1
  trace     \* the requests each session consists of

vars == <<status, trace>>

Status == {"open", "cut_off", "ended"}

Open == {s \in DOMAIN status : status[s] = "open"}

Init == status = <<>> /\ trace = <<>>

\* A new session can only be opened when no other is open.
OpenSession ==
  /\ Open = {}
  /\ status' = Append(status, "open")
  /\ trace' = Append(trace, <<>>)

Serve(r) ==
  /\ trace' = [s \in DOMAIN trace |->
                 IF s \in Open THEN Append(trace[s], r) ELSE trace[s]]
  /\ UNCHANGED status

CutOff ==
  /\ Open # {}
  /\ status' = [s \in DOMAIN status |->
                  IF s \in Open THEN "cut_off" ELSE status[s]]
  /\ trace' = [s \in DOMAIN trace |->
                 IF s \in Open THEN <<>> ELSE trace[s]]

End(s) ==
  /\ s \in DOMAIN status
  /\ status[s] # "ended"
  /\ status' = [status EXCEPT ![s] = "ended"]
  /\ UNCHANGED trace

Next ==
  \/ OpenSession \/ CutOff
  \/ \E r \in Req : Serve(r)
  \/ \E s \in DOMAIN status : End(s)

Spec == Init /\ [][Next]_vars
=============================================================================
