---------------------------- MODULE SharedBuffer ----------------------------
(***************************************************************************)
(* What the packet buffers of the switch promise the ports, whatever the   *)
(* bufids go through: a buffer is given to one packet at a time, it stays  *)
(* that packet's until the last port that sends it has released it, and    *)
(* then it is free again.  BufferPool implements this.                     *)
(***************************************************************************)
CONSTANTS Ports,    \* the output ports
          Ids,      \* the buffers
          MayLose   \* a port may be forgotten, and with it the buffer

VARIABLES status,   \* per buffer: free, of an incoming packet, or being sent
          users     \* per buffer: the ports that have yet to release it

vars == <<status, users>>

(* A buffer that is being sent by nobody is out of use for good. *)
Init ==
  /\ status \in [Ids -> {"free", "sending"}]
  /\ users = [i \in Ids |-> {}]

Take(i) ==
  /\ status[i] = "free"
  /\ status' = [status EXCEPT ![i] = "incoming"]
  /\ UNCHANGED users

Forward(i, ports) ==
  /\ status[i] = "incoming"
  /\ ports # {} \/ MayLose
  /\ status' = [status EXCEPT ![i] = "sending"]
  /\ users' = [users EXCEPT ![i] = ports]

Release(i, p) ==
  /\ p \in users[i]
  /\ users' = [users EXCEPT ![i] = @ \ {p}]
  /\ \/ /\ users[i] = {p}
        /\ status' = [status EXCEPT ![i] = "free"]
     \/ /\ users[i] # {p} \/ MayLose
        /\ UNCHANGED status

Next == \E i \in Ids :
          \/ Take(i)
          \/ \E ports \in SUBSET Ports : Forward(i, ports)
          \/ \E p \in Ports : Release(i, p)

Spec == Init /\ [][Next]_vars
=============================================================================
