------------------------------ MODULE ClientLife ------------------------------
(***************************************************************************)
(* What mqtt_service promises of its clients, without the flags, the       *)
(* events and the deadlines: a client is made when the service has none,   *)
(* belongs to the service until one task that destroys no other takes it,  *)
(* and from then on to that task alone until it is destroyed.              *)
(***************************************************************************)
CONSTANTS Clients,      \* the clients that can exist at a time
          Tasks         \* who may take a client from the service

VARIABLES alive,        \* the clients that exist
          current,      \* those of them the service has
          taken         \* of each client, the tasks that destroy it

vars == <<alive, current, taken>>

Init == /\ alive = {}
        /\ current = {}
        /\ taken = [c \in Clients |-> {}]

Start(c) ==
  /\ c \notin alive /\ current = {}
  /\ alive' = alive \cup {c} /\ current' = {c}
  /\ UNCHANGED taken

Stop(c, t) ==
  /\ c \in current /\ \A d \in Clients : t \notin taken[d]
  /\ current' = current \ {c}
  /\ taken' = [taken EXCEPT ![c] = {t}]
  /\ UNCHANGED alive

(* At the end of a stop, or when its start fails.                          *)
End(c) ==
  /\ c \in alive
  /\ alive' = alive \ {c} /\ current' = current \ {c}
  /\ taken' = [taken EXCEPT ![c] = {}]

Next == \E c \in Clients : Start(c) \/ End(c) \/ \E t \in Tasks : Stop(c, t)

Spec == Init /\ [][Next]_vars
=============================================================================
