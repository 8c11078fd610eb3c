--------------------------- MODULE SessionLifecycle ---------------------------
(***************************************************************************)
(* What the daemon promises about one session id, whatever sockets, timers *)
(* and frames do: the state machine that docs/ARCHITECTURE.md section 6    *)
(* draws, with the socket that holds an active session beside it.          *)
(*                                                                         *)
(* An id is minted once, is claimed at most once, moves between active and *)
(* suspended, and once over (discarded, expired, revoked, or forgotten by  *)
(* a restarted daemon) is over for good.  A socket holds one session for   *)
(* as long as it lives, and only an active session is held.                *)
(***************************************************************************)
CONSTANTS
    Sessions,   \* session ids (random, never minted twice)
    Sockets,    \* connections of the wss listener
    NoSocket    \* "no socket"

VARIABLES
    phase,      \* phase[s]: where session id s stands in its life
    holder      \* holder[s]: the socket that session s talks through

lifecycleVars == <<phase, holder>>

Phases == {"unminted", "pending", "active", "suspended", "over"}

LifecycleInit ==
    /\ phase = [s \in Sessions |-> "unminted"]
    /\ holder = [s \in Sessions |-> NoSocket]

Mint(s) ==
    /\ phase[s] = "unminted"
    /\ phase' = [phase EXCEPT ![s] = "pending"]
    /\ UNCHANGED holder

\* A claim or a resume: one socket that holds nobody becomes the holder.
Adopt(s, k) ==
    /\ phase[s] \in {"pending", "active", "suspended"}
    /\ \A t \in Sessions : holder[t] # k
    /\ phase' = [phase EXCEPT ![s] = "active"]
    /\ holder' = [holder EXCEPT ![s] = k]

\* Socket loss.  One keepalive tick may give up on several sockets at once.
Lose(lost) ==
    /\ \A s \in lost : phase[s] = "active"
    /\ phase' = [s \in Sessions |-> IF s \in lost THEN "suspended" ELSE phase[s]]
    /\ holder' = [s \in Sessions |-> IF s \in lost THEN NoSocket ELSE holder[s]]

\* Discard, expiry, revocation of one id; a daemon restart ends every id.
End(ended) ==
    /\ \A s \in ended : phase[s] \in {"pending", "active", "suspended"}
    /\ phase' = [s \in Sessions |-> IF s \in ended THEN "over" ELSE phase[s]]
    /\ holder' = [s \in Sessions |-> IF s \in ended THEN NoSocket ELSE holder[s]]

LifecycleNext ==
    \/ \E s \in Sessions : Mint(s)
    \/ \E s \in Sessions, k \in Sockets : Adopt(s, k)
    \/ \E lost \in SUBSET Sessions : Lose(lost)
    \/ \E ended \in SUBSET Sessions : End(ended)

Lifecycle == LifecycleInit /\ [][LifecycleNext]_lifecycleVars
===============================================================================
