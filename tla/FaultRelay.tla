----------------------------- MODULE FaultRelay -----------------------------
(***************************************************************************)
(* The relay that stands between a gateway and its nodes while an outage   *)
(* is rehearsed (src/examples/ws_fault_relay.rs): pause, resume, and the   *)
(* task of each connection.                                                *)
(*                                                                         *)
(* Circuit tokens are numbered in the order in which resume makes them.    *)
(* One operator sends pause and resume, each after the one before was      *)
(* answered, in any order and any number of times: what a script does that *)
(* repeats a request whose answer it lost.                                 *)
(*                                                                         *)
(* The names are apart from those of WsBridge, so that both may be         *)
(* extended.                                                               *)
(***************************************************************************)
EXTENDS Integers

CONSTANTS
    Connection,  \* connections that clients open, each once
    MaxOrders    \* bound: how many times pause or resume is sent

VARIABLES
    paused,     \* Relay.paused
    circuit,    \* the token in Relay.circuit
    cancelled,  \* the tokens that are cancelled
    operator,   \* the request being handled, if one is
    orders,     \* how many were sent
    task,       \* where the task of each connection is
    token,      \* the token it cloned when it was accepted
    last,       \* history: the request that was answered last
    orphaned    \* history: tokens replaced while not cancelled

controlVars == <<paused, circuit, cancelled, operator, orders, last, orphaned>>
relayVars == <<controlVars, task, token>>

RelayInit ==
    /\ paused = FALSE
    /\ circuit = 0
    /\ cancelled = {}
    /\ operator = "idle"
    /\ orders = 0
    /\ task = [c \in Connection |-> "idle"]
    /\ token = [c \in Connection |-> 0]
    /\ last = "resume"
    /\ orphaned = {}

-----------------------------------------------------------------------------
(* The control handlers, two writes each.                                  *)

Order ==
    /\ operator = "idle"
    /\ orders < MaxOrders
    /\ orders' = orders + 1
    /\ operator' \in {"pause", "resume"}
    /\ UNCHANGED <<paused, circuit, cancelled, last, orphaned, task, token>>

\* pause: the flag first, so that no connection slips in behind the token.
StorePaused ==
    /\ operator = "pause"
    /\ paused' = TRUE
    /\ operator' = "pausing"
    /\ UNCHANGED <<circuit, cancelled, orders, last, orphaned, task, token>>

\* Mutant of CancelCircuit: a pause only keeps new connections out.
CancelNothing ==
    /\ operator = "pausing"
    /\ operator' = "idle"
    /\ last' = "pause"
    /\ UNCHANGED <<paused, circuit, cancelled, orders, orphaned, task, token>>

CancelCircuit ==
    /\ operator = "pausing"
    /\ cancelled' = cancelled \cup {circuit}
    /\ operator' = "idle"
    /\ last' = "pause"
    /\ UNCHANGED <<paused, circuit, orders, orphaned, task, token>>

\* Mutant of ReplaceCircuit: the token of before the outage is kept.
KeepCircuit ==
    /\ operator = "resume"
    /\ operator' = "resuming"
    /\ UNCHANGED <<paused, circuit, cancelled, orders, last, orphaned, task,
                   token>>

\* resume: a token that nobody cancelled yet, and only then the flag.
ReplaceCircuit ==
    /\ operator = "resume"
    /\ circuit' = circuit + 1
    /\ orphaned' = orphaned \cup ({circuit} \ cancelled)
    /\ operator' = "resuming"
    /\ UNCHANGED <<paused, cancelled, orders, last, task, token>>

StoreResumed ==
    /\ operator = "resuming"
    /\ paused' = FALSE
    /\ operator' = "idle"
    /\ last' = "resume"
    /\ UNCHANGED <<circuit, cancelled, orders, orphaned, task, token>>

-----------------------------------------------------------------------------
(* The task of a connection.                                               *)

Becomes(c, where) == task' = [task EXCEPT ![c] = where]

\* The token is cloned when the task starts, before the handshake.
Accept(c) ==
    /\ task[c] = "idle"
    /\ token' = [token EXCEPT ![c] = circuit]
    /\ Becomes(c, "handshaking")
    /\ UNCHANGED controlVars

\* The handshake is refused while paused, or for a path that names no upstream;
\* it may fail, and a client may never complete it.
Handshake(c) ==
    /\ task[c] = "handshaking"
    /\ \/ ~paused /\ Becomes(c, "connecting")
       \/ Becomes(c, "closed")
    /\ UNCHANGED <<controlVars, token>>

\* The upstream answers or fails.  Like the pump, it is a biased select!.
Connect(c) ==
    /\ task[c] = "connecting"
    /\ token[c] \notin cancelled
    /\ Becomes(c, "pumping") \/ Becomes(c, "closed")
    /\ UNCHANGED <<controlVars, token>>

\* Mutant of CutOff: only the pump looks at the token.
CutOffPumpOnly(c) ==
    /\ task[c] = "pumping"
    /\ token[c] \in cancelled
    /\ Becomes(c, "closed")
    /\ UNCHANGED <<controlVars, token>>

\* cancelled.cancelled(), first of either select!.
CutOff(c) ==
    /\ task[c] \in {"connecting", "pumping"}
    /\ token[c] \in cancelled
    /\ Becomes(c, "closed")
    /\ UNCHANGED <<controlVars, token>>

\* A message of either side, or the end of one.
Receive(c) ==
    /\ task[c] = "pumping"
    /\ token[c] \notin cancelled
    /\ Becomes(c, "sending") \/ Becomes(c, "closed")
    /\ UNCHANGED <<controlVars, token>>

\* The message is sent inside the branch, where the token is not looked at.
Forward(c) ==
    /\ task[c] = "sending"
    /\ Becomes(c, "pumping") \/ Becomes(c, "closed")
    /\ UNCHANGED <<controlVars, token>>

-----------------------------------------------------------------------------
Control == Order \/ StorePaused \/ CancelCircuit \/ ReplaceCircuit
           \/ StoreResumed

RelayNext ==
    \/ Control
    \/ \E c \in Connection :
          Accept(c) \/ Handshake(c) \/ Connect(c) \/ CutOff(c) \/ Receive(c)
          \/ Forward(c)

\* Handlers run on; a task that was woken by its token is polled, and a peer
\* takes the message in hand.  Nothing is asked of handshakes, upstreams and
\* messages.
RelayFairness ==
    /\ WF_relayVars(StorePaused \/ CancelCircuit \/ ReplaceCircuit
                      \/ StoreResumed)
    /\ \A c \in Connection : WF_relayVars(CutOff(c)) /\ WF_relayVars(Forward(c))

RelaySpec == RelayInit /\ [][RelayNext]_relayVars /\ RelayFairness

-----------------------------------------------------------------------------
(* Properties.                                                             *)

\* The types of Relay and of the tasks.
RelayTypeOK ==
    /\ paused \in BOOLEAN
    /\ circuit \in Nat
    /\ cancelled \in SUBSET Nat
    /\ orphaned \in SUBSET Nat
    /\ operator \in {"idle", "pause", "pausing", "resume", "resuming"}
    /\ orders \in Nat
    /\ last \in {"pause", "resume"}
    /\ task \in [Connection -> {"idle", "handshaking", "connecting", "pumping",
                                "sending", "closed"}]
    /\ token \in [Connection -> Nat]

Dark == operator = "idle" /\ last = "pause"

\* From the answer to a pause to the next resume the upstreams are out of reach:
\* no circuit is made and none takes another message, it may only finish the one
\* in hand.  The exception is a circuit whose token a second resume replaced
\* without cancelling it, which no pause finds again (pause and resume against
\* the two select!s of relay).
OutageIsDark ==
    [][Dark => \A c \in Connection :
          task'[c] \in {"pumping", "sending"} /\ task'[c] # task[c]
             => token[c] \in orphaned \/ task[c] = "sending"]_relayVars

\* A circuit whose token was cancelled ends, wherever its task was when that
\* happened: OPERATIONS.md:123 "stream termination during a five-second relay
\* outage" rests on it.
CutCircuitsEnd ==
    \A c \in Connection :
        (task[c] \in {"connecting", "pumping", "sending"}
           /\ token[c] \in cancelled)
            ~> task[c] = "closed"

\* Once a resume was answered the relay serves again: it lets connections in,
\* and the token they are given from then on is not one that was used up before.
ResumedServes ==
    operator = "idle" /\ last = "resume" => ~paused /\ circuit \notin cancelled
=============================================================================
