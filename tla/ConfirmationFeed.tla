-------------------------- MODULE ConfirmationFeed --------------------------
(***************************************************************************)
(* What the gateway promises to a subscriber of its confirmation stream    *)
(* (/events, /rpc/events), without saying how the fan-out is built.        *)
(*                                                                         *)
(* A stream belongs to one upstream session.  It is opened only while that *)
(* session is live, it receives the session's events it is interested in,  *)
(* in order, from its registration on and without a gap, until it closes.  *)
(* When its session ends it may still be handed the one event whose        *)
(* delivery was already under way, and nothing after that: never an event  *)
(* of a later session.                                                     *)
(***************************************************************************)
EXTENDS Naturals, Sequences

CONSTANTS
    Stream,        \* the confirmation streams clients may open
    Session,       \* the upstream sessions, none of which is NoSession
    NoSession,     \* the value of live while there is no session
    Kind,          \* the confirmations the streams' filters tell apart
    Interest       \* the kinds each stream's filter lets through

VARIABLES
    live,          \* the session new streams attach to, or NoSession
    feed,          \* everything each session has carried so far
    status,        \* "new", "open", "closed" or "refused"
    session,       \* the session a stream is attached to
    from,          \* how long that session's feed was at registration
    got,           \* the positions of its feed the stream was given
    late           \* how many of those were given after the session ended

vars == <<live, feed, status, session, from, got, late>>

Init ==
    /\ live = NoSession
    /\ feed = [g \in Session |-> <<>>]
    /\ status = [s \in Stream |-> "new"]
    /\ session = [s \in Stream |-> NoSession]
    /\ from = [s \in Stream |-> 0]
    /\ got = [s \in Stream |-> <<>>]
    /\ late = [s \in Stream |-> 0]

\* The position the stream has been served up to.
Served(s) == IF got[s] = <<>> THEN from[s] ELSE got[s][Len(got[s])]

\* A session that nobody is attached to and that carried nothing goes live,
\* replacing the one before it if there is one.
Begin(g) ==
    /\ g # live
    /\ feed[g] = <<>>
    /\ \A s \in Stream : session[s] # g
    /\ live' = g
    /\ UNCHANGED <<feed, status, session, from, got, late>>

End ==
    /\ live # NoSession
    /\ live' = NoSession
    /\ UNCHANGED <<feed, status, session, from, got, late>>

Emit(g, k) ==
    /\ feed' = [feed EXCEPT ![g] = Append(@, k)]
    /\ UNCHANGED <<live, status, session, from, got, late>>

Open(s) ==
    /\ status[s] = "new"
    /\ live # NoSession
    /\ status' = [status EXCEPT ![s] = "open"]
    /\ session' = [session EXCEPT ![s] = live]
    /\ from' = [from EXCEPT ![s] = Len(feed[live])]
    /\ UNCHANGED <<live, feed, got, late>>

Refuse(s) ==
    /\ status[s] = "new"
    /\ live = NoSession
    /\ status' = [status EXCEPT ![s] = "refused"]
    /\ UNCHANGED <<live, feed, session, from, got, late>>

\* The next position the stream is interested in, skipping none.
Deliver(s, p) ==
    /\ p \in (Served(s) + 1) .. Len(feed[session[s]])
    /\ feed[session[s]][p] \in Interest[s]
    /\ \A q \in (Served(s) + 1) .. (p - 1) :
            feed[session[s]][q] \notin Interest[s]
    /\ IF live = session[s]
         THEN UNCHANGED late
         ELSE late[s] = 0 /\ late' = [late EXCEPT ![s] = 1]
    /\ got' = [got EXCEPT ![s] = Append(@, p)]
    /\ UNCHANGED <<live, feed, status, session, from>>

Close(s) ==
    /\ status[s] = "open"
    /\ status' = [status EXCEPT ![s] = "closed"]
    /\ UNCHANGED <<live, feed, session, from, got, late>>

Next ==
    \/ \E g \in Session : Begin(g)
    \/ End
    \/ \E g \in Session, k \in Kind : Emit(g, k)
    \/ \E s \in Stream :
            \/ Open(s)
            \/ Refuse(s)
            \/ Close(s)
            \/ /\ status[s] = "open"
               /\ \E p \in 1 .. Len(feed[session[s]]) : Deliver(s, p)

Spec == Init /\ [][Next]_vars
=============================================================================
