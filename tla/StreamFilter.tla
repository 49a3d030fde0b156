---------------------------- MODULE StreamFilter ----------------------------
(***************************************************************************)
(* What one subscriber of /events asks for and is served: StreamOptions,   *)
(* ConfirmationType and the account filter, with the normalization of the  *)
(* frames that reach them (src/src/lib.rs).  Sessions, lag and closing are *)
(* EventHub's; here every frame reaches the subscriber.                    *)
(*                                                                         *)
(* An account is [pad, prefix, key]: pad says that blanks surround the     *)
(* text, prefix that it starts with nano_, with xrb_ or with neither, and  *)
(* key is the rest.                                                        *)
(***************************************************************************)
EXTENDS Naturals, SequencesExt

CONSTANTS
    Ask,             \* what clients may send to /events
    Frame,           \* what the node may send on its WebSocket
    MaxQueryItems,   \* MAX_ACCOUNT_FILTER_ITEMS
    MaxBodyItems,    \* MAX_BODY_ACCOUNT_ITEMS
    Absent           \* a JSON field that is not there

\* The code's 110 and 15 000: a list a query may carry, a body may carry too.
ASSUME LimitAssumption ==
    MaxQueryItems \in Nat /\ MaxBodyItems \in Nat /\ MaxQueryItems <= MaxBodyItems

AccountText == [pad : BOOLEAN, prefix : {"nano_", "xrb_", ""}, key : STRING]
ASSUME AskAssumption ==
    \A a \in Ask :
        /\ a.verb \in {"GET", "POST"}
        /\ a.accounts = Absent \/ a.accounts \in Seq(AccountText)

\* What the filters and the projection look at in a message: the sideband is
\* part of the block.
Message == [confirmation_type : {Absent} \cup STRING,
            account : {Absent} \cup AccountText,
            block : BOOLEAN, legacy : BOOLEAN,
            link_as_account : {Absent} \cup AccountText,
            sideband : BOOLEAN, election_info : BOOLEAN]
IsMessage(m) == m \in Message /\ (m.sideband => m.block)
ASSUME FrameAssumption ==
    \A frame \in Frame : frame.message = Absent \/ IsMessage(frame.message)

\* What is absent is nothing that can be there.
ASSUME AbsentAssumption == Absent \notin AccountText \cup Message

VARIABLES
    ask,      \* history: the request of the stream now open or refused
    status,   \* what became of it
    options,  \* the StreamOptions of the open stream
    seen,     \* history: the event published last, or Absent
    sent      \* what the subscriber was sent of it, or Absent

vars == <<ask, status, options, seen, sent>>

ConfirmationType ==
    {"all", "active", "inactive", "active_quorum", "active_confirmation_height"}

-----------------------------------------------------------------------------
(* Reading the options.                                                    *)

IsEmpty(account) == ~account.pad /\ account.prefix = "" /\ account.key = ""
Trim(account) == [account EXCEPT !.pad = FALSE]

\* A filter has each account at the place it had in the request, and no filter
\* is the empty one: both readers turn an empty list away.
Default ==
    [confirmation_type |-> "all", accounts |-> <<>>, include_block |-> TRUE,
     include_election_info |-> FALSE, include_sideband_info |-> FALSE]

\* A confirmation_type that is no string counts as none.
Parse(value) == IF value \in {"absent", "boolean"} THEN "all" ELSE value

\* Only JSON booleans count: a string is accepted and has no effect.
AsBool(value, default) ==
    IF value \in {"true", "false"} THEN value = "true" ELSE default

\* Mutant of BodyRefused: it forgets that the filter needs the block.
BodyRefusedForShape(a) ==
    \/ ~a.object
    \/ ~a.valid
    \/ /\ a.accounts # Absent
       /\ \/ a.accounts = <<>>
          \/ \E i \in DOMAIN a.accounts : IsEmpty(a.accounts[i])
          \/ Len(a.accounts) > MaxBodyItems
    \/ Parse(a.confirmation_type) \notin ConfirmationType

\* from_object, the errors, and sse_handler's for a body that is no object.
\* a.valid says that every option is known and has a value of its type.
BodyRefused(a) ==
    \/ ~a.object
    \/ ~a.valid
    \/ /\ a.accounts # Absent
       /\ \/ a.accounts = <<>>
          \/ \E i \in DOMAIN a.accounts : IsEmpty(a.accounts[i])
          \/ Len(a.accounts) > MaxBodyItems
          \/ ~AsBool(a.include_block, TRUE)
    \/ Parse(a.confirmation_type) \notin ConfirmationType

\* from_object, the options.
BodyOptions(a) ==
    [confirmation_type |-> Parse(a.confirmation_type),
     accounts |-> IF a.accounts = Absent THEN <<>> ELSE a.accounts,
     include_block |-> AsBool(a.include_block, TRUE),
     include_election_info |-> AsBool(a.include_election_info, FALSE),
     include_sideband_info |-> AsBool(a.include_sideband_info, FALSE)]

\* The entries of the query's comma-separated list that are not blank.
QueryAccounts(a) ==
    IF a.accounts = Absent THEN <<>>
    ELSE [i \in {j \in DOMAIN a.accounts : ~IsEmpty(Trim(a.accounts[j]))}
            |-> Trim(a.accounts[i])]

\* from_query, the errors.  a.long says that the query is longer than
\* MAX_ACCOUNT_FILTER_BYTES; without an account that does not matter.
QueryRefused(a) ==
    /\ DOMAIN QueryAccounts(a) # {}
    /\ Cardinality(DOMAIN QueryAccounts(a)) > MaxQueryItems \/ a.long

\* from_query, the options.
QueryOptions(a) == [Default EXCEPT !.accounts = QueryAccounts(a)]

-----------------------------------------------------------------------------
(* Events.                                                                 *)

\* What an event says that has none of the fields the filters look at.
Bare == [confirmation_type |-> Absent, account |-> Absent, block |-> FALSE,
         legacy |-> FALSE, link_as_account |-> Absent, sideband |-> FALSE,
         election_info |-> FALSE]

\* normalize_confirmation: acknowledgements and other topics are no events,
\* and a frame without a message is its own payload.
IsConfirmation(frame) == ~frame.ack /\ frame.topic = "confirmation"
Normalized(frame) == IF frame.message = Absent THEN Bare ELSE frame.message

Accepts(type, classification) ==
    \/ type = "all"
    \/ type = "active"
       /\ classification \in {"active_quorum", "active_confirmation_height"}
    \/ type # "active" /\ classification = type

HasPrefix(account) == ~account.pad /\ account.prefix \in {"nano_", "xrb_"}

\* Mutant of AccountsEqual: it compares the text.
SameText(left, right) == left = right

AccountsEqual(left, right) ==
    IF HasPrefix(left) /\ HasPrefix(right) THEN left.key = right.key
    ELSE left = right

EventMatchesAccounts(event, accounts) ==
    \/ DOMAIN accounts = {}
    \/ /\ ~event.legacy
       /\ \E account \in {event.account, event.link_as_account} \ {Absent} :
             \E wanted \in ToSet(accounts) : AccountsEqual(wanted, account)

\* StreamOptions::matches: every event of the hub is a nano.confirmation.
Matches(o, event) ==
    /\ Accepts(o.confirmation_type, event.confirmation_type)
    /\ EventMatchesAccounts(event, o.accounts)

WithoutBlock(event) ==
    [event EXCEPT !.block = FALSE, !.legacy = FALSE, !.link_as_account = Absent,
                  !.sideband = FALSE]

\* Mutant of Project: it looks for the sideband fields beside the block.
ProjectOutside(o, event) ==
    LET kept == IF o.include_block THEN event ELSE WithoutBlock(event)
    IN  [kept EXCEPT !.election_info = @ /\ o.include_election_info]

\* StreamOptions::project: what was not asked for is taken out.
Project(o, event) ==
    LET kept == IF o.include_block THEN event ELSE WithoutBlock(event)
    IN  [kept EXCEPT !.election_info = @ /\ o.include_election_info,
                     !.sideband = @ /\ o.include_sideband_info]

-----------------------------------------------------------------------------
Init ==
    /\ ask = Absent
    /\ status = "none"
    /\ options = Default
    /\ seen = Absent
    /\ sent = Absent

\* sse_handler answers a request, in place of the stream before it: options
\* never change while a stream is open.
Subscribe(a) ==
    LET refused == IF a.verb = "GET" THEN QueryRefused(a) ELSE BodyRefused(a)
    IN  /\ ask' = a
        /\ status' = IF refused THEN "refused" ELSE "streaming"
        /\ options' = IF refused THEN Default
                      ELSE IF a.verb = "GET" THEN QueryOptions(a)
                      ELSE BodyOptions(a)
        /\ seen' = Absent
        /\ sent' = Absent

\* A frame of the node becomes an event, which the stream sends on if it
\* matches; any other frame is dropped by the bridge.
Deliver(frame) ==
    LET event == Normalized(frame)
    IN  /\ status = "streaming"
        /\ IsConfirmation(frame)
        /\ seen' = event
        /\ sent' = IF Matches(options, event) THEN Project(options, event)
                   ELSE Absent
        /\ UNCHANGED <<ask, status, options>>

Next ==
    \/ \E a \in Ask : Subscribe(a)
    \/ \E frame \in Frame : Deliver(frame)

Spec == Init /\ [][Next]_vars

-----------------------------------------------------------------------------
(* Properties.                                                             *)

\* Types; the parsed classification filter is one of the five of
\* ConfirmationType, whatever JSON value was sent.
TypeOK ==
    /\ ask = Absent \/ ask \in Ask
    /\ status \in {"none", "refused", "streaming"}
    /\ options.confirmation_type \in ConfirmationType
    /\ \A i \in DOMAIN options.accounts : ~IsEmpty(options.accounts[i])
    /\ \A field \in {"include_block", "include_election_info",
                     "include_sideband_info"} : options[field] \in BOOLEAN
    /\ seen = Absent => sent = Absent

\* The texts that name the account of one entry of a request: what is a real
\* address is also meant with the other prefix.
Spellings(account) ==
    {account} \cup
    IF HasPrefix(account)
    THEN {[account EXCEPT !.prefix = p] : p \in {"nano_", "xrb_"}}
    ELSE {}

\* The accounts a request lists: a query's may be surrounded by blanks.
Watched(a) ==
    IF a.accounts = Absent THEN {}
    ELSE IF a.verb = "GET"
    THEN {account \in {Trim(x) : x \in ToSet(a.accounts)} : ~IsEmpty(account)}
    ELSE ToSet(a.accounts)

\* Without a classification filter the subscriber is sent an event exactly
\* when it listed no account or the block is not a legacy one and belongs to,
\* or sends to, an account it listed in either spelling: whichever verb it
\* used, nothing it asked for is lost and nothing else is disclosed.
DeliveredExactly ==
    LET concerned == {seen.account, seen.link_as_account}
        wanted == UNION {Spellings(account) : account \in Watched(ask)}
    IN  status = "streaming" /\ seen # Absent
            /\ (ask.verb = "GET" \/ ask.confirmation_type = "absent") =>
        (sent # Absent <=>
            wanted = {} \/ (~seen.legacy /\ wanted \cap concerned # {}))

\* What is sent still matches the options it was sent for: the projection
\* takes away nothing that a subscriber needs to see why it got an event.
ProjectionKeepsMatch == sent # Absent => Matches(options, sent)

\* Election and sideband information is sent exactly when the request set its
\* flag to the boolean true, and a block unless it said false, whatever the
\* single upstream subscription, shared by all, asks the node for.
AskedIsServed ==
    LET says(field, value) == ask.verb = "POST" /\ ask[field] = value
    IN  sent # Absent =>
        /\ sent.block = (seen.block /\ ~says("include_block", "false"))
        /\ sent.election_info =
              (seen.election_info /\ says("include_election_info", "true"))
        /\ sent.sideband = (seen.sideband /\ sent.block
                             /\ says("include_sideband_info", "true"))
=============================================================================
