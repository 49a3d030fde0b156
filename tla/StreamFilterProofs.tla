------------------------- MODULE StreamFilterProofs -------------------------
(***************************************************************************)
(* Proofs about StreamFilter, for all requests and frames: a subscriber is *)
(* sent exactly the events it asked for, what is sent still matches its    *)
(* filter, and it holds the parts that were asked for.                     *)
(***************************************************************************)
EXTENDS StreamFilter, TLAPS

\* The request of the open stream sets a field of its body to a value.
Says(field, value) == ask.verb = "POST" /\ ask[field] = value

\* The options are those of the request, and a filter keeps its blocks.
OptionsFit ==
    status = "streaming" =>
        /\ options.include_block <=> ~Says("include_block", "false")
        /\ options.include_election_info <=>
             Says("include_election_info", "true")
        /\ options.include_sideband_info <=>
             Says("include_sideband_info", "true")
        /\ DOMAIN options.accounts # {} => options.include_block

\* What was sent is what its options make of an event that they match.
SentFits ==
    sent # Absent =>
        /\ status = "streaming"
        /\ IsMessage(seen)
        /\ Matches(options, seen)
        /\ sent = Project(options, seen)

\* Every request that is not refused gets options that fit it (from_query,
\* from_object).
LEMMA SubscribeFits ==
    ASSUME NEW a \in Ask, Subscribe(a)
    PROVE  OptionsFit' /\ SentFits'
<1>1. SentFits'
  BY DEF Subscribe, SentFits
<1>2. CASE a.verb = "GET"
  <2>1. status' = "streaming" => options' = QueryOptions(a)
    BY <1>2 DEF Subscribe
  <2>2. ask' = a
    BY DEF Subscribe
  <2> QED
    BY <1>1, <1>2, <2>1, <2>2 DEF OptionsFit, Says, QueryOptions, Default
<1>3. CASE a.verb # "GET"
  <2>1. status' = "streaming" => options' = BodyOptions(a) /\ ~BodyRefused(a)
    BY <1>3 DEF Subscribe
  <2>2. ask' = a
    BY DEF Subscribe
  <2>3. ~BodyRefused(a) => a.accounts = Absent \/ AsBool(a.include_block, TRUE)
    BY DEF BodyRefused
  <2>4. \A value : /\ AsBool(value, TRUE) <=> value # "false"
                   /\ AsBool(value, FALSE) <=> value = "true"
    BY DEF AsBool
  <2>5. ASSUME status' = "streaming"
        PROVE  /\ options'.include_block = AsBool(ask'.include_block, TRUE)
               /\ options'.include_election_info =
                    AsBool(ask'.include_election_info, FALSE)
               /\ options'.include_sideband_info =
                    AsBool(ask'.include_sideband_info, FALSE)
               /\ DOMAIN options'.accounts # {} => ask'.accounts # Absent
    <3>1. options' = BodyOptions(a) /\ ask' = a
      BY <2>1, <2>2, <2>5
    <3>2. /\ BodyOptions(a).include_block = AsBool(a.include_block, TRUE)
          /\ BodyOptions(a).include_election_info =
               AsBool(a.include_election_info, FALSE)
          /\ BodyOptions(a).include_sideband_info =
               AsBool(a.include_sideband_info, FALSE)
          /\ DOMAIN BodyOptions(a).accounts # {} => a.accounts # Absent
      BY DEF BodyOptions
    <3> QED
      BY ONLY <3>1, <3>2, Zenon
  <2>6. ask'.verb = "POST"
    BY <1>3, <2>2, AskAssumption
  <2>7. CASE status' = "streaming"
    <3>1. options'.include_block <=> ~Says("include_block", "false")'
      BY <2>4, <2>5, <2>6, <2>7, Zenon DEF Says
    <3>2. /\ options'.include_election_info <=>
               Says("include_election_info", "true")'
          /\ options'.include_sideband_info <=>
               Says("include_sideband_info", "true")'
      BY <2>4, <2>5, <2>6, <2>7, Zenon DEF Says
    <3>3. DOMAIN options'.accounts # {} => options'.include_block
      BY <2>1, <2>2, <2>3, <2>5, <2>7, Zenon
    <3> QED
      BY <1>1, <3>1, <3>2, <3>3 DEF OptionsFit
  <2> QED
    BY <1>1, <2>7 DEF OptionsFit
<1> QED
  BY <1>2, <1>3

\* An event is sent as its options have it (sse_handler).
LEMMA DeliverFits ==
    ASSUME OptionsFit, SentFits, NEW frame \in Frame, Deliver(frame)
    PROVE  OptionsFit' /\ SentFits'
<1>1. OptionsFit'
  BY DEF Deliver, OptionsFit, Says
<1>2. IsMessage(Normalized(frame))
  BY FrameAssumption DEF Normalized, Bare, IsMessage, Message
<1>3. /\ status = "streaming" /\ UNCHANGED <<status, options>>
      /\ seen' = Normalized(frame)
      /\ sent' # Absent => /\ Matches(options, seen')
                           /\ sent' = Project(options, seen')
  BY DEF Deliver
<1>4. SentFits'
  BY <1>2, <1>3 DEF SentFits, IsMessage, Matches, Accepts,
                    EventMatchesAccounts, Project, WithoutBlock
<1> QED
  BY <1>1, <1>4

\* Options fit the request, and what was sent fits the options, at every moment
\* (sse_handler).
THEOREM StreamFits == Spec => [](OptionsFit /\ SentFits)
<1>1. Init => OptionsFit /\ SentFits
  BY DEF Init, OptionsFit, SentFits
<1>2. OptionsFit /\ SentFits /\ [Next]_vars => OptionsFit' /\ SentFits'
  <2>1. OptionsFit /\ SentFits /\ UNCHANGED vars => OptionsFit' /\ SentFits'
    BY DEF vars, OptionsFit, SentFits, Says
  <2> QED
    BY <2>1, SubscribeFits, DeliverFits DEF Next
<1> QED
  BY <1>1, <1>2, PTL DEF Spec

\* What is sent still shows why its subscriber got it (project against matches).
THEOREM ProjectionMatches == Spec => []ProjectionKeepsMatch
<1>1. OptionsFit /\ SentFits => ProjectionKeepsMatch
  <2> SUFFICES ASSUME OptionsFit, SentFits, sent # Absent
               PROVE  Matches(options, sent)
    BY DEF ProjectionKeepsMatch
  <2>1. /\ status = "streaming" /\ IsMessage(seen) /\ Matches(options, seen)
        /\ sent = Project(options, seen)
    BY DEF SentFits
  <2>2. sent.confirmation_type = seen.confirmation_type
    BY <2>1 DEF IsMessage, Project, WithoutBlock
  <2>3. options.include_block =>
          /\ sent.account = seen.account
          /\ sent.legacy = seen.legacy
          /\ sent.link_as_account = seen.link_as_account
    BY <2>1 DEF IsMessage, Project
  <2>4. EventMatchesAccounts(seen, options.accounts) =>
          EventMatchesAccounts(sent, options.accounts)
    BY <2>1, <2>3 DEF EventMatchesAccounts, OptionsFit
  <2> QED
    BY <2>1, <2>2, <2>4 DEF Matches
<1> QED
  BY <1>1, StreamFits, PTL

\* Each part of an event is sent exactly if the request asked for it (project,
\* from_query, from_object).
THEOREM PartsAreServed == Spec => []AskedIsServed
<1>1. OptionsFit /\ SentFits => AskedIsServed
  <2> SUFFICES ASSUME OptionsFit, SentFits, sent # Absent
               PROVE  /\ sent.block =
                           (seen.block /\ ~Says("include_block", "false"))
                      /\ sent.election_info =
                           (seen.election_info
                              /\ Says("include_election_info", "true"))
                      /\ sent.sideband =
                           (seen.sideband /\ sent.block
                              /\ Says("include_sideband_info", "true"))
    BY Zenon DEF AskedIsServed, Says
  <2>1. status = "streaming" /\ IsMessage(seen) /\ sent = Project(options, seen)
    BY DEF SentFits
  <2>2. CASE options.include_block
    <3>1. /\ sent.block = seen.block
          /\ sent.election_info =
               (seen.election_info /\ options.include_election_info)
          /\ sent.sideband = (seen.sideband /\ options.include_sideband_info)
      BY <2>1, <2>2 DEF IsMessage, Project
    <3> QED
      BY <2>1, <2>2, <3>1 DEF OptionsFit, IsMessage, Message
  <2>3. CASE ~options.include_block
    <3>1. /\ sent.block = FALSE
          /\ sent.election_info =
               (seen.election_info /\ options.include_election_info)
          /\ sent.sideband = (FALSE /\ options.include_sideband_info)
      BY <2>1, <2>3 DEF IsMessage, Project, WithoutBlock
    <3> QED
      BY <2>1, <2>3, <3>1 DEF OptionsFit, IsMessage
  <2> QED
    BY <2>2, <2>3
<1> QED
  BY <1>1, StreamFits, PTL

-----------------------------------------------------------------------------
(* Which events are sent.                                                  *)

\* The accounts of a filter, wherever they stand in it.
Listed(accounts) == {accounts[i] : i \in DOMAIN accounts}

\* The filters of the open stream are those its request wrote, and its flags
\* are on or off.
FilterFits ==
    status = "streaming" =>
        /\ Listed(options.accounts) = Watched(ask)
        /\ Watched(ask) \subseteq AccountText
        /\ ask.verb = "GET" \/ ask.confirmation_type = "absent"
             => options.confirmation_type = "all"
        /\ options.include_election_info \in BOOLEAN
        /\ options.include_sideband_info \in BOOLEAN

\* An event was sent on exactly if it matched.
MatchFits ==
    seen # Absent =>
        /\ IsMessage(seen)
        /\ sent # Absent <=> Matches(options, seen)

\* Two texts name the same account exactly if one is a spelling of the other
\* (accounts_equal).
LEMMA EqualIsSpelled ==
    ASSUME NEW left \in AccountText, NEW right \in AccountText
    PROVE  AccountsEqual(left, right) <=> right \in Spellings(left)
<1>1. right = [pad |-> right.pad, prefix |-> right.prefix, key |-> right.key]
  BY DEF AccountText
<1>2. left = [pad |-> left.pad, prefix |-> left.prefix, key |-> left.key]
  BY DEF AccountText
<1>3. left.pad \in BOOLEAN /\ right.pad \in BOOLEAN
  BY DEF AccountText
<1>4. CASE HasPrefix(left)
  <2>1. right \in Spellings(left) <=>
          right = left \/ \E p \in {"nano_", "xrb_"} :
                            right = [pad |-> left.pad, prefix |-> p,
                                     key |-> left.key]
    BY <1>2, <1>4 DEF Spellings
  <2>2. CASE HasPrefix(right)
    BY <1>1, <1>2, <1>3, <1>4, <2>1, <2>2 DEF AccountsEqual, HasPrefix
  <2>3. CASE ~HasPrefix(right)
    BY <1>1, <1>2, <1>3, <1>4, <2>1, <2>3 DEF AccountsEqual, HasPrefix
  <2> QED
    BY <2>2, <2>3
<1>5. CASE ~HasPrefix(left)
  BY <1>5 DEF AccountsEqual, Spellings
<1> QED
  BY <1>4, <1>5

\* A query's list is read without blanks and without blank entries.
LEMMA QueryFits ==
    ASSUME NEW a \in Ask, a.verb = "GET"
    PROVE  /\ Listed(QueryAccounts(a)) = Watched(a)
           /\ Watched(a) \subseteq AccountText
<1>1. CASE a.accounts = Absent
  BY <1>1 DEF Listed, QueryAccounts, Watched
<1>2. CASE a.accounts # Absent
  <2> DEFINE list == a.accounts
             kept == {i \in DOMAIN list : ~IsEmpty(Trim(list[i]))}
  <2>1. list \in Seq(AccountText)
    BY <1>2, AskAssumption
  <2>2. ASSUME NEW i \in DOMAIN list
        PROVE  Trim(list[i]) \in AccountText
    <3>1. list[i] \in AccountText
      BY <2>1
    <3> QED
      BY <3>1 DEF Trim, AccountText
  <2>3. Listed(QueryAccounts(a)) = {Trim(list[i]) : i \in kept}
    BY <1>2 DEF Listed, QueryAccounts
  <2>4. Watched(a) = {account \in {Trim(x) : x \in ToSet(list)} :
                        ~IsEmpty(account)}
    BY <1>2 DEF Watched
  <2>5. {Trim(x) : x \in ToSet(list)} = {Trim(list[i]) : i \in DOMAIN list}
    BY DEF ToSet
  <2>6. Watched(a) = {Trim(list[i]) : i \in kept}
    BY <2>4, <2>5
  <2> QED
    BY <2>2, <2>3, <2>6
<1> QED
  BY <1>1, <1>2

\* A body's list is taken as it is.
LEMMA BodyFits ==
    ASSUME NEW a \in Ask, a.verb # "GET"
    PROVE  /\ Listed(BodyOptions(a).accounts) = Watched(a)
           /\ Watched(a) \subseteq AccountText
<1>1. CASE a.accounts = Absent
  BY <1>1 DEF Listed, BodyOptions, Watched
<1>2. CASE a.accounts # Absent
  <2>1. a.accounts \in Seq(AccountText)
    BY <1>2, AskAssumption
  <2>2. BodyOptions(a).accounts = a.accounts
    BY <1>2 DEF BodyOptions
  <2>3. Watched(a) = ToSet(a.accounts)
    BY <1>2 DEF Watched
  <2> QED
    BY <2>1, <2>2, <2>3 DEF Listed, ToSet
<1> QED
  BY <1>1, <1>2

\* Every request that is not refused gets the filters it wrote (from_query,
\* from_object).
LEMMA SubscribeFilters ==
    ASSUME NEW a \in Ask, Subscribe(a)
    PROVE  FilterFits' /\ MatchFits'
<1>1. MatchFits'
  BY DEF Subscribe, MatchFits
<1>2. ask' = a /\ Watched(ask)' = Watched(a)
  BY DEF Subscribe, Watched
<1>3. CASE a.verb = "GET"
  <2>1. status' = "streaming" =>
          /\ options'.accounts = QueryAccounts(a)
          /\ options'.confirmation_type = "all"
          /\ options'.include_election_info = FALSE
          /\ options'.include_sideband_info = FALSE
    BY <1>3 DEF Subscribe, QueryOptions, Default
  <2> QED
    BY <1>1, <1>2, <1>3, <2>1, QueryFits DEF FilterFits, Listed
<1>4. CASE a.verb # "GET"
  <2>1. status' = "streaming" =>
          /\ options'.accounts = BodyOptions(a).accounts
          /\ options'.confirmation_type = Parse(a.confirmation_type)
    BY <1>4 DEF Subscribe, BodyOptions
  <2>2. status' = "streaming" =>
          /\ options'.include_election_info \in BOOLEAN
          /\ options'.include_sideband_info \in BOOLEAN
    BY <1>4 DEF Subscribe, BodyOptions, AsBool
  <2> QED
    BY <1>1, <1>2, <1>4, <2>1, <2>2, BodyFits DEF FilterFits, Listed, Parse
<1> QED
  BY <1>3, <1>4

\* What an event becomes is not nothing (project).
LEMMA ProjectedIsThere ==
    ASSUME NEW o, NEW event, IsMessage(event),
           o.include_election_info \in BOOLEAN,
           o.include_sideband_info \in BOOLEAN
    PROVE  Project(o, event) # Absent
<1>1. Project(o, event) \in Message
  BY DEF Project, WithoutBlock, IsMessage, Message
<1> QED
  BY <1>1, AbsentAssumption

\* An event is sent exactly if the options match it (sse_handler).
LEMMA DeliverMatches ==
    ASSUME FilterFits, NEW frame \in Frame, Deliver(frame)
    PROVE  FilterFits' /\ MatchFits'
<1>1. FilterFits'
  BY DEF Deliver, FilterFits, Listed, Watched
<1>2. IsMessage(Normalized(frame))
  BY FrameAssumption DEF Normalized, Bare, IsMessage, Message
<1>3. /\ status = "streaming" /\ options' = options
      /\ seen' = Normalized(frame)
      /\ sent' = IF Matches(options, seen') THEN Project(options, seen')
                 ELSE Absent
  BY DEF Deliver
<1>4. /\ options.include_election_info \in BOOLEAN
      /\ options.include_sideband_info \in BOOLEAN
  BY <1>3 DEF FilterFits
<1>5. Project(options, seen') # Absent
  BY <1>2, <1>3, <1>4, ProjectedIsThere
<1>6. Matches(options, seen)' <=> Matches(options, seen')
  BY <1>3 DEF Matches
<1> QED
  BY <1>1, <1>2, <1>3, <1>5, <1>6 DEF MatchFits

\* The filters fit the request, and what is sent fits the filters, at every
\* moment (sse_handler).
THEOREM FiltersFit == Spec => [](FilterFits /\ MatchFits)
<1>1. Init => FilterFits /\ MatchFits
  BY DEF Init, FilterFits, MatchFits
<1>2. FilterFits /\ MatchFits /\ [Next]_vars => FilterFits' /\ MatchFits'
  <2>1. FilterFits /\ MatchFits /\ UNCHANGED vars => FilterFits' /\ MatchFits'
    BY DEF vars, FilterFits, MatchFits, Listed, Watched, Matches
  <2> QED
    BY <2>1, SubscribeFilters, DeliverMatches DEF Next
<1> QED
  BY <1>1, <1>2, PTL DEF Spec

\* A subscriber without a classification filter is sent exactly the events of
\* the accounts it listed, in either spelling (event_matches_accounts).
THEOREM DeliveryIsExact == Spec => []DeliveredExactly
<1>1. ASSUME FilterFits, MatchFits PROVE DeliveredExactly
  <2> DEFINE concerned == {seen.account, seen.link_as_account}
             wanted == UNION {Spellings(account) : account \in Watched(ask)}
  <2> SUFFICES
        ASSUME status = "streaming", seen # Absent,
               ask.verb = "GET" \/ ask.confirmation_type = "absent"
        PROVE  sent # Absent <=>
                 wanted = {} \/ (~seen.legacy /\ wanted \cap concerned # {})
    BY DEF DeliveredExactly
  <2>1. /\ Listed(options.accounts) = Watched(ask)
        /\ Watched(ask) \subseteq AccountText
        /\ options.confirmation_type = "all"
        /\ IsMessage(seen)
        /\ sent # Absent <=> Matches(options, seen)
    BY <1>1 DEF FilterFits, MatchFits
  <2>2. sent # Absent <=> EventMatchesAccounts(seen, options.accounts)
    BY <2>1 DEF Matches, Accepts
  <2>3. DOMAIN options.accounts = {} <=> Watched(ask) = {}
    BY <2>1 DEF Listed
  <2>4. wanted = {} <=> Watched(ask) = {}
    BY DEF Spellings
  <2>5. concerned \ {Absent} \subseteq AccountText /\ Absent \notin AccountText
    BY <2>1, AbsentAssumption DEF IsMessage, Message
  <2>6. wanted \subseteq AccountText
    <3>1. \A account \in AccountText : Spellings(account) \subseteq AccountText
      BY DEF Spellings, AccountText
    <3> QED
      BY <2>1, <3>1
  <2>7. (\E account \in concerned \ {Absent} : \E name \in Watched(ask) :
            AccountsEqual(name, account))
          <=> wanted \cap concerned # {}
    <3>1. \A account \in concerned \ {Absent} : \A name \in Watched(ask) :
              AccountsEqual(name, account) <=> account \in Spellings(name)
      BY <2>1, <2>5, EqualIsSpelled
    <3>2. wanted \cap concerned = wanted \cap (concerned \ {Absent})
      BY <2>5, <2>6
    <3> HIDE DEF concerned
    <3> QED
      BY <3>1, <3>2
  <2>8. EventMatchesAccounts(seen, options.accounts) <=>
          \/ DOMAIN options.accounts = {}
          \/ /\ ~seen.legacy
             /\ \E account \in concerned \ {Absent} :
                   \E name \in Listed(options.accounts) :
                      AccountsEqual(name, account)
    BY DEF EventMatchesAccounts, ToSet, Listed
  <2> QED
    BY <2>1, <2>2, <2>3, <2>4, <2>7, <2>8
<1> QED
  BY <1>1, FiltersFit, PTL
=============================================================================
