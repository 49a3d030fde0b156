--------------------------- MODULE MCStreamFilter ---------------------------
(* An instance of StreamFilter: a plain request, and the ways to spell its *)
(* accounts, its classification and its flags; events of two accounts and  *)
(* of every classification, with and without what the flags ask for.       *)
EXTENDS StreamFilter

Account(prefix, key) == [pad |-> FALSE, prefix |-> prefix, key |-> key]
Padded(account) == [account EXCEPT !.pad = TRUE]
Alice == Account("nano_", "alice")
Bob == Account("nano_", "bob")
OldAlice == Account("xrb_", "alice")
Blank == Account("", "")

Lists ==
    {Absent, <<>>, <<Blank>>, <<Padded(Blank)>>, <<Alice>>, <<OldAlice>>,
     <<Padded(OldAlice)>>, <<Account("", "alice")>>, <<Padded(Bob), Blank>>,
     <<Bob, OldAlice>>, <<Bob, Alice, Blank, Alice>>,
     <<Bob, Alice, Alice, Alice>>}
Types == ConfirmationType \cup {"absent", "boolean", "misspelt"}
Flags == {"absent", "true", "false", "text"}

Plain == [verb |-> "POST", object |-> TRUE, valid |-> TRUE,
          accounts |-> Absent, long |-> FALSE, confirmation_type |-> "absent",
          include_block |-> "absent", include_election_info |-> "absent",
          include_sideband_info |-> "absent"]

MCAsk ==
    {[Plain EXCEPT !.verb = "GET", !.accounts = l, !.long = b] :
        l \in Lists \ {<<>>}, b \in BOOLEAN}
    \cup {[Plain EXCEPT !.object = FALSE], [Plain EXCEPT !.valid = FALSE]}
    \cup {[Plain EXCEPT !.accounts = l, !.include_block = f] :
             l \in Lists, f \in Flags}
    \cup {[Plain EXCEPT !.accounts = l, !.confirmation_type = t] :
             l \in {Absent, <<Alice>>}, t \in Types}
    \cup {[Plain EXCEPT !.include_block = f, !.include_election_info = g,
                        !.include_sideband_info = h] :
             f \in Flags, g \in Flags, h \in Flags}

Event(classification, account, link, legacy, extras) ==
    [confirmation_type |-> classification, account |-> account, block |-> TRUE,
     legacy |-> legacy, link_as_account |-> link, sideband |-> extras,
     election_info |-> extras]

MCEvent ==
    {Event("active_quorum", a, l, legacy, extras) :
        a \in {Alice, OldAlice, Bob}, l \in {Absent, Alice, Bob},
        legacy \in BOOLEAN, extras \in BOOLEAN}
    \cup {Event(c, a, Absent, FALSE, FALSE) : a \in {Alice, Bob},
             c \in {"inactive", "active_confirmation_height", "new", Absent}}
    \cup {[Bare EXCEPT !.account = a] : a \in {Alice, Account("", "alice")}}

MCFrame ==
    {[ack |-> FALSE, topic |-> "confirmation", message |-> m] :
        m \in MCEvent \cup {Absent}}
    \cup {[ack |-> TRUE, topic |-> "confirmation", message |-> Absent],
          [ack |-> FALSE, topic |-> "vote", message |-> Absent]}
=============================================================================
