----------------------------- MODULE MCDispatch -----------------------------
(* Instances of Dispatch: calls that are right but for one thing, under a  *)
(* few configurations.                                                     *)
EXTENDS Dispatch, TLC

Requests == Permutations(Request)

Token(scope_claim, exp) ==
    [genuine |-> TRUE, scope |-> scope_claim, exp |-> exp]
NoToken == [genuine |-> FALSE, scope |-> "none", exp |-> NoExpiry]
Tokens ==
    {NoToken, Token("none", NoExpiry), Token("work", BadExpiry),
     Token("control", 0)} \cup
    {Token(s, NoExpiry) : s \in {"common", "work", "control"}}

Read == [body |-> "object", envelope |-> TRUE, id |-> "simple",
         method |-> "version", bearer |-> NoToken, params |-> TRUE,
         hash |-> TRUE, peers |-> FALSE]
Of(method) == [Read EXCEPT !.method = method]
Bodies == {"batch", "garbage", "scalar", "mistyped"}
MCQuery ==
    {Read, Of("rpc.discover"), Of("no_such_method"), Of("block_confirm")}
    \cup {[Read EXCEPT !.body = b] : b \in Bodies}
    \cup {[Read EXCEPT !.envelope = FALSE], [Read EXCEPT !.params = FALSE]}
    \cup {[Read EXCEPT !.id = i] : i \in {"absent", "structured"}}
    \cup {[Of("block_confirm") EXCEPT !.params = FALSE],
          [Of("block_confirm") EXCEPT !.hash = FALSE]}
    \cup {[Of(m) EXCEPT !.bearer = t] :
             m \in {"process", "work_generate", "work_cancel"}, t \in Tokens}
    \cup {[Of("work_generate") EXCEPT !.bearer = Token("work", NoExpiry),
                                      !.peers = TRUE]}

Open == [allow_work |-> TRUE, allow_control |-> TRUE,
         require_common_auth |-> FALSE, enable_discovery |-> TRUE,
         verifying_key |-> TRUE, work_provider |-> "local"]
MCSetting ==
    {Open,
     [Open EXCEPT !.require_common_auth = TRUE, !.work_provider = "remote"],
     [Open EXCEPT !.allow_work = FALSE, !.enable_discovery = FALSE],
     [Open EXCEPT !.allow_control = FALSE, !.verifying_key = FALSE]}
=============================================================================
