----------------------------- MODULE MCContract -----------------------------
(* Instances of Contract: sources, calls and answers that are right but    *)
(* for one thing.                                                          *)
EXTENDS Contract

Found(text) ==
    [file |-> "text", text |-> text, timeout |-> 30000,
     switches |-> [allow_work |-> TRUE, allow_control |-> TRUE,
                   enable_discovery |-> TRUE, require_common_auth |-> TRUE],
     env |-> <<>>, dotenv |-> "missing", lines |-> <<>>]
Plain == Found(Each({"auth_public_key"}, "key"))
Entry(name, value) == [name |-> name, value |-> value]
Advertising == Found(Each({"public_url"}, "SECOND"))
Environments == {<<>>, Each({"SECOND"}, "http"), Each({"SECOND"}, "ws"), Each({"FIRST"}, "http")}
Dotenvs == {<<>>, <<Entry("SECOND", "http")>>,
            <<Entry("SECOND", "ws"), Entry("SECOND", "http")>>,
            <<Entry("SECOND", "http"), Entry("SECOND", "FIRST")>>,
            <<Entry("SECOND", "http"), Entry("unterminated", "none")>>}

MCSource ==
    {[Plain EXCEPT !.switches =
         [allow_work |-> w, allow_control |-> c, enable_discovery |-> ~w,
          require_common_auth |-> a]] : w, c, a \in BOOLEAN}
    \cup {[Plain EXCEPT !.file = f]
            : f \in {"missing", "unreadable", "unwritable", "mistyped"}}
    \cup {[Plain EXCEPT !.timeout = t] : t \in {99, 100, 300000, 300001}}
    \cup {[Found(<<>>) EXCEPT !.switches.require_common_auth = a] : a \in BOOLEAN}
    \cup {Found(Each({f}, k)) : f \in DOMAIN default,
                          k \in {"none", "http", "ws", "password", "key",
                                 "FIRST", "unterminated"}}
    \cup {Found([tls_cert |-> "file", tls_key |-> "file"]),
          Found(Each({"cors_origins"}, "unprintable"))}
    \cup {[Advertising EXCEPT !.env = e, !.dotenv = "present", !.lines = l]
            : e \in Environments, l \in Dotenvs}
    \cup {[Advertising EXCEPT !.env = Each({"SECOND"}, "http"), !.dotenv = "unreadable"]}

Fitting(kinds) == IF "apt" \in kinds THEN "apt" ELSE CHOOSE k \in kinds : TRUE
Least(schema) == [n \in schema.required |-> Fitting(schema.properties[n])]

\* An object and what it becomes when one of its fields is dropped, or one of
\* names has another of values.
Changed(object, names, values) ==
    {object}
    \cup {[n \in DOMAIN object \ {dropped} |-> object[n]]
            : dropped \in DOMAIN object}
    \cup {Each({n}, v) @@ object : n \in names, v \in values}

Ask(method, params, token) ==
    [method |-> method, object |-> TRUE, params |-> params, token |-> token]

CallsOf(method) ==
    UNION {{Ask(method, p, "control") :
                p \in Changed(Least(s), DOMAIN s.properties
                                          \cup {"action", "subtype"}, Kind)}
           \cup {Ask(method, Least(s), t) : t \in {"none", "common", "work"}}
           : s \in component_schemas[Registry[method].params]}

MCCall ==
    UNION {CallsOf(method) : method \in DOMAIN Registry}
    \cup {Ask(m, Each({}, Kind), "none") : m \in {"rpc.discover", "no_method"}}
    \cup {[NoCall EXCEPT !.method = m] : m \in {"version", "process"}}

\* What holds nothing, of the kinds that results tell apart.
Leaf(kind) == [kind |-> kind, of |-> Each({}, kind)]
Leaves == {Leaf(k) : k \in {"apt", "text", "empty", "flag", "null", "list",
                            "object"}}
Holding(kind, of) == [kind |-> kind, of |-> of]
AnObject(of) == Holding("object", of)

\* The least object of each alternative of a schema.  The contents of a block
\* are required of the node, and by no schema.
Required(schema) ==
    {[n \in s.required \cup (IF schema = "BlockInfoResult" THEN {"contents"} ELSE {})
        |-> Leaf(Fitting(s.properties[n]))] : s \in component_schemas[schema]}

\* What may be found where an object of a schema belongs.
Items(schema) ==
    {Leaf("text"), Leaf("empty"), Leaf("null"), Leaf("list")}
    \cup {AnObject(f) : f \in UNION {Changed(w, DOMAIN w, Leaves)
                                      : w \in Required(schema)}}

\* Lists and maps of one item, and of one beside another.
Collections(items, others) ==
    {Holding(k, Each({"first"}, i)) : k \in {"list", "object"}, i \in items}
    \cup {Holding("object", [first |-> i, second |-> j]) : i \in items, j \in others}

Receivables ==
    LET blocks == {Leaf("text"), Leaf("null"), AnObject(Each({"amount"}, Leaf("text")))}
                    \cup {AnObject(w) : w \in Required("ReceivableSource")}
    IN  Leaves \cup Collections(blocks, {Leaf("text")})

\* What a node may put under a field that holds others.
Held(method) ==
    CASE method = "accounts_balances" ->
           Collections(Items("AccountBalanceResult"), {Leaf("text")})
      [] method = "accounts_frontiers" -> Collections(Leaves, {Leaf("text")})
      [] method = "blocks_info" ->
           Collections(Items("BlockInfoResult"),
                       {AnObject(w) : w \in Required("BlockInfoResult")})
      [] method = "receivable" ->
           Collections(Items("ReceivableSource"), {Leaf("text")})
      [] method = "accounts_receivable" -> Collections(Receivables, {Leaf("list")})
      [] OTHER -> {}

\* What a node may answer when all is well: either alternative of a schema, and
\* the ways to leave it at what is optional.
Complete(method) ==
    CASE method = "accounts_balances" ->
           {Each(names, Leaf("object")) : names \in SUBSET {"balances", "errors"}}
      [] method = "work_generate" ->
           LET named == Required("WorkGenerateResult")
           IN  named \cup
               {[n \in (DOMAIN r \ {"hash"}) \cup {"frontier"} |-> Leaf(k)]
                  : r \in named, k \in {"apt", "text"}}
      [] OTHER -> Required(Registry[method].result)

Fields(method) ==
    UNION {DOMAIN s.properties : s \in component_schemas[Registry[method].result]}
Nesting(method) ==
    Fields(method) \cap {"balances", "errors", "frontiers", "blocks"}

MCAnswer ==
    [method \in DOMAIN Registry |->
        Leaves \cup
        {AnObject(f) : f \in UNION {Changed(c, Fields(method), Leaves)
                                     \cup Changed(c, Nesting(method), Held(method))
                                     : c \in Complete(method)}}]
=============================================================================
