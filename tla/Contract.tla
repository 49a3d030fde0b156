------------------------------ MODULE Contract ------------------------------
(***************************************************************************)
(* From a configuration to a call: the start of serve, the OpenRPC         *)
(* document (build_openrpc_document with openrpc_method, openrpc_params    *)
(* and reachable_component_schemas, openrpc_document_with_auth), and the   *)
(* checks of dispatch on the way to a node and back (src/src/lib.rs).      *)
(*                                                                         *)
(* The gateway reads its configuration, or fails to, and builds the        *)
(* document from it; a client sends one call, which may follow the         *)
(* document or not; a node answers it, in the shape its profile documents  *)
(* or not.  Answers are numbers: 200 is a                                  *)
(* JSON-RPC result, a negative one the code of a JSON-RPC error, 401 and   *)
(* 403 are rejections by the transport.  A node's own errors, the budget   *)
(* and the cooldown of block_confirm are left to Dispatch, and so is who   *)
(* generates work: any that is asked for may be up to the local generator. *)
(***************************************************************************)
EXTENDS Configuration, Validation

CONSTANTS
    Source,  \* what a start may find
    Call,    \* what clients may send
    Answer   \* what a node may answer, for each method

\* A file that is a mapping has the fields of Config, and a .env that was not
\* read has no entries.
ASSUME SourceAssumption ==
    \A s \in Source :
        /\ DOMAIN s.text \subseteq DOMAIN default
        /\ s.switches \in [allow_work : BOOLEAN, allow_control : BOOLEAN,
                           enable_discovery : BOOLEAN,
                           require_common_auth : BOOLEAN]
        /\ s.lines \in Seq([name : STRING, value : STRING])
        /\ s.dotenv # "present" => s.lines = <<>>

\* The scope a token grants, each above the one before.
Rank == [none |-> 0, common |-> 1, work |-> 2, control |-> 3]
ASSUME CallAssumption ==
    \A c \in Call : c.object \in BOOLEAN /\ c.token \in DOMAIN Rank

VARIABLES
    source,     \* history: what the configuration is read from
    config,     \* AppState.config
    phase,      \* where the gateway is
    methods,    \* the document's methods, by name
    pending,    \* names of schemas still to be followed
    reachable,  \* names of schemas met
    schemas,    \* the names under the document's components.schemas
    call,       \* what the client sent
    answer,     \* what the node answered
    result,     \* what became of it on the way back
    reply       \* what the client was told

documentVars == <<methods, pending, reachable, schemas>>
vars == <<source, config, phase, documentVars, call, answer, result, reply>>

Unanswered == 0
Forgotten == [file |-> "forgotten"]
NoCall == [method |-> "none", object |-> FALSE, params |-> Each({}, Kind),
           token |-> "none"]
NoAnswer == [kind |-> "null", of |-> Each({}, Kind)]

Init ==
    /\ source \in Source
    /\ config = load([file |-> "missing"])
    /\ phase = "starting"
    /\ methods = Each({}, "none")
    /\ pending = {}
    /\ reachable = {}
    /\ schemas = {}
    /\ call = NoCall
    /\ answer = NoAnswer
    /\ result = NoAnswer
    /\ reply = Unanswered

-----------------------------------------------------------------------------
(* The start.                                                              *)

\* Mutant of Start: what was read is taken as it is.
StartUnchecked ==
    /\ phase = "starting"
    /\ \/ /\ LoadFails(source)
          /\ phase' = "failed"
          /\ UNCHANGED config
       \/ /\ ~LoadFails(source)
          /\ phase' = "describing"
          /\ config' = new(load(source))
    /\ UNCHANGED <<source, documentVars, call, answer, result, reply>>

\* Config::load and AppState::new: the process ends, or serves.
Start ==
    /\ phase = "starting"
    /\ \/ /\ ~Starts(source)
          /\ phase' = "failed"
          /\ UNCHANGED config
       \/ /\ Starts(source)
          /\ phase' = "describing"
          /\ config' = new(load(source))
    /\ UNCHANGED <<source, documentVars, call, answer, result, reply>>

-----------------------------------------------------------------------------
(* The document.                                                           *)

\* openrpc_params: the parameter list of a method, derived from its schema.
openrpc_params(method) ==
    UNION {{[name |-> p, required |-> p \in s.required,
             kinds |-> s.properties[p]] : p \in DOMAIN s.properties}
           : s \in component_schemas[Registry[method].params]}

\* Mutant of capability: methods of scope Common never need a token.
CapabilityOpen(name, scope) ==
    CASE name \in {"process", "work_validate"} -> "none"
      [] scope = "Work" -> "work"
      [] scope = "Control" -> "control"
      [] OTHER -> "none"

\* x-nano-capability.requires, as openrpc_document_with_auth leaves it.
capability(name, scope) ==
    CASE name \in {"process", "work_validate"} ->
           IF config.switches.require_common_auth THEN "common" ELSE "none"
      [] scope = "Work" -> "work"
      [] scope = "Control" -> "control"
      [] OTHER -> "none"

openrpc_method(name) ==
    LET spec == Registry[name]
    IN  [refs |-> {spec.params, spec.result},
         requires |-> capability(name, spec.scope)]

discover == [refs |-> {}, requires |-> "none"]

Included ==
    {name \in DOMAIN Registry :
        /\ Registry[name].scope = "Work" => config.switches.allow_work
        /\ Registry[name].scope = "Control" => config.switches.allow_control}

\* build_openrpc_document lists the methods and collects what they refer to.
\* The source has had its effect, and its history ends here.
Describe ==
    /\ phase = "describing"
    /\ methods' = [name \in Included |-> openrpc_method(name)]
                    @@ Each(IF config.switches.enable_discovery THEN {"rpc.discover"}
                                                       ELSE {}, discover)
    /\ pending' = UNION {methods'[name].refs : name \in DOMAIN methods'}
    /\ phase' = "following"
    /\ source' = Forgotten
    /\ UNCHANGED <<config, reachable, schemas, call, answer, result, reply>>

\* A hash set hands out its names in any order.  A name that has no references
\* and is no schema's reference commutes with every other, so only the order of
\* the linked ones is left open.
Linked == {name \in DOMAIN component_schemas :
              References(name) # {} \/
              \E other \in DOMAIN component_schemas : name \in References(other)}
NextNames ==
    IF pending \subseteq Linked THEN pending
    ELSE {CHOOSE name \in pending : name \notin Linked}

\* Mutant of Follow: what a schema refers to is not looked at.
FollowMethodsOnly ==
    /\ phase = "following"
    /\ \E name \in NextNames :
          /\ pending' = pending \ {name}
          /\ reachable' = reachable \cup {name}
    /\ UNCHANGED <<source, config, phase, methods, schemas, call, answer, result, reply>>

\* One round of the loop of reachable_component_schemas.
Follow ==
    /\ phase = "following"
    /\ \E name \in NextNames :
          /\ reachable' = reachable \cup {name}
          /\ pending' = (pending \ {name}) \cup
                          (IF name \in reachable THEN {} ELSE References(name))
    /\ UNCHANGED <<source, config, phase, methods, schemas, call, answer, result, reply>>

Publish ==
    /\ phase = "following"
    /\ pending = {}
    /\ schemas' = DOMAIN component_schemas \cap reachable
    /\ phase' = "serving"
    /\ UNCHANGED <<source, config, methods, pending, reachable, call, answer, result,
                   reply>>

-----------------------------------------------------------------------------
(* A call.                                                                 *)

\* authorized: without a key to verify it with, no token grants anything.
Granted(c) == IF config.fields.auth_public_key = "none" THEN "none" ELSE c.token

Authorized(c) ==
    LET scope == Registry[c.method].scope
    IN  \/ scope = "Base"
        \/ scope = "Common" /\ ~config.switches.require_common_auth
        \/ Rank[Granted(c)] >= CASE scope = "Common" -> 1
                                 [] scope = "Work" -> 2
                                 [] scope = "Control" -> 3

\* guard: a block is confirmed by its hash, and by nothing else.
GuardRefuses(c) == c.method = "block_confirm" /\ c.params["hash"] # "apt"

\* generate_local_work: work is generated for a hash, and up to a difficulty that
\* is a hexadecimal number.
GeneratorRefuses(c) ==
    /\ c.method = "work_generate"
    /\ \/ c.params["hash"] # "apt"
       \/ /\ "difficulty" \in DOMAIN c.params
          /\ c.params["difficulty"] # "apt"

\* What dispatch says to a call before anyone is asked, if it does.
Refusal(c) ==
    CASE c.method = "rpc.discover" ->
           IF config.switches.enable_discovery THEN 200 ELSE -32601
      [] c.method \notin DOMAIN Registry \cup {"rpc.discover"} -> -32601
      [] OTHER ->
           IF \/ Registry[c.method].scope = "Work" /\ ~config.switches.allow_work
              \/ Registry[c.method].scope = "Control" /\ ~config.switches.allow_control
             THEN -32604
           ELSE IF ~Authorized(c) THEN 401
           ELSE IF ~(c.object /\ validate_params(c.method, c.params)) THEN -32602
           ELSE IF GuardRefuses(c) THEN 403
           ELSE Unanswered

Send ==
    /\ phase = "serving"
    /\ \E c \in Call :
          /\ call' = c
          /\ reply' = Refusal(c)
          /\ phase' = IF reply' = Unanswered THEN "asking" ELSE "done"
    /\ UNCHANGED <<source, config, documentVars, answer, result>>

\* A node answers, and dispatch looks at what.
Answered ==
    /\ phase = "asking"
    /\ \E a \in Answer[call.method] :
          /\ answer' = a
          /\ result' = normalize_work_generate_result(call.method, a)
          /\ reply' = IF validate_result(call.method, result') THEN 200
                                                              ELSE -32603
    /\ phase' = "done"
    /\ UNCHANGED <<source, config, documentVars, call>>

\* The local generator is asked, and cannot read what for.
Declined ==
    /\ phase = "asking"
    /\ GeneratorRefuses(call)
    /\ reply' = -32602
    /\ phase' = "done"
    /\ UNCHANGED <<source, config, documentVars, call, answer, result>>

Next ==
    Start \/ Describe \/ Follow \/ Publish \/ Send \/ Answered \/ Declined

Spec == Init /\ [][Next]_vars

-----------------------------------------------------------------------------
(* Properties.                                                             *)

\* What a value in the file stands for: the first of the environment and the
\* last entry of .env that name its variable.
StandsFor(word, value) ==
    LET lines == source.lines
    IN  IF word \notin Variable THEN value = word
        ELSE IF word \in DOMAIN source.env THEN value = source.env[word]
        ELSE \E i \in DOMAIN lines :
                /\ lines[i].name = word /\ lines[i].value = value
                /\ \A j \in i + 1 .. Len(lines) : lines[j].name # word

\* A gateway that starts can be used, whether it read a file, wrote one, or took
\* values from its environment: it has nodes, an upstream stream and work peers
\* of the right schemes, a TLS certificate exactly if it has a key, and the
\* address it advertises is the one it listens at, while each field is what the
\* file says, with the environment before .env and the last entry of that
\* (Config::load, validate, AppState::new, gateway_url).
StartsSound ==
    phase = "describing" =>
        LET fields == config.fields
        IN  /\ fields.node_rpc_urls = "http" /\ fields.node_ws_urls = "ws"
            /\ fields.work_peer_urls = "http"
            /\ 100 =< config.timeout /\ config.timeout =< 300000
            /\ fields.tls_cert = "none" <=> fields.tls_key = "none"
            /\ fields.auth_public_key \in {"none", "key"}
            /\ gateway_url(fields) \in {"public", served_over(fields)}
            /\ gateway_url(fields) = "public" => fields.public_url = "http"
            /\ source.file = "text" =>
                 \A f \in DOMAIN source.text :
                    \/ StandsFor(source.text[f], fields[f])
                    \/ f = "work_peer_urls" /\ StandsFor(source.text[f], "none")

Published == phase \in {"serving", "asking", "done"}

\* In whatever order the references are followed, the document has a schema for
\* each reference it makes, and no schema that nothing in it refers to
\* (reachable_component_schemas; collect_schema_refs).
DocumentClosed ==
    Published =>
        LET made == (UNION {methods[m].refs : m \in DOMAIN methods})
                      \cup (UNION {References(s) : s \in schemas})
        IN  schemas = made

\* What the document lists is what is served: a method is listed exactly if a
\* call to it is not turned away as unknown or disabled, and a listed method
\* asks for the token that its x-nano-capability names, no more and no less.  A
\* gateway that has no key to verify tokens with lists methods that ask for one
\* all the same, and lets nobody in (openrpc_method and
\* openrpc_document_with_auth against dispatch and authorized).
AdvertisedIsServed ==
    phase \in {"asking", "done"} =>
        /\ call.method \in DOMAIN methods <=> reply \notin {-32601, -32604}
        /\ call.method \in DOMAIN methods =>
              LET requires == methods[call.method].requires
              IN  reply = 401 <=>
                    \/ Rank[call.token] < Rank[requires]
                    \/ /\ requires # "none"
                       /\ config.fields.auth_public_key = "none"

\* A call that keeps to the parameter list the document gives for its method.
Documented(c) ==
    LET list == openrpc_params(c.method)
    IN  /\ c.object
        /\ DOMAIN c.params \subseteq {p.name : p \in list}
        /\ \A p \in list :
              IF p.name \in DOMAIN c.params
                THEN c.params[p.name] \in p.kinds ELSE ~p.required

\* What a schema allows of a parameter and validate_params does not: numbers that
\* are negative or beyond the integers it reads them as, and what is empty.
Refused(name) ==
    CASE name = "count" -> {"float", "low_float", "digits"}
      [] name \in {"offset", "min_version"} ->
           {"minus_one", "less", "vast", "float", "low_float"}
      [] name = "threshold" -> {"empty"}
      [] name = "account_filter" -> {"empty_list"}
      [] OTHER -> {}

\* The calls that the document allows and the gateway may not: to the schema a
\* hash and a difficulty are just strings.
Narrowed(c) ==
    \/ \E n \in DOMAIN c.params : c.params[n] \in Refused(n)
    \/ GuardRefuses(c)
    \/ GeneratorRefuses(c)

\* The document and the gateway agree on parameters.  A call that keeps to the
\* document is refused for its parameters only where the gateway is narrower; and
\* whatever is put to a node has every parameter the document requires, as it
\* requires it, and no option that strays from it, but for a flag or a head block
\* that may be any string (openrpc_params against validate_params, guard and
\* generate_local_work).
ParametersAgree ==
    phase \in {"asking", "done"} /\ call.method \in DOMAIN Registry =>
        /\ Documented(call) /\ ~Narrowed(call) => reply \notin {-32602, 403}
        /\ phase = "asking" \/ reply \in {200, -32603} =>
             \A p \in openrpc_params(call.method) :
                IF p.required
                  THEN /\ p.name \in DOMAIN call.params
                       /\ call.params[p.name] \in p.kinds
                  ELSE p.name \in DOMAIN call.params =>
                         \/ call.params[p.name] \in p.kinds
                         \/ /\ p.kinds = {"flag"} \/ p.name = "head"
                            /\ call.params[p.name] \in Strings

\* What validate_result lets pass as a field although the schema does not: a
\* Boolean, an empty set of blocks as an empty string, any string for 0 or 1.
Tolerated(schema, name) ==
    CASE schema = "BlockInfoResult" /\ name = "confirmed" -> {"flag"}
      [] schema = "ReceivableResult" /\ name = "blocks" -> {"empty"}
      [] schema = "WorkValidateResult" -> Filled
      [] OTHER -> {}

\* An object has what an alternative of a schema requires.
Kept(schema, value) ==
    /\ value.kind = "object"
    /\ \E s \in component_schemas[schema] : \A n \in s.required :
          Present(value, n, s.properties[n] \cup Tolerated(schema, n))

\* One of the shapes of ReceivableBlocks, or a mixture of the two that are maps,
\* or an empty string.
ReceivableKept(value) ==
    \/ value.kind = "list" /\ StringsOnly(value)
    \/ /\ value.kind = "object"
       /\ \A entry \in Entries(value) :
             entry.kind \in Strings \/ Kept("ReceivableSource", entry)
    \/ value.kind = "empty"

\* What a result holds under the fields of its schema that are maps or lists.
\* The entries of a history may be anything; of the two maps of balances one may
\* hold anything if the other is right.
EntriesKept(schema, value) ==
    LET Given(names) == {value.of[n] : n \in names \cap DOMAIN value.of}
    IN  CASE schema = "BlocksInfoResult" ->
               \A entry \in Entries(value.of["blocks"]) :
                   Kept("BlockInfoResult", entry)
          [] schema = "ReceivableResult" -> ReceivableKept(value.of["blocks"])
          [] schema = "AccountsReceivableResult" ->
               \A entry \in Entries(value.of["blocks"]) : ReceivableKept(entry)
          [] schema = "AccountsFrontiersResult" ->
               \A map \in Given({"frontiers", "errors"}) :
                   map.kind = "object" /\ StringsOnly(map)
          [] schema = "AccountsBalancesResult" ->
               /\ \A map \in Given({"balances", "errors"}) : map.kind = "object"
               /\ \/ \E map \in Given({"balances"}) : \A entry \in Entries(map) :
                        Kept("AccountBalanceResult", entry)
                  \/ \E map \in Given({"errors"}) : StringsOnly(map)
          [] OTHER -> TRUE

\* "Check that an upstream response still matches the shape the profile
\* documents": a client that is given a result finds in it every field the
\* published schema of the result requires, of the published kind, and in its
\* maps the entries that the schemas they refer to describe, but for what
\* Tolerated, ReceivableKept and EntriesKept name.  Of fields that a schema does
\* not require only these maps are looked at (validate_result against
\* component_schemas).
RequiredFieldsKept ==
    reply = 200 /\ call.method \in DOMAIN Registry =>
        LET schema == Registry[call.method].result
        IN  Kept(schema, result) /\ EntriesKept(schema, result)

\* "A mismatched alias remains invalid": work that a client is given is for the
\* hash the peer itself named, be it as hash or as frontier, and a frontier
\* counts only if it is the hash the client asked for.
WorkIsForItsHash ==
    reply = 200 /\ call.method = "work_generate" =>
        \/ "hash" \in DOMAIN answer.of /\ result = answer
        \/ /\ "hash" \notin DOMAIN answer.of
           /\ Present(answer, "frontier", {"apt"})
           /\ "frontier" \notin DOMAIN result.of

\* schema/parity-matrix.json:416: "With async the result is started rather than
\* hash, which the schema models."  A process call with async that the node
\* answers so is answered.
StartedIsAnswered ==
    /\ phase = "done" /\ call.method = "process"
    /\ "async" \in DOMAIN call.params /\ call.params["async"] = "flag"
    /\ answer.kind = "object" /\ DOMAIN answer.of = {"started"}
    /\ answer.of["started"].kind = "apt"
    => reply = 200
=============================================================================
