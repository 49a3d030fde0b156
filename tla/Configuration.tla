--------------------------- MODULE Configuration ---------------------------
(***************************************************************************)
(* How a gateway gets its configuration: Config::load with load_dotenv and *)
(* expand_config_variables, Config::validate, AppState::new and            *)
(* gateway_url (src/src/lib.rs).                                           *)
(*                                                                         *)
(* A source is what a start finds: the file, the environment of the        *)
(* process and the .env file beside the configuration.  A value in the     *)
(* file is a word for what the checks tell apart (a list of URLs of one    *)
(* kind, "http", "ws", "password" or "hostless"), the name of a variable,  *)
(* or a placeholder that is Broken.                                        *)
(***************************************************************************)
EXTENDS Integers, Sequences, FiniteSetsExt

Variable == {"FIRST", "SECOND"}
Broken == {"unterminated", "bad_name"}

\* What an absent field stands for.
default == [node_rpc_urls |-> "http", node_ws_urls |-> "ws",
            work_peer_urls |-> "none", public_url |-> "none",
            tls_cert |-> "none", tls_key |-> "none",
            cors_origins |-> "any", auth_public_key |-> "none"]

-----------------------------------------------------------------------------
(* Reading.                                                                *)

\* load_dotenv: a later entry of a name replaces an earlier one.
load_dotenv(lines) ==
    LET Of(name) == {i \in DOMAIN lines : lines[i].name = name}
    IN  [name \in {n \in Variable : Of(n) # {}} |-> lines[Max(Of(name))].value]

DotenvFails(source) ==
    \/ source.dotenv = "unreadable"
    \/ source.dotenv = "present" /\ \E i \in DOMAIN source.lines :
                                       source.lines[i].name \in Broken

Lookup(source) ==
    LET dotenv == IF source.dotenv = "present" THEN load_dotenv(source.lines)
                                               ELSE load_dotenv(<<>>)
    IN  [name \in DOMAIN source.env \cup DOMAIN dotenv |->
           IF name \in DOMAIN source.env THEN source.env[name]
                                         ELSE dotenv[name]]

\* expand_config_variables, over the fields of the file.  What was put in is not
\* looked at again.
expand_config_variables(source) ==
    [f \in DOMAIN source.text |->
        IF source.text[f] \in Variable THEN Lookup(source)[source.text[f]]
                                       ELSE source.text[f]]

ExpansionFails(source) ==
    \E f \in DOMAIN source.text :
        \/ source.text[f] \in Broken
        \/ source.text[f] \in Variable \ DOMAIN Lookup(source)

\* Config::load up to validate.  A missing file is written and the default is
\* what was written, whatever the environment says.
LoadFails(source) ==
    \/ source.file \in {"unreadable", "unwritable"}
    \/ source.file \in {"text", "mistyped"} /\ DotenvFails(source)
    \/ source.file = "text" /\ ExpansionFails(source)
    \/ source.file = "mistyped"

load(source) ==
    IF source.file = "missing"
      THEN [fields |-> default, timeout |-> 30000,
            switches |-> [allow_work |-> FALSE, allow_control |-> FALSE,
                          enable_discovery |-> TRUE,
                          require_common_auth |-> TRUE]]
      ELSE LET text == expand_config_variables(source)
           IN  [fields |-> [f \in DOMAIN default |->
                              IF f \in DOMAIN text THEN text[f] ELSE default[f]],
                timeout |-> source.timeout, switches |-> source.switches]

-----------------------------------------------------------------------------
(* Checking.                                                               *)

\* Without work peers of their own, work calls go to the nodes.
Peers(fields) ==
    [fields EXCEPT !.work_peer_urls =
        IF @ = "none" THEN fields.node_rpc_urls ELSE @]

\* Config::validate; validate_upstream_url lets pass the scheme asked for, with
\* a host and without a password.
validate(config) ==
    LET fields == Peers(config.fields)
    IN  /\ fields.node_rpc_urls = "http"
        /\ fields.node_ws_urls = "ws"
        /\ fields.work_peer_urls = "http"
        /\ 100 =< config.timeout /\ config.timeout =< 300000
        /\ fields.tls_cert = "none" <=> fields.tls_key = "none"
        /\ fields.cors_origins # "unprintable"
        /\ fields.public_url \in {"none", "http"}

\* A start gets through Config::load, which validates what it read but not what
\* it wrote, and AppState::new, which validates once more and reads the key.
Starts(source) ==
    /\ ~LoadFails(source)
    /\ validate(load(source))
    /\ load(source).fields.auth_public_key \in {"none", "key"}

new(config) == [config EXCEPT !.fields = Peers(@)]

gateway_url(fields) ==
    IF fields.public_url # "none" THEN "public"
    ELSE IF fields.tls_cert # "none" /\ fields.tls_key # "none" THEN "https"
    ELSE "http"

\* serve: TLS with both files, else plain HTTP.
served_over(fields) ==
    IF fields.tls_cert # "none" /\ fields.tls_key # "none" THEN "https"
                                                          ELSE "http"
=============================================================================
