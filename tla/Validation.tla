----------------------------- MODULE Validation -----------------------------
(***************************************************************************)
(* What the gateway asks of the parameters of a call and of the answer of  *)
(* a node: validate_params, normalize_work_generate_result and             *)
(* validate_result (src/src/lib.rs).                                       *)
(*                                                                         *)
(* A params object is a function from the names it has to the Kind of      *)
(* value under each.  A result is a value with all it holds: a record of   *)
(* its kind and of what it has under each name, the entries of a list      *)
(* being under names too and those of any other value none.                *)
(***************************************************************************)
EXTENDS Schemas

-----------------------------------------------------------------------------
(* Parameters.                                                             *)

\* The parameter a method cannot do without.  Methods without one are not
\* looked at any further.
required ==
    Each({"account_info", "receivable", "account_balance", "account_history"},
         "account")
    @@ Each({"accounts_balances", "accounts_frontiers", "accounts_receivable"},
            "accounts")
    @@ Each({"block_info", "block_confirm", "work_generate", "work_cancel",
             "work_validate"}, "hash")
    @@ [blocks_info |-> "hashes", process |-> "block"]

RequiredKinds(name) ==
    CASE name \in {"account", "hash"} -> Filled
      [] name \in {"accounts", "hashes"} -> {"list"}
      [] name = "block" -> {"object"}

booleans == {"include_only_confirmed", "source", "include_active", "sorting",
             "include_linked_account", "reverse", "raw", "json_block",
             "include_not_found", "receive_hash", "include_confirmed",
             "representative", "weight", "receivable", "use_peers", "force",
             "async"}

\* What a parameter may be wherever it is sent, whichever the method.
OptionKinds(method, name) ==
    CASE name = "count" ->
           IF method \in {"account_history", "receivable",
                          "accounts_receivable"}
             THEN {"positive", "zero", "minus_one", "vast", "apt"} ELSE Kind
      [] name \in booleans -> {"flag"} \cup Strings
      [] name \in {"head", "threshold"} -> Filled
      [] name \in {"offset", "min_version"} -> {"positive", "zero"}
      [] name = "account_filter" -> {"list"}
      [] name \in {"subtype", "version"} -> {"apt"}
      [] name \in {"difficulty", "account", "work"} -> Strings
      [] name = "multiplier" -> Positives
      [] name = "block" -> Strings \cup {"object"}
      [] OTHER -> Kind

\* Mutant of validate_params: only the options are looked at.
OptionsOnly(method, params) ==
    /\ "action" \notin DOMAIN params
    /\ method \in DOMAIN required =>
         \A name \in DOMAIN params : params[name] \in OptionKinds(method, name)

validate_params(method, params) ==
    /\ "action" \notin DOMAIN params
    /\ method \in DOMAIN required =>
         /\ required[method] \in DOMAIN params
         /\ params[required[method]] \in RequiredKinds(required[method])
         /\ method = "work_validate" =>
              "work" \in DOMAIN params /\ params["work"] \in Filled
         /\ \A name \in DOMAIN params :
              params[name] \in OptionKinds(method, name)

-----------------------------------------------------------------------------
(* Results.                                                                *)

Present(value, name, kinds) ==
    name \in DOMAIN value.of /\ value.of[name].kind \in kinds
Entries(value) == {value.of[name] : name \in DOMAIN value.of}
StringsOnly(value) == \A entry \in Entries(value) : entry.kind \in Strings

\* frontier becomes hash.
Renamed(value) ==
    [kind |-> "object",
     of |-> [n \in (DOMAIN value.of \ {"frontier"}) \cup {"hash"} |->
               value.of[IF n = "hash" THEN "frontier" ELSE n]]]

\* Mutant of normalize_work_generate_result: any frontier will do.
AnyFrontier(method, value) ==
    IF /\ method = "work_generate" /\ value.kind = "object"
       /\ "hash" \notin DOMAIN value.of /\ Present(value, "frontier", Filled)
      THEN Renamed(value) ELSE value

\* A frontier that is the hash the caller named takes the name hash.
normalize_work_generate_result(method, value) ==
    IF /\ method = "work_generate" /\ value.kind = "object"
       /\ "hash" \notin DOMAIN value.of /\ Present(value, "frontier", {"apt"})
      THEN Renamed(value) ELSE value

\* The fields that must be there as strings that are not empty.
has_string(method) ==
    CASE method = "version" -> {"rpc_version"}
      [] method = "block_count" -> {"count", "unchecked", "cemented"}
      [] method = "account_info" ->
           {"frontier", "open_block", "representative_block", "balance",
            "modified_timestamp", "block_count", "account_version"}
      [] method = "account_balance" -> {"balance", "receivable"}
      [] method = "account_history" -> {"account"}
      [] method = "block_info" ->
           {"block_account", "amount", "balance", "height", "local_timestamp"}
      [] method = "process" -> {"hash"}
      [] method = "work_generate" ->
           {"hash", "work", "difficulty", "multiplier"}
      [] method = "work_validate" ->
           {"valid_all", "valid_receive", "difficulty", "multiplier"}
      [] OTHER -> {}

\* validate_result for what looks at no entries of a field.
validate_fields(method, value) ==
    /\ value.kind = "object"
    /\ \A name \in has_string(method) : Present(value, name, Filled)
    /\ CASE method = "account_history" -> Present(value, "history", {"list"})
         [] method = "block_info" ->
              /\ "contents" \in DOMAIN value.of
              /\ Present(value, "confirmed", Strings \cup {"flag"})
         [] method = "block_confirm" -> Present(value, "started", {"apt"})
         [] method = "work_cancel" -> Present(value, "success", {"empty"})
         [] method = "work_validate" ->
              "valid" \in DOMAIN value.of => Present(value, "valid", {"apt"})
         [] OTHER -> TRUE

\* validate_receivable_value: hashes, a map whose entries are amounts or amounts
\* with a source, each as it likes, or an empty string.
receivable_value(value) ==
    \/ value.kind = "list" /\ StringsOnly(value)
    \/ /\ value.kind = "object"
       /\ \A entry \in Entries(value) :
             \/ entry.kind \in Strings
             \/ /\ entry.kind = "object"
                /\ Present(entry, "amount", Strings)
                /\ Present(entry, "source", Strings)
    \/ value.kind = "empty"

\* Mutant of validate_result: nobody looks into the maps.
FieldsOnly(method, value) == validate_fields(method, value)

validate_result(method, value) ==
    LET Map(name) == Present(value, name, {"object"})
        Of(name) == Entries(value.of[name])
        Given(names) == names \cap DOMAIN value.of
    IN  /\ validate_fields(method, value)
        /\ CASE method = "accounts_balances" ->
                  /\ \/ /\ Map("balances")
                        /\ \A item \in Of("balances") :
                              validate_fields("account_balance", item)
                     \/ Map("errors") /\ StringsOnly(value.of["errors"])
                  /\ \A name \in Given({"balances", "errors"}) : Map(name)
             [] method = "blocks_info" ->
                  /\ Map("blocks")
                  /\ \A item \in Of("blocks") : validate_fields("block_info", item)
             [] method = "accounts_frontiers" ->
                  \A name \in Given({"frontiers", "errors"}) :
                      Map(name) /\ StringsOnly(value.of[name])
             [] method = "receivable" ->
                  /\ "blocks" \in DOMAIN value.of
                  /\ receivable_value(value.of["blocks"])
             [] method = "accounts_receivable" ->
                  /\ Map("blocks")
                  /\ \A item \in Of("blocks") : receivable_value(item)
             [] OTHER -> TRUE
=============================================================================
