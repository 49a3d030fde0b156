------------------------------ MODULE Schemas ------------------------------
(***************************************************************************)
(* The published contract: the method registry and the component schemas  *)
(* of the OpenRPC document (src/src/lib.rs).  Module Validation has what   *)
(* the gateway enforces of it; the two are written down apart in the code. *)
(*                                                                         *)
(* A JSON value is represented by its Kind, for what schemas and           *)
(* validators tell apart.  Among the strings, "apt" is one of the form     *)
(* that is asked for where it is held (an enumeration, a constant, a       *)
(* number, hexadecimal digits, the hash the caller named), "digits" is a   *)
(* decimal number that no u64 holds, "text" is any other that is not       *)
(* empty.  Among the numbers, the first four are whole and held as i64,    *)
(* "vast" is whole and fits u64 only.  "float" is whole and positive,      *)
(* "low_float" is 0 or -1, and both are held as f64, as 1.0 and whatever   *)
(* exceeds u64 are; "fraction" is positive and not whole.  "null" stands   *)
(* for every value that nobody asks for.                                   *)
(*                                                                         *)
(* A parameter is a Kind, and its lists are lists of strings that are not  *)
(* empty, unless it is a bad one.  A result is a value with what it holds: *)
(* see module Validation.                                                  *)
(***************************************************************************)

\* Both of two functions, the left one where they meet: the @@ of module TLC,
\* written out because the provers have no rule for that one.
f @@ g == [n \in DOMAIN f \cup DOMAIN g |-> IF n \in DOMAIN f THEN f[n] ELSE g[n]]

Strings == {"apt", "text", "digits", "empty"}
Filled == {"apt", "text", "digits"}
Wholes == {"positive", "zero", "minus_one", "less", "vast", "float",
           "low_float"}
Positives == {"positive", "vast", "float", "fraction"}
Lists == {"list", "empty_list"}
Kind == Strings \cup Wholes \cup Lists
        \cup {"fraction", "flag", "bad_list", "object", "null"}

\* Every one of names, with the same kinds.
Each(names, kinds) == [n \in names |-> kinds]

\* registry.
Registry ==
  LET Method(scope, params, result) ==
        [scope |-> scope, params |-> params, result |-> result]
      Read(params, result) == Method("Base", params, result)
  IN [version |-> Read("EmptyParams", "VersionResult"),
      block_count |-> Read("EmptyParams", "BlockCountResult"),
      account_info |-> Read("AccountInfoParams", "AccountInfoResult"),
      receivable |-> Read("ReceivableParams", "ReceivableResult"),
      account_balance |-> Read("AccountBalanceParams", "AccountBalanceResult"),
      accounts_balances |-> Read("AccountsParams", "AccountsBalancesResult"),
      account_history |-> Read("AccountHistoryParams", "AccountHistoryResult"),
      block_info |-> Read("BlockParams", "BlockInfoResult"),
      blocks_info |-> Read("BlocksParams", "BlocksInfoResult"),
      accounts_frontiers |-> Read("AccountsFrontiersParams",
                                  "AccountsFrontiersResult"),
      accounts_receivable |-> Read("AccountsReceivableParams",
                                   "AccountsReceivableResult"),
      block_confirm |-> Read("BlockConfirmParams", "BlockConfirmResult"),
      process |-> Method("Common", "ProcessParams", "ProcessResult"),
      work_generate |-> Method("Work", "WorkGenerateParams",
                               "WorkGenerateResult"),
      work_cancel |-> Method("Control", "WorkCancelParams", "WorkCancelResult"),
      work_validate |-> Method("Common", "WorkValidateParams",
                               "WorkValidateResult")]

-----------------------------------------------------------------------------
(* component_schemas: for each schema the objects it allows, as a set of   *)
(* alternatives, each with the fields it requires and the kinds of value   *)
(* each field may have.  What a $ref stands for is spelled out at the      *)
(* reference; References says where they are.                              *)

Object(required, properties) ==
    {[required |-> required, properties |-> properties]}

Flags(names) == Each(names, {"flag"})
\* A whole number from -1 on, or decimal digits, however many.
Count == (Wholes \ {"less"}) \cup {"apt", "digits"}

ParamsSchemas ==
  LET receivable_options ==
        [count |-> Count, threshold |-> Strings]
          @@ Flags({"source", "include_active", "sorting",
                    "include_only_confirmed"})
      target == [difficulty |-> Strings, multiplier |-> Positives,
                 version |-> {"apt"}]
  IN [AccountsParams |->
        Object({"accounts"}, [accounts |-> {"list"}]
                               @@ Flags({"include_only_confirmed"})),
      AccountInfoParams |->
        Object({"account"}, [account |-> Filled]
                              @@ Flags({"representative", "weight",
                                        "receivable", "include_confirmed"})),
      AccountBalanceParams |->
        Object({"account"}, [account |-> Filled]
                              @@ Flags({"include_only_confirmed"})),
      ReceivableParams |->
        Object({"account"}, [account |-> Filled, min_version |-> Wholes]
                              @@ receivable_options),
      AccountsFrontiersParams |->
        Object({"accounts"}, [accounts |-> {"list"}]),
      BlockConfirmParams |-> Object({"hash"}, [hash |-> Filled]),
      AccountsReceivableParams |->
        Object({"accounts"}, [accounts |-> {"list"}] @@ receivable_options),
      AccountHistoryParams |->
        Object({"account"},
               [account |-> Filled, head |-> {"apt"}, count |-> Count,
                offset |-> Wholes, account_filter |-> Lists]
                 @@ Flags({"reverse", "raw", "include_linked_account"})),
      BlockParams |->
        Object({"hash"}, [hash |-> Filled]
                           @@ Flags({"json_block", "include_linked_account"})),
      BlocksParams |->
        Object({"hashes"}, [hashes |-> {"list"}]
                             @@ Flags({"json_block", "include_not_found",
                                       "receive_hash", "source",
                                       "include_linked_account"})),
      ProcessParams |->
        Object({"block"}, [block |-> {"object"}, subtype |-> {"apt"}]
                            @@ Flags({"force", "async", "json_block"})),
      WorkGenerateParams |->
        Object({"hash"}, [hash |-> Filled, account |-> Strings,
                          block |-> Strings \cup {"object"}]
                           @@ Flags({"use_peers", "json_block"}) @@ target),
      WorkCancelParams |-> Object({"hash"}, [hash |-> Filled]),
      WorkValidateParams |->
        Object({"hash", "work"}, [hash |-> Filled, work |-> Filled] @@ target),
      EmptyParams |-> Object({}, Each({}, Kind))]

ResultSchemas ==
  LET AllOf(required, others) ==
        Object(required, Each(required \cup others, Strings))
  IN [VersionResult |->
        AllOf({"rpc_version"},
              {"store_version", "protocol_version", "node_vendor",
               "store_vendor", "network", "network_identifier",
               "build_info"}),
      BlockCountResult |-> AllOf({"count", "unchecked", "cemented"}, {}),
      AccountInfoResult |->
        AllOf({"frontier", "open_block", "representative_block", "balance",
               "modified_timestamp", "block_count", "account_version"},
              {"confirmation_height", "confirmation_height_frontier",
               "representative", "weight", "receivable",
               "confirmed_frontier", "confirmed_balance", "confirmed_height",
               "confirmed_representative", "confirmed_receivable"}),
      AccountBalanceResult |-> AllOf({"balance", "receivable"}, {}),
      AccountsBalancesResult |->
        Object({}, Each({"balances", "errors"}, {"object"})),
      AccountsFrontiersResult |->
        Object({}, Each({"frontiers", "errors"}, {"object"})),
      BlockInfoResult |->
        LET required == {"block_account", "amount", "balance", "height",
                         "local_timestamp", "confirmed"}
        IN  Object(required,
                   [subtype |-> {"apt"}, contents |-> Kind]
                     @@ Each(required \cup
                             {"successor", "linked_account",
                              "source_account", "receive_hash"}, Strings)),
      BlocksInfoResult |->
        Object({"blocks"},
               [blocks |-> {"object"}, blocks_not_found |-> {"list"}]),
      BlockConfirmResult |-> Object({"started"}, [started |-> {"apt"}])]

WorkAndListSchemas ==
  LET AllOf(required) == Object(required, Each(required, Strings))
  IN [ProcessResult |->
        AllOf({"hash"}) \cup Object({"started"}, [started |-> {"apt"}]),
      WorkGenerateResult |->
        AllOf({"work", "difficulty", "multiplier", "hash"}),
      WorkCancelResult |-> Object({"success"}, [success |-> {"empty"}]),
      WorkValidateResult |->
        Object({"valid_all", "valid_receive", "difficulty", "multiplier"},
               Each({"valid", "valid_all", "valid_receive"}, {"apt"})
                 @@ Each({"difficulty", "multiplier"}, Strings)),
      HistoryEntry |->
        LET required == {"type", "account", "amount", "hash"}
        IN  Object(required,
                   Each(required \cup
                        {"local_timestamp", "height", "confirmed", "subtype",
                         "linked_account", "previous", "representative",
                         "balance", "link", "link_as_account", "signature",
                         "work"}, Strings)),
      AccountHistoryResult |->
        Object({"account", "history"},
               [history |-> {"list"}]
                 @@ Each({"account", "previous", "next"}, Strings)),
      ReceivableSource |-> AllOf({"amount", "source"}),
      ReceivableBlocks |-> {},  \* no object with fields of its own
      ReceivableResult |->
        Object({"blocks"}, [blocks |-> {"list", "object"}]),
      AccountsReceivableResult |->
        Object({"blocks"}, [blocks |-> {"object"}])]

component_schemas == ParamsSchemas @@ ResultSchemas @@ WorkAndListSchemas

\* The $refs inside each schema, as collect_schema_refs finds them.
References(name) ==
    CASE name = "AccountsBalancesResult" -> {"AccountBalanceResult"}
      [] name = "BlocksInfoResult" -> {"BlockInfoResult"}
      [] name = "AccountHistoryResult" -> {"HistoryEntry"}
      [] name = "ReceivableBlocks" -> {"ReceivableSource"}
      [] name \in {"ReceivableResult", "AccountsReceivableResult"} ->
           {"ReceivableBlocks"}
      [] OTHER -> {}
=============================================================================
