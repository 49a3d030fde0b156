--------------------------- MODULE ContractProofs ---------------------------
(***************************************************************************)
(* Proofs about Contract, for any configuration, any call and any answer   *)
(* of a node, not only those that are right but for one thing: a gateway   *)
(* that starts is sound, its document is closed and lists what is served,  *)
(* the document and validate_params agree on parameters, and what a client *)
(* is given has the fields that the document requires.                     *)
(*                                                                         *)
(* The registry, the schemas and the two validators are tables.  A lemma   *)
(* for each method compares its rows, and the rest reasons from there.     *)
(***************************************************************************)
EXTENDS Contract, WellFoundedInduction, TLAPS

-----------------------------------------------------------------------------
(* Looking things up.                                                      *)

\* The methods of the registry.
LEMMA RegistryNames ==
    DOMAIN Registry =
      {"version", "block_count", "account_info", "receivable",
       "account_balance", "accounts_balances", "account_history", "block_info",
       "blocks_info", "accounts_frontiers", "accounts_receivable",
       "block_confirm", "process", "work_generate", "work_cancel",
       "work_validate"}
  BY DEF Registry

\* The methods that have a parameter they cannot do without.
LEMMA RequiredNames ==
    DOMAIN required = DOMAIN Registry \ {"version", "block_count"}
  BY RegistryNames DEF required, @@, Each

\* Which parameter that is.
LEMMA RequiredAt ==
    /\ \A m \in {"account_info", "receivable", "account_balance",
                 "account_history"} : required[m] = "account"
    /\ \A m \in {"accounts_balances", "accounts_frontiers",
                 "accounts_receivable"} : required[m] = "accounts"
    /\ \A m \in {"block_info", "block_confirm", "work_generate", "work_cancel",
                 "work_validate"} : required[m] = "hash"
    /\ required["blocks_info"] = "hashes"
    /\ required["process"] = "block"
  BY DEF required, @@, Each

\* The schemas of parameters are those of ParamsSchemas.
LEMMA ParamsAt ==
    \A name \in DOMAIN ParamsSchemas :
        component_schemas[name] = ParamsSchemas[name]
  BY DEF component_schemas, @@

\* The schemas of most results are those of ResultSchemas.
LEMMA ResultsAt ==
    \A name \in DOMAIN ResultSchemas :
        component_schemas[name] = ResultSchemas[name]
<1>1. DOMAIN ResultSchemas \cap DOMAIN ParamsSchemas = {}
  BY DEF ResultSchemas, ParamsSchemas
<1> QED
  BY <1>1 DEF component_schemas, @@

\* The schemas of the others are those of WorkAndListSchemas.
LEMMA OthersAt ==
    \A name \in DOMAIN WorkAndListSchemas :
        component_schemas[name] = WorkAndListSchemas[name]
<1>1. DOMAIN WorkAndListSchemas
        \cap (DOMAIN ParamsSchemas \cup DOMAIN ResultSchemas) = {}
  BY DEF ResultSchemas, ParamsSchemas, WorkAndListSchemas
<1> QED
  BY <1>1 DEF component_schemas, @@

-----------------------------------------------------------------------------
(* One option, in the schema and in the validator.                         *)

\* What the validator allows although the schema does not.
Astray(name, kinds) == IF kinds = {"flag"} \/ name = "head" THEN Strings ELSE {}

OptionFits(method, name, kinds) ==
    /\ kinds \ Refused(name) \subseteq OptionKinds(method, name)
    /\ OptionKinds(method, name) \subseteq kinds \cup Astray(name, kinds)

\* The parameters that a method needs, and what the validator asks of them.
Needs(method) ==
    {required[method]} \cup (IF method = "work_validate" THEN {"work"} ELSE {})
Demanded(method, name) ==
    IF name = required[method] THEN RequiredKinds(name) ELSE Filled

DemandFits(method, name, kinds) ==
    /\ Refused(name) = {}
    /\ kinds = Demanded(method, name)
    /\ kinds \subseteq OptionKinds(method, name)

\* A schema and the validator say the same of each parameter of a method.
Agrees(method, schema) ==
    /\ "action" \notin DOMAIN schema.properties
    /\ schema.required = Needs(method)
    /\ schema.required \subseteq DOMAIN schema.properties
    /\ \A name \in DOMAIN schema.properties :
          IF name \in schema.required
            THEN DemandFits(method, name, schema.properties[name])
            ELSE OptionFits(method, name, schema.properties[name])

\* A flag is a flag: the validator lets any string pass too.
LEMMA FlagsFit ==
    \A method : \A name \in booleans : OptionFits(method, name, {"flag"})
  BY DEF OptionFits, OptionKinds, Refused, Astray, booleans, Strings

\* A number of things to skip is not negative.
LEMMA WholesFit ==
    \A method : \A name \in {"offset", "min_version"} :
        OptionFits(method, name, Wholes)
  BY DEF OptionFits, OptionKinds, Refused, Astray, booleans, Wholes

\* A count is the same in both up to what a u64 and an i64 hold.
LEMMA CountFits ==
    \A method \in {"account_history", "receivable", "accounts_receivable"} :
        OptionFits(method, "count", Count)
  BY DEF OptionFits, OptionKinds, Refused, Astray, booleans, Count, Wholes

\* A threshold is a string, and not an empty one.
LEMMA ThresholdFits ==
    \A method : OptionFits(method, "threshold", Strings)
  BY DEF OptionFits, OptionKinds, Refused, Astray, booleans, Strings, Filled

\* A head block may be any string that is not empty.
LEMMA HeadFits ==
    \A method : OptionFits(method, "head", {"apt"})
  BY DEF OptionFits, OptionKinds, Refused, Astray, booleans, Strings, Filled

\* A filter names an account.
LEMMA FilterFits ==
    \A method : OptionFits(method, "account_filter", Lists)
  BY DEF OptionFits, OptionKinds, Refused, Astray, booleans, Lists

\* What has one of a few values has one of these in both.
LEMMA AptFits ==
    \A method : \A name \in {"subtype", "version"} :
        OptionFits(method, name, {"apt"})
  BY DEF OptionFits, OptionKinds, Refused, Astray, booleans

\* Other strings are the same in both.
LEMMA StringsFit ==
    \A method : \A name \in {"difficulty", "account"} :
        OptionFits(method, name, Strings)
  BY DEF OptionFits, OptionKinds, Refused, Astray, booleans

\* A multiplier is the same in both.
LEMMA MultiplierFits ==
    \A method : OptionFits(method, "multiplier", Positives)
  BY DEF OptionFits, OptionKinds, Refused, Astray, booleans

\* A block that work is asked for is the same in both.
LEMMA BlockFits ==
    \A method :
        OptionFits(method, "block", Strings \cup {"object"})
  BY DEF OptionFits, OptionKinds, Refused, Astray, booleans

\* An account or a hash is demanded as the schema has it.
LEMMA TextDemanded ==
    \A method : required[method] \in {"account", "hash"} =>
        DemandFits(method, required[method], Filled)
  BY DEF DemandFits, Demanded, RequiredKinds, OptionKinds, Refused, booleans,
         Filled, Strings, Kind

\* So is a list of them.
LEMMA ListDemanded ==
    \A method : required[method] \in {"accounts", "hashes"} =>
        DemandFits(method, required[method], {"list"})
  BY DEF DemandFits, Demanded, RequiredKinds, OptionKinds, Refused, booleans,
         Lists, Kind

\* So is a block to publish.
LEMMA BlockDemanded ==
    \A method : required[method] \in {"block"} =>
        DemandFits(method, required[method], {"object"})
  BY DEF DemandFits, Demanded, RequiredKinds, OptionKinds, Refused, booleans,
         Strings

\* So is work to be validated.
LEMMA WorkDemanded == DemandFits("work_validate", "work", Filled)
  BY RequiredAt DEF DemandFits, Demanded, RequiredKinds, OptionKinds, Refused,
                    booleans, Filled, Strings

-----------------------------------------------------------------------------
(* The parameters of each method (component_schemas, validate_params).     *)

MethodAgrees(method) ==
    \A s \in component_schemas[Registry[method].params] : Agrees(method, s)

\* The parameters of account_info: the schema and the validator agree.
LEMMA AccountInfoAgrees == MethodAgrees("account_info")
<1> SUFFICES ASSUME NEW s \in ParamsSchemas["AccountInfoParams"]
             PROVE  Agrees("account_info", s)
  BY ParamsAt DEF MethodAgrees, Registry, ParamsSchemas
<1> DEFINE kinds == s.properties
<1>1. /\ s.required = {"account"}
      /\ DOMAIN kinds = {"account", "representative", "weight", "receivable",
                         "include_confirmed"}
      /\ kinds["account"] = Filled
      /\ \A n \in {"representative", "weight", "receivable",
                   "include_confirmed"} :
            kinds[n] = {"flag"}
  BY DEF ParamsSchemas, Object, @@, Flags, Each
<1>2. /\ required["account_info"] = "account"
      /\ Needs("account_info") = {"account"}
  BY RequiredAt DEF Needs
<1> HIDE DEF kinds
<1>3. \A n \in DOMAIN kinds :
         IF n \in {"account"}
           THEN DemandFits("account_info", n, kinds[n])
           ELSE OptionFits("account_info", n, kinds[n])
  BY <1>1, <1>2, TextDemanded, FlagsFit DEF booleans
<1> QED
  BY <1>1, <1>2, <1>3 DEF Agrees, kinds

\* The parameters of account_balance: the schema and the validator agree.
LEMMA AccountBalanceAgrees == MethodAgrees("account_balance")
<1> SUFFICES ASSUME NEW s \in ParamsSchemas["AccountBalanceParams"]
             PROVE  Agrees("account_balance", s)
  BY ParamsAt DEF MethodAgrees, Registry, ParamsSchemas
<1> DEFINE kinds == s.properties
<1>1. /\ s.required = {"account"}
      /\ DOMAIN kinds = {"account", "include_only_confirmed"}
      /\ kinds["account"] = Filled
      /\ \A n \in {"include_only_confirmed"} : kinds[n] = {"flag"}
  BY DEF ParamsSchemas, Object, @@, Flags, Each
<1>2. /\ required["account_balance"] = "account"
      /\ Needs("account_balance") = {"account"}
  BY RequiredAt DEF Needs
<1> HIDE DEF kinds
<1>3. \A n \in DOMAIN kinds :
         IF n \in {"account"}
           THEN DemandFits("account_balance", n, kinds[n])
           ELSE OptionFits("account_balance", n, kinds[n])
  BY <1>1, <1>2, TextDemanded, FlagsFit DEF booleans
<1> QED
  BY <1>1, <1>2, <1>3 DEF Agrees, kinds

\* The parameters of receivable: the schema and the validator agree.
LEMMA ReceivableAgrees == MethodAgrees("receivable")
<1> SUFFICES ASSUME NEW s \in ParamsSchemas["ReceivableParams"]
             PROVE  Agrees("receivable", s)
  BY ParamsAt DEF MethodAgrees, Registry, ParamsSchemas
<1> DEFINE kinds == s.properties
<1>1. /\ s.required = {"account"}
      /\ DOMAIN kinds = {"account", "min_version", "count", "threshold",
                         "source", "include_active", "sorting",
                         "include_only_confirmed"}
      /\ kinds["account"] = Filled
      /\ kinds["min_version"] = Wholes
      /\ kinds["count"] = Count
      /\ kinds["threshold"] = Strings
      /\ \A n \in {"source", "include_active", "sorting",
                   "include_only_confirmed"} :
            kinds[n] = {"flag"}
  BY DEF ParamsSchemas, Object, @@, Flags, Each
<1>2. /\ required["receivable"] = "account"
      /\ Needs("receivable") = {"account"}
  BY RequiredAt DEF Needs
<1> HIDE DEF kinds
<1>3. \A n \in DOMAIN kinds :
         IF n \in {"account"}
           THEN DemandFits("receivable", n, kinds[n])
           ELSE OptionFits("receivable", n, kinds[n])
  BY <1>1, <1>2, TextDemanded, CountFits, ThresholdFits, WholesFit, FlagsFit
     DEF booleans
<1> QED
  BY <1>1, <1>2, <1>3 DEF Agrees, kinds

\* The parameters of account_history: the schema and the validator agree.
LEMMA AccountHistoryAgrees == MethodAgrees("account_history")
<1> SUFFICES ASSUME NEW s \in ParamsSchemas["AccountHistoryParams"]
             PROVE  Agrees("account_history", s)
  BY ParamsAt DEF MethodAgrees, Registry, ParamsSchemas
<1> DEFINE kinds == s.properties
<1>1. /\ s.required = {"account"}
      /\ DOMAIN kinds = {"account", "head", "count", "offset",
                         "account_filter", "reverse", "raw",
                         "include_linked_account"}
      /\ kinds["account"] = Filled
      /\ kinds["head"] = {"apt"}
      /\ kinds["count"] = Count
      /\ kinds["offset"] = Wholes
      /\ kinds["account_filter"] = Lists
      /\ \A n \in {"reverse", "raw", "include_linked_account"} :
            kinds[n] = {"flag"}
  BY DEF ParamsSchemas, Object, @@, Flags, Each
<1>2. /\ required["account_history"] = "account"
      /\ Needs("account_history") = {"account"}
  BY RequiredAt DEF Needs
<1> HIDE DEF kinds
<1>3. \A n \in DOMAIN kinds :
         IF n \in {"account"}
           THEN DemandFits("account_history", n, kinds[n])
           ELSE OptionFits("account_history", n, kinds[n])
  BY <1>1, <1>2, TextDemanded, CountFits, FilterFits, HeadFits, WholesFit,
     FlagsFit DEF booleans
<1> QED
  BY <1>1, <1>2, <1>3 DEF Agrees, kinds

\* The parameters of accounts_balances: the schema and the validator agree.
LEMMA AccountsBalancesAgrees == MethodAgrees("accounts_balances")
<1> SUFFICES ASSUME NEW s \in ParamsSchemas["AccountsParams"]
             PROVE  Agrees("accounts_balances", s)
  BY ParamsAt DEF MethodAgrees, Registry, ParamsSchemas
<1> DEFINE kinds == s.properties
<1>1. /\ s.required = {"accounts"}
      /\ DOMAIN kinds = {"accounts", "include_only_confirmed"}
      /\ kinds["accounts"] = {"list"}
      /\ \A n \in {"include_only_confirmed"} : kinds[n] = {"flag"}
  BY DEF ParamsSchemas, Object, @@, Flags, Each
<1>2. /\ required["accounts_balances"] = "accounts"
      /\ Needs("accounts_balances") = {"accounts"}
  BY RequiredAt DEF Needs
<1> HIDE DEF kinds
<1>3. \A n \in DOMAIN kinds :
         IF n \in {"accounts"}
           THEN DemandFits("accounts_balances", n, kinds[n])
           ELSE OptionFits("accounts_balances", n, kinds[n])
  BY <1>1, <1>2, ListDemanded, FlagsFit DEF booleans
<1> QED
  BY <1>1, <1>2, <1>3 DEF Agrees, kinds

\* The parameters of accounts_frontiers: the schema and the validator agree.
LEMMA AccountsFrontiersAgrees == MethodAgrees("accounts_frontiers")
<1> SUFFICES ASSUME NEW s \in ParamsSchemas["AccountsFrontiersParams"]
             PROVE  Agrees("accounts_frontiers", s)
  BY ParamsAt DEF MethodAgrees, Registry, ParamsSchemas
<1> DEFINE kinds == s.properties
<1>1. /\ s.required = {"accounts"}
      /\ DOMAIN kinds = {"accounts"}
      /\ kinds["accounts"] = {"list"}
  BY DEF ParamsSchemas, Object, @@, Flags, Each
<1>2. /\ required["accounts_frontiers"] = "accounts"
      /\ Needs("accounts_frontiers") = {"accounts"}
  BY RequiredAt DEF Needs
<1> HIDE DEF kinds
<1>3. \A n \in DOMAIN kinds :
         IF n \in {"accounts"}
           THEN DemandFits("accounts_frontiers", n, kinds[n])
           ELSE OptionFits("accounts_frontiers", n, kinds[n])
  BY <1>1, <1>2, ListDemanded
<1> QED
  BY <1>1, <1>2, <1>3 DEF Agrees, kinds

\* The parameters of accounts_receivable: the schema and the validator agree.
LEMMA AccountsReceivableAgrees == MethodAgrees("accounts_receivable")
<1> SUFFICES ASSUME NEW s \in ParamsSchemas["AccountsReceivableParams"]
             PROVE  Agrees("accounts_receivable", s)
  BY ParamsAt DEF MethodAgrees, Registry, ParamsSchemas
<1> DEFINE kinds == s.properties
<1>1. /\ s.required = {"accounts"}
      /\ DOMAIN kinds = {"accounts", "count", "threshold", "source",
                         "include_active", "sorting", "include_only_confirmed"}
      /\ kinds["accounts"] = {"list"}
      /\ kinds["count"] = Count
      /\ kinds["threshold"] = Strings
      /\ \A n \in {"source", "include_active", "sorting",
                   "include_only_confirmed"} :
            kinds[n] = {"flag"}
  BY DEF ParamsSchemas, Object, @@, Flags, Each
<1>2. /\ required["accounts_receivable"] = "accounts"
      /\ Needs("accounts_receivable") = {"accounts"}
  BY RequiredAt DEF Needs
<1> HIDE DEF kinds
<1>3. \A n \in DOMAIN kinds :
         IF n \in {"accounts"}
           THEN DemandFits("accounts_receivable", n, kinds[n])
           ELSE OptionFits("accounts_receivable", n, kinds[n])
  BY <1>1, <1>2, ListDemanded, CountFits, ThresholdFits, FlagsFit DEF
     booleans
<1> QED
  BY <1>1, <1>2, <1>3 DEF Agrees, kinds

\* The parameters of blocks_info: the schema and the validator agree.
LEMMA BlocksInfoAgrees == MethodAgrees("blocks_info")
<1> SUFFICES ASSUME NEW s \in ParamsSchemas["BlocksParams"]
             PROVE  Agrees("blocks_info", s)
  BY ParamsAt DEF MethodAgrees, Registry, ParamsSchemas
<1> DEFINE kinds == s.properties
<1>1. /\ s.required = {"hashes"}
      /\ DOMAIN kinds = {"hashes", "json_block", "include_not_found",
                         "receive_hash", "source", "include_linked_account"}
      /\ kinds["hashes"] = {"list"}
      /\ \A n \in {"json_block", "include_not_found", "receive_hash",
                   "source", "include_linked_account"} :
            kinds[n] = {"flag"}
  BY DEF ParamsSchemas, Object, @@, Flags, Each
<1>2. /\ required["blocks_info"] = "hashes"
      /\ Needs("blocks_info") = {"hashes"}
  BY RequiredAt DEF Needs
<1> HIDE DEF kinds
<1>3. \A n \in DOMAIN kinds :
         IF n \in {"hashes"}
           THEN DemandFits("blocks_info", n, kinds[n])
           ELSE OptionFits("blocks_info", n, kinds[n])
  BY <1>1, <1>2, ListDemanded, FlagsFit DEF booleans
<1> QED
  BY <1>1, <1>2, <1>3 DEF Agrees, kinds

\* The parameters of block_info: the schema and the validator agree.
LEMMA BlockInfoAgrees == MethodAgrees("block_info")
<1> SUFFICES ASSUME NEW s \in ParamsSchemas["BlockParams"]
             PROVE  Agrees("block_info", s)
  BY ParamsAt DEF MethodAgrees, Registry, ParamsSchemas
<1> DEFINE kinds == s.properties
<1>1. /\ s.required = {"hash"}
      /\ DOMAIN kinds = {"hash", "json_block", "include_linked_account"}
      /\ kinds["hash"] = Filled
      /\ \A n \in {"json_block", "include_linked_account"} : kinds[n] = {"flag"}
  BY DEF ParamsSchemas, Object, @@, Flags, Each
<1>2. /\ required["block_info"] = "hash"
      /\ Needs("block_info") = {"hash"}
  BY RequiredAt DEF Needs
<1> HIDE DEF kinds
<1>3. \A n \in DOMAIN kinds :
         IF n \in {"hash"}
           THEN DemandFits("block_info", n, kinds[n])
           ELSE OptionFits("block_info", n, kinds[n])
  BY <1>1, <1>2, TextDemanded, FlagsFit DEF booleans
<1> QED
  BY <1>1, <1>2, <1>3 DEF Agrees, kinds

\* The parameters of block_confirm: the schema and the validator agree.
LEMMA BlockConfirmAgrees == MethodAgrees("block_confirm")
<1> SUFFICES ASSUME NEW s \in ParamsSchemas["BlockConfirmParams"]
             PROVE  Agrees("block_confirm", s)
  BY ParamsAt DEF MethodAgrees, Registry, ParamsSchemas
<1> DEFINE kinds == s.properties
<1>1. /\ s.required = {"hash"}
      /\ DOMAIN kinds = {"hash"}
      /\ kinds["hash"] = Filled
  BY DEF ParamsSchemas, Object, @@, Flags, Each
<1>2. /\ required["block_confirm"] = "hash"
      /\ Needs("block_confirm") = {"hash"}
  BY RequiredAt DEF Needs
<1> HIDE DEF kinds
<1>3. \A n \in DOMAIN kinds :
         IF n \in {"hash"}
           THEN DemandFits("block_confirm", n, kinds[n])
           ELSE OptionFits("block_confirm", n, kinds[n])
  BY <1>1, <1>2, TextDemanded
<1> QED
  BY <1>1, <1>2, <1>3 DEF Agrees, kinds

\* The parameters of process: the schema and the validator agree.
LEMMA ProcessAgrees == MethodAgrees("process")
<1> SUFFICES ASSUME NEW s \in ParamsSchemas["ProcessParams"]
             PROVE  Agrees("process", s)
  BY ParamsAt DEF MethodAgrees, Registry, ParamsSchemas
<1> DEFINE kinds == s.properties
<1>1. /\ s.required = {"block"}
      /\ DOMAIN kinds = {"block", "subtype", "force", "async", "json_block"}
      /\ kinds["block"] = {"object"}
      /\ kinds["subtype"] = {"apt"}
      /\ \A n \in {"force", "async", "json_block"} : kinds[n] = {"flag"}
  BY DEF ParamsSchemas, Object, @@, Flags, Each
<1>2. /\ required["process"] = "block"
      /\ Needs("process") = {"block"}
  BY RequiredAt DEF Needs
<1> HIDE DEF kinds
<1>3. \A n \in DOMAIN kinds :
         IF n \in {"block"}
           THEN DemandFits("process", n, kinds[n])
           ELSE OptionFits("process", n, kinds[n])
  BY <1>1, <1>2, BlockDemanded, AptFits, FlagsFit DEF booleans
<1> QED
  BY <1>1, <1>2, <1>3 DEF Agrees, kinds

\* The parameters of work_generate: the schema and the validator agree.
LEMMA WorkGenerateAgrees == MethodAgrees("work_generate")
<1> SUFFICES ASSUME NEW s \in ParamsSchemas["WorkGenerateParams"]
             PROVE  Agrees("work_generate", s)
  BY ParamsAt DEF MethodAgrees, Registry, ParamsSchemas
<1> DEFINE kinds == s.properties
<1>1. /\ s.required = {"hash"}
      /\ DOMAIN kinds = {"hash", "account", "block", "difficulty",
                         "multiplier", "version", "use_peers", "json_block"}
      /\ kinds["hash"] = Filled
      /\ kinds["account"] = Strings
      /\ kinds["block"] = Strings \cup {"object"}
      /\ kinds["difficulty"] = Strings
      /\ kinds["multiplier"] = Positives
      /\ kinds["version"] = {"apt"}
      /\ \A n \in {"use_peers", "json_block"} : kinds[n] = {"flag"}
  BY DEF ParamsSchemas, Object, @@, Flags, Each
<1>2. /\ required["work_generate"] = "hash"
      /\ Needs("work_generate") = {"hash"}
  BY RequiredAt DEF Needs
<1> HIDE DEF kinds
<1>3. \A n \in DOMAIN kinds :
         IF n \in {"hash"}
           THEN DemandFits("work_generate", n, kinds[n])
           ELSE OptionFits("work_generate", n, kinds[n])
  BY <1>1, <1>2, TextDemanded, AptFits, BlockFits, MultiplierFits,
     StringsFit, FlagsFit DEF booleans
<1> QED
  BY <1>1, <1>2, <1>3 DEF Agrees, kinds

\* The parameters of work_cancel: the schema and the validator agree.
LEMMA WorkCancelAgrees == MethodAgrees("work_cancel")
<1> SUFFICES ASSUME NEW s \in ParamsSchemas["WorkCancelParams"]
             PROVE  Agrees("work_cancel", s)
  BY ParamsAt DEF MethodAgrees, Registry, ParamsSchemas
<1> DEFINE kinds == s.properties
<1>1. /\ s.required = {"hash"}
      /\ DOMAIN kinds = {"hash"}
      /\ kinds["hash"] = Filled
  BY DEF ParamsSchemas, Object, @@, Flags, Each
<1>2. /\ required["work_cancel"] = "hash"
      /\ Needs("work_cancel") = {"hash"}
  BY RequiredAt DEF Needs
<1> HIDE DEF kinds
<1>3. \A n \in DOMAIN kinds :
         IF n \in {"hash"}
           THEN DemandFits("work_cancel", n, kinds[n])
           ELSE OptionFits("work_cancel", n, kinds[n])
  BY <1>1, <1>2, TextDemanded
<1> QED
  BY <1>1, <1>2, <1>3 DEF Agrees, kinds

\* The parameters of work_validate: the schema and the validator agree.
LEMMA WorkValidateAgrees == MethodAgrees("work_validate")
<1> SUFFICES ASSUME NEW s \in ParamsSchemas["WorkValidateParams"]
             PROVE  Agrees("work_validate", s)
  BY ParamsAt DEF MethodAgrees, Registry, ParamsSchemas
<1> DEFINE kinds == s.properties
<1>1. /\ s.required = {"hash", "work"}
      /\ DOMAIN kinds = {"hash", "work", "difficulty", "multiplier",
                         "version"}
      /\ kinds["hash"] = Filled
      /\ kinds["work"] = Filled
      /\ kinds["difficulty"] = Strings
      /\ kinds["multiplier"] = Positives
      /\ kinds["version"] = {"apt"}
  BY DEF ParamsSchemas, Object, @@, Flags, Each
<1>2. /\ required["work_validate"] = "hash"
      /\ Needs("work_validate") = {"hash", "work"}
  BY RequiredAt DEF Needs
<1> HIDE DEF kinds
<1>3. \A n \in DOMAIN kinds :
         IF n \in {"hash", "work"}
           THEN DemandFits("work_validate", n, kinds[n])
           ELSE OptionFits("work_validate", n, kinds[n])
  BY <1>1, <1>2, TextDemanded, AptFits, MultiplierFits, StringsFit,
     WorkDemanded
<1> QED
  BY <1>1, <1>2, <1>3 DEF Agrees, kinds

\* Schema and validator agree on every method that has parameters.
LEMMA AllAgree == \A method \in DOMAIN required : MethodAgrees(method)
  BY RequiredNames, RegistryNames, AccountInfoAgrees, AccountBalanceAgrees,
     ReceivableAgrees, AccountHistoryAgrees, AccountsBalancesAgrees,
     AccountsFrontiersAgrees, AccountsReceivableAgrees,
     BlocksInfoAgrees, BlockInfoAgrees, BlockConfirmAgrees,
     ProcessAgrees, WorkGenerateAgrees, WorkCancelAgrees,
     WorkValidateAgrees

-----------------------------------------------------------------------------
(* The document's parameter lists.                                         *)

\* Two methods take nothing.
LEMMA EmptyAt ==
    \A method \in {"version", "block_count"} :
        component_schemas[Registry[method].params]
            = Object({}, Each({}, Kind))
  BY ParamsAt DEF Registry, ParamsSchemas

\* The parameters of a method have one schema.
LEMMA OneSchema ==
    ASSUME NEW method \in DOMAIN Registry
    PROVE  \E s : component_schemas[Registry[method].params] = {s}
<1>1. Registry[method].params \in DOMAIN ParamsSchemas
  BY RegistryNames DEF Registry, ParamsSchemas
<1>2. ASSUME NEW name \in DOMAIN ParamsSchemas
      PROVE  \E s : ParamsSchemas[name] = {s}
  <2>1. \E r, q : ParamsSchemas[name] = Object(r, q)
    BY <1>2 DEF ParamsSchemas
  <2> QED
    BY <2>1 DEF Object
<1> QED
  BY <1>1, <1>2, ParamsAt

\* openrpc_params lists the fields of that schema.
LEMMA ListedParams ==
    ASSUME NEW method \in DOMAIN Registry
    PROVE  \E s \in component_schemas[Registry[method].params] :
               openrpc_params(method)
                 = {[name |-> p, required |-> p \in s.required,
                     kinds |-> s.properties[p]] : p \in DOMAIN s.properties}
<1>1. PICK s : component_schemas[Registry[method].params] = {s}
  BY OneSchema
<1> DEFINE ListOf(t) == {[name |-> p, required |-> p \in t.required,
                           kinds |-> t.properties[p]]
                           : p \in DOMAIN t.properties}
<1>2. openrpc_params(method) = UNION {ListOf(t) : t \in {s}}
  BY <1>1 DEF openrpc_params
<1>3. UNION {ListOf(t) : t \in {s}} = ListOf(s)
  <2> HIDE DEF ListOf
  <2> QED
    OBVIOUS
<1> QED
  BY <1>1, <1>2, <1>3

\* The values that Narrowed names are those the validator refuses.
LEMMA NarrowedIsRefused ==
    ASSUME NEW c, ~Narrowed(c), NEW n \in DOMAIN c.params
    PROVE  c.params[n] \notin Refused(n)
  BY DEF Narrowed

\* A call that keeps to the document is valid, but for the values that only the
\* validator refuses (validate_params against openrpc_params).
LEMMA DocumentedIsValid ==
    ASSUME NEW c, c.method \in DOMAIN Registry, Documented(c), ~Narrowed(c)
    PROVE  c.object /\ validate_params(c.method, c.params)
<1>1. PICK s \in component_schemas[Registry[c.method].params] :
         openrpc_params(c.method)
           = {[name |-> p, required |-> p \in s.required,
               kinds |-> s.properties[p]] : p \in DOMAIN s.properties}
  BY ListedParams
<1>2. /\ c.object
      /\ DOMAIN c.params \subseteq DOMAIN s.properties
      /\ \A n \in DOMAIN s.properties :
            IF n \in DOMAIN c.params THEN c.params[n] \in s.properties[n]
                                     ELSE n \notin s.required
  <2> DEFINE Entry(n) == [name |-> n, required |-> n \in s.required,
                          kinds |-> s.properties[n]]
             list == openrpc_params(c.method)
  <2>1. list = {Entry(n) : n \in DOMAIN s.properties}
    BY <1>1
  <2>2. \A n : /\ Entry(n).name = n /\ Entry(n).kinds = s.properties[n]
               /\ Entry(n).required <=> n \in s.required
    OBVIOUS
  <2> HIDE DEF Entry, list
  <2>3. {p.name : p \in list} = DOMAIN s.properties
    BY <2>1, <2>2
  <2>4. \A n \in DOMAIN s.properties : Entry(n) \in list
    BY <2>1
  <2> QED
    BY <2>2, <2>3, <2>4 DEF Documented, list
<1>3. CASE c.method \notin DOMAIN required
  <2>1. s.properties = Each({}, Kind)
    BY <1>3, RequiredNames, EmptyAt DEF Object
  <2> QED
    BY <1>2, <1>3, <2>1 DEF validate_params, Each
<1>4. CASE c.method \in DOMAIN required
  <2>1. Agrees(c.method, s)
    BY <1>4, AllAgree DEF MethodAgrees
  <2>2. ASSUME NEW n \in DOMAIN c.params
        PROVE  c.params[n] \in OptionKinds(c.method, n)
    <3>1. c.params[n] \in s.properties[n] \ Refused(n)
      BY <1>2, NarrowedIsRefused
    <3> QED
      BY <1>2, <2>1, <3>1 DEF Agrees, OptionFits, DemandFits
  <2>3. ASSUME NEW n \in Needs(c.method)
        PROVE  n \in DOMAIN c.params /\ c.params[n] \in Demanded(c.method, n)
    BY <1>2, <2>1 DEF Agrees, DemandFits
  <2>4. /\ required[c.method] \in DOMAIN c.params
        /\ c.params[required[c.method]] \in RequiredKinds(required[c.method])
    BY <2>3 DEF Needs, Demanded
  <2>5. c.method = "work_validate" =>
            "work" \in DOMAIN c.params /\ c.params["work"] \in Filled
    BY <2>3, RequiredAt DEF Needs, Demanded
  <2> QED
    BY <1>2, <2>1, <2>2, <2>4, <2>5 DEF validate_params, Agrees
<1> QED
  BY <1>2, <1>3, <1>4

\* A valid call has what the document requires, and strays from it only where
\* any string will do.
LEMMA ValidIsDocumented ==
    ASSUME NEW method \in DOMAIN Registry, NEW params,
           validate_params(method, params),
           NEW p \in openrpc_params(method)
    PROVE  IF p.required
             THEN p.name \in DOMAIN params /\ params[p.name] \in p.kinds
             ELSE p.name \in DOMAIN params =>
                    \/ params[p.name] \in p.kinds
                    \/ /\ p.kinds = {"flag"} \/ p.name = "head"
                       /\ params[p.name] \in Strings
<1> PICK s \in component_schemas[Registry[method].params] :
         openrpc_params(method)
           = {[name |-> q, required |-> q \in s.required,
               kinds |-> s.properties[q]] : q \in DOMAIN s.properties}
  BY ListedParams
<1>1. PICK n \in DOMAIN s.properties :
         p = [name |-> n, required |-> n \in s.required,
              kinds |-> s.properties[n]]
  OBVIOUS
<1>2. method \in DOMAIN required
  <2> SUFFICES ASSUME method \notin DOMAIN required PROVE FALSE
    OBVIOUS
  <2> QED
    BY <1>1, RequiredNames, EmptyAt DEF Object, Each
<1>3. Agrees(method, s)
  BY <1>1, <1>2, AllAgree DEF MethodAgrees
<1>4. CASE n \in s.required
  <2>1. s.properties[n] = Demanded(method, n) /\ n \in Needs(method)
    BY <1>3, <1>4 DEF Agrees, DemandFits
  <2>2. n \in DOMAIN params /\ params[n] \in Demanded(method, n)
    BY <1>2, <2>1 DEF validate_params, Needs, Demanded
  <2> QED
    BY <1>1, <1>4, <2>1, <2>2
<1>5. CASE n \notin s.required
  <2>1. OptionFits(method, n, s.properties[n])
    BY <1>3, <1>5 DEF Agrees
  <2>2. n \in DOMAIN params => params[n] \in OptionKinds(method, n)
    BY <1>2 DEF validate_params
  <2>3. n \in DOMAIN params =>
            params[n] \in s.properties[n] \cup Astray(n, s.properties[n])
    BY <2>1, <2>2 DEF OptionFits
  <2>4. n \in DOMAIN params =>
            \/ params[n] \in s.properties[n]
            \/ /\ s.properties[n] = {"flag"} \/ n = "head"
               /\ params[n] \in Strings
    BY <2>3 DEF Astray
  <2> QED
    BY <1>1, <1>5, <2>4
<1> QED
  BY <1>4, <1>5

-----------------------------------------------------------------------------
(* The results of each method (component_schemas, validate_result).        *)

\* A result that passes has the field, as the schema or the tolerance allows.
FieldChecked(method, name, kinds) ==
    \A value : validate_result(method, value) =>
        Present(value, name, kinds \cup Tolerated(Registry[method].result, name))

ResultChecked(method) ==
    \E s \in component_schemas[Registry[method].result] :
        \A name \in s.required : FieldChecked(method, name, s.properties[name])

\* What is checked as a string is one that is not empty.
LEMMA StringChecked ==
    ASSUME NEW method, NEW name \in has_string(method)
    PROVE  FieldChecked(method, name, Strings)
<1> SUFFICES ASSUME NEW value, validate_result(method, value)
             PROVE  Present(value, name,
                            Strings \cup Tolerated(Registry[method].result, name))
  BY DEF FieldChecked
<1>1. validate_fields(method, value)
  BY DEF validate_result
<1>2. Present(value, name, Filled)
  BY <1>1 DEF validate_fields
<1> QED
  BY <1>2 DEF Present, Filled, Strings

\* A result of version that passes has what its schema requires.
LEMMA VersionChecked == ResultChecked("version")
<1> PICK s \in ResultSchemas["VersionResult"] : TRUE
  BY DEF ResultSchemas, Object
<1> DEFINE kinds == s.properties
<1>1. s \in component_schemas[Registry["version"].result]
  BY ResultsAt DEF Registry, ResultSchemas
<1>2. /\ s.required = {"rpc_version"}
      /\ \A n \in {"rpc_version"} : kinds[n] = Strings
  BY DEF ResultSchemas, Object, @@, Each
<1> QED
  BY <1>1, <1>2, StringChecked DEF ResultChecked, has_string

\* A result of block_count that passes has what its schema requires.
LEMMA BlockCountChecked == ResultChecked("block_count")
<1> PICK s \in ResultSchemas["BlockCountResult"] : TRUE
  BY DEF ResultSchemas, Object
<1> DEFINE kinds == s.properties
<1>1. s \in component_schemas[Registry["block_count"].result]
  BY ResultsAt DEF Registry, ResultSchemas
<1>2. /\ s.required = {"count", "unchecked", "cemented"}
      /\ \A n \in {"count", "unchecked", "cemented"} : kinds[n] = Strings
  BY DEF ResultSchemas, Object, @@, Each
<1> QED
  BY <1>1, <1>2, StringChecked DEF ResultChecked, has_string

\* A result of account_info that passes has what its schema requires.
LEMMA AccountInfoChecked == ResultChecked("account_info")
<1> PICK s \in ResultSchemas["AccountInfoResult"] : TRUE
  BY DEF ResultSchemas, Object
<1> DEFINE kinds == s.properties
<1>1. s \in component_schemas[Registry["account_info"].result]
  BY ResultsAt DEF Registry, ResultSchemas
<1>2. /\ s.required = {"frontier", "open_block", "representative_block",
                      "balance", "modified_timestamp", "block_count",
                      "account_version"}
      /\ \A n \in {"frontier", "open_block", "representative_block",
                   "balance", "modified_timestamp", "block_count",
                   "account_version"} :
            kinds[n] = Strings
  BY DEF ResultSchemas, Object, @@, Each
<1> QED
  BY <1>1, <1>2, StringChecked DEF ResultChecked, has_string

\* A result of account_balance that passes has what its schema requires.
LEMMA AccountBalanceChecked == ResultChecked("account_balance")
<1> PICK s \in ResultSchemas["AccountBalanceResult"] : TRUE
  BY DEF ResultSchemas, Object
<1> DEFINE kinds == s.properties
<1>1. s \in component_schemas[Registry["account_balance"].result]
  BY ResultsAt DEF Registry, ResultSchemas
<1>2. /\ s.required = {"balance", "receivable"}
      /\ \A n \in {"balance", "receivable"} : kinds[n] = Strings
  BY DEF ResultSchemas, Object, @@, Each
<1> QED
  BY <1>1, <1>2, StringChecked DEF ResultChecked, has_string

\* A result of accounts_balances that passes has what its schema requires.
LEMMA AccountsBalancesChecked == ResultChecked("accounts_balances")
<1> PICK s \in ResultSchemas["AccountsBalancesResult"] : TRUE
  BY DEF ResultSchemas, Object
<1> DEFINE kinds == s.properties
<1>1. s \in component_schemas[Registry["accounts_balances"].result]
  BY ResultsAt DEF Registry, ResultSchemas
<1>2. s.required = {}
  BY DEF ResultSchemas, Object, @@, Each
<1> QED
  BY <1>1, <1>2 DEF ResultChecked

\* A result of accounts_frontiers that passes has what its schema requires.
LEMMA AccountsFrontiersChecked == ResultChecked("accounts_frontiers")
<1> PICK s \in ResultSchemas["AccountsFrontiersResult"] : TRUE
  BY DEF ResultSchemas, Object
<1> DEFINE kinds == s.properties
<1>1. s \in component_schemas[Registry["accounts_frontiers"].result]
  BY ResultsAt DEF Registry, ResultSchemas
<1>2. s.required = {}
  BY DEF ResultSchemas, Object, @@, Each
<1> QED
  BY <1>1, <1>2 DEF ResultChecked

\* A result of block_info that passes has what its schema requires.
LEMMA BlockInfoChecked == ResultChecked("block_info")
<1> PICK s \in ResultSchemas["BlockInfoResult"] : TRUE
  BY DEF ResultSchemas, Object
<1> DEFINE kinds == s.properties
<1>1. s \in component_schemas[Registry["block_info"].result]
  BY ResultsAt DEF Registry, ResultSchemas
<1>2. /\ s.required = {"block_account", "amount", "balance", "height",
                      "local_timestamp", "confirmed"}
      /\ \A n \in {"block_account", "amount", "balance", "height",
                   "local_timestamp"} :
            kinds[n] = Strings
      /\ kinds["confirmed"] = Strings
  BY DEF ResultSchemas, Object, @@, Each
<1>3. FieldChecked("block_info", "confirmed", Strings)
  BY DEF FieldChecked, validate_result, validate_fields, Present, Tolerated,
         Registry, Strings
<1> QED
  BY <1>1, <1>2, <1>3, StringChecked DEF ResultChecked, has_string

\* A result of blocks_info that passes has what its schema requires.
LEMMA BlocksInfoChecked == ResultChecked("blocks_info")
<1> PICK s \in ResultSchemas["BlocksInfoResult"] : TRUE
  BY DEF ResultSchemas, Object
<1> DEFINE kinds == s.properties
<1>1. s \in component_schemas[Registry["blocks_info"].result]
  BY ResultsAt DEF Registry, ResultSchemas
<1>2. /\ s.required = {"blocks"}
      /\ kinds["blocks"] = {"object"}
  BY DEF ResultSchemas, Object, @@, Each
<1>3. FieldChecked("blocks_info", "blocks", {"object"})
  BY DEF FieldChecked, validate_result, validate_fields, Present
<1> QED
  BY <1>1, <1>2, <1>3 DEF ResultChecked

\* A result of block_confirm that passes has what its schema requires.
LEMMA BlockConfirmChecked == ResultChecked("block_confirm")
<1> PICK s \in ResultSchemas["BlockConfirmResult"] : TRUE
  BY DEF ResultSchemas, Object
<1> DEFINE kinds == s.properties
<1>1. s \in component_schemas[Registry["block_confirm"].result]
  BY ResultsAt DEF Registry, ResultSchemas
<1>2. /\ s.required = {"started"}
      /\ kinds["started"] = {"apt"}
  BY DEF ResultSchemas, Object, @@, Each
<1>3. FieldChecked("block_confirm", "started", {"apt"})
  BY DEF FieldChecked, validate_result, validate_fields, Present
<1> QED
  BY <1>1, <1>2, <1>3 DEF ResultChecked

\* A result of process that passes has what its schema requires.
LEMMA ProcessChecked == ResultChecked("process")
<1> PICK s \in WorkAndListSchemas["ProcessResult"] : s.required = {"hash"}
  <2>1. [required |-> {"hash"}, properties |-> Each({"hash"}, Strings)]
            \in WorkAndListSchemas["ProcessResult"]
    BY DEF WorkAndListSchemas, Object
  <2> QED
    BY <2>1
<1> DEFINE kinds == s.properties
<1>1. s \in component_schemas[Registry["process"].result]
  BY OthersAt DEF Registry, WorkAndListSchemas
<1>2. /\ s.required = {"hash"}
      /\ \A n \in {"hash"} : kinds[n] = Strings
  BY DEF WorkAndListSchemas, Object, @@, Each
<1> QED
  BY <1>1, <1>2, StringChecked DEF ResultChecked, has_string

\* A result of work_generate that passes has what its schema requires.
LEMMA WorkGenerateChecked == ResultChecked("work_generate")
<1> PICK s \in WorkAndListSchemas["WorkGenerateResult"] : TRUE
  BY DEF WorkAndListSchemas, Object
<1> DEFINE kinds == s.properties
<1>1. s \in component_schemas[Registry["work_generate"].result]
  BY OthersAt DEF Registry, WorkAndListSchemas
<1>2. /\ s.required = {"work", "difficulty", "multiplier", "hash"}
      /\ \A n \in {"work", "difficulty", "multiplier", "hash"} :
            kinds[n] = Strings
  BY DEF WorkAndListSchemas, Object, @@, Each
<1> QED
  BY <1>1, <1>2, StringChecked DEF ResultChecked, has_string

\* A result of work_cancel that passes has what its schema requires.
LEMMA WorkCancelChecked == ResultChecked("work_cancel")
<1> PICK s \in WorkAndListSchemas["WorkCancelResult"] : TRUE
  BY DEF WorkAndListSchemas, Object
<1> DEFINE kinds == s.properties
<1>1. s \in component_schemas[Registry["work_cancel"].result]
  BY OthersAt DEF Registry, WorkAndListSchemas
<1>2. /\ s.required = {"success"}
      /\ kinds["success"] = {"empty"}
  BY DEF WorkAndListSchemas, Object, @@, Each
<1>3. FieldChecked("work_cancel", "success", {"empty"})
  BY DEF FieldChecked, validate_result, validate_fields, Present
<1> QED
  BY <1>1, <1>2, <1>3 DEF ResultChecked

\* A result of work_validate that passes has what its schema requires.
LEMMA WorkValidateChecked == ResultChecked("work_validate")
<1> PICK s \in WorkAndListSchemas["WorkValidateResult"] : TRUE
  BY DEF WorkAndListSchemas, Object
<1> DEFINE kinds == s.properties
<1>1. s \in component_schemas[Registry["work_validate"].result]
  BY OthersAt DEF Registry, WorkAndListSchemas
<1>2. /\ s.required = {"difficulty", "multiplier", "valid_all",
                      "valid_receive"}
      /\ \A n \in {"difficulty", "multiplier"} : kinds[n] = Strings
      /\ kinds["valid_all"] = {"apt"}
      /\ kinds["valid_receive"] = {"apt"}
  BY DEF WorkAndListSchemas, Object, @@, Each
<1>3. FieldChecked("work_validate", "valid_all", {"apt"})
  BY DEF FieldChecked, validate_result, validate_fields, has_string, Present,
         Tolerated, Registry, Filled
<1>4. FieldChecked("work_validate", "valid_receive", {"apt"})
  BY DEF FieldChecked, validate_result, validate_fields, has_string, Present,
         Tolerated, Registry, Filled
<1> QED
  BY <1>1, <1>2, <1>3, <1>4, StringChecked DEF ResultChecked, has_string

\* A result of account_history that passes has what its schema requires.
LEMMA AccountHistoryChecked == ResultChecked("account_history")
<1> PICK s \in WorkAndListSchemas["AccountHistoryResult"] : TRUE
  BY DEF WorkAndListSchemas, Object
<1> DEFINE kinds == s.properties
<1>1. s \in component_schemas[Registry["account_history"].result]
  BY OthersAt DEF Registry, WorkAndListSchemas
<1>2. /\ s.required = {"account", "history"}
      /\ \A n \in {"account"} : kinds[n] = Strings
      /\ kinds["history"] = {"list"}
  BY DEF WorkAndListSchemas, Object, @@, Each
<1>3. FieldChecked("account_history", "history", {"list"})
  BY DEF FieldChecked, validate_result, validate_fields, Present
<1> QED
  BY <1>1, <1>2, <1>3, StringChecked DEF ResultChecked, has_string

\* A result of receivable that passes has what its schema requires.
LEMMA ReceivableChecked == ResultChecked("receivable")
<1> PICK s \in WorkAndListSchemas["ReceivableResult"] : TRUE
  BY DEF WorkAndListSchemas, Object
<1> DEFINE kinds == s.properties
<1>1. s \in component_schemas[Registry["receivable"].result]
  BY OthersAt DEF Registry, WorkAndListSchemas
<1>2. /\ s.required = {"blocks"}
      /\ kinds["blocks"] = {"list", "object"}
  BY DEF WorkAndListSchemas, Object, @@, Each
<1>3. FieldChecked("receivable", "blocks", {"list", "object"})
  BY DEF FieldChecked, validate_result, receivable_value, Present, Tolerated,
         Registry
<1> QED
  BY <1>1, <1>2, <1>3 DEF ResultChecked

\* A result of accounts_receivable that passes has what its schema requires.
LEMMA AccountsReceivableChecked == ResultChecked("accounts_receivable")
<1> PICK s \in WorkAndListSchemas["AccountsReceivableResult"] : TRUE
  BY DEF WorkAndListSchemas, Object
<1> DEFINE kinds == s.properties
<1>1. s \in component_schemas[Registry["accounts_receivable"].result]
  BY OthersAt DEF Registry, WorkAndListSchemas
<1>2. /\ s.required = {"blocks"}
      /\ kinds["blocks"] = {"object"}
  BY DEF WorkAndListSchemas, Object, @@, Each
<1>3. FieldChecked("accounts_receivable", "blocks", {"object"})
  BY DEF FieldChecked, validate_result, validate_fields, Present
<1> QED
  BY <1>1, <1>2, <1>3 DEF ResultChecked

\* A result that passes has what its schema requires, whichever the method.
LEMMA AllFieldsChecked == \A method \in DOMAIN Registry : ResultChecked(method)
  BY RegistryNames,
     VersionChecked, BlockCountChecked, AccountInfoChecked,
     AccountBalanceChecked, AccountsBalancesChecked,
     AccountsFrontiersChecked, BlockInfoChecked, BlocksInfoChecked,
     BlockConfirmChecked, ProcessChecked, WorkGenerateChecked,
     WorkCancelChecked, WorkValidateChecked, AccountHistoryChecked,
     ReceivableChecked, AccountsReceivableChecked

\* So it is an object that keeps what the schema requires.
Checked(method) ==
    \A value : validate_result(method, value) =>
        Kept(Registry[method].result, value)

\* That is so for every method.
LEMMA AllChecked == \A method \in DOMAIN Registry : Checked(method)
<1> SUFFICES ASSUME NEW method \in DOMAIN Registry,
                    NEW value, validate_result(method, value)
             PROVE  Kept(Registry[method].result, value)
  BY DEF Checked
<1>1. value.kind = "object"
  BY DEF validate_result, validate_fields
<1>2. ResultChecked(method)
  BY AllFieldsChecked
<1> QED
  BY <1>1, <1>2 DEF ResultChecked, FieldChecked, Kept

-----------------------------------------------------------------------------
(* The entries of results.                                                 *)

\* A result that passes holds what its schema describes.
EntriesChecked(method) ==
    \A value : validate_result(method, value) =>
        EntriesKept(Registry[method].result, value)

\* An entry of blocks_info is looked at as a result of block_info is.
LEMMA BlockKept ==
    ASSUME NEW value, validate_fields("block_info", value)
    PROVE  Kept("BlockInfoResult", value)
<1>1. validate_result("block_info", value)
  BY DEF validate_result
<1>2. Checked("block_info") /\ Registry["block_info"].result = "BlockInfoResult"
  BY AllChecked, RegistryNames DEF Registry
<1> QED
  BY <1>1, <1>2 DEF Checked

\* An entry of accounts_balances is looked at as a result of account_balance is.
LEMMA BalanceKept ==
    ASSUME NEW value, validate_fields("account_balance", value)
    PROVE  Kept("AccountBalanceResult", value)
<1>1. validate_result("account_balance", value)
  BY DEF validate_result
<1>2. /\ Checked("account_balance")
      /\ Registry["account_balance"].result = "AccountBalanceResult"
  BY AllChecked, RegistryNames DEF Registry
<1> QED
  BY <1>1, <1>2 DEF Checked

\* An amount with its source is what the schema of it requires.
LEMMA SourceKept ==
    ASSUME NEW value, value.kind = "object",
           Present(value, "amount", Strings), Present(value, "source", Strings)
    PROVE  Kept("ReceivableSource", value)
<1> PICK s \in WorkAndListSchemas["ReceivableSource"] : TRUE
  BY DEF WorkAndListSchemas, Object
<1>1. s \in component_schemas["ReceivableSource"]
  BY OthersAt DEF WorkAndListSchemas
<1>2. /\ s.required = {"amount", "source"}
      /\ \A n \in {"amount", "source"} : s.properties[n] = Strings
  BY DEF WorkAndListSchemas, Object, Each
<1>3. \A n \in s.required :
         Present(value, n, s.properties[n] \cup Tolerated("ReceivableSource", n))
  BY <1>2 DEF Present
<1> QED
  BY <1>1, <1>3 DEF Kept

\* A set of receivable blocks that passes has one of the shapes, or two.
LEMMA ReceivablePasses ==
    ASSUME NEW value, receivable_value(value)
    PROVE  ReceivableKept(value)
<1>1. CASE value.kind = "list" /\ StringsOnly(value)
  BY <1>1 DEF ReceivableKept
<1>2. CASE value.kind = "empty"
  BY <1>2 DEF ReceivableKept
<1>3. CASE /\ value.kind = "object"
           /\ \A entry \in Entries(value) :
                 \/ entry.kind \in Strings
                 \/ /\ entry.kind = "object"
                    /\ Present(entry, "amount", Strings)
                    /\ Present(entry, "source", Strings)
  BY <1>3, SourceKept DEF ReceivableKept
<1> QED
  BY <1>1, <1>2, <1>3 DEF receivable_value

\* The entries of blocks_info: each is a block.
LEMMA BlocksInfoEntries == EntriesChecked("blocks_info")
<1> SUFFICES ASSUME NEW value, validate_result("blocks_info", value)
             PROVE  EntriesKept("BlocksInfoResult", value)
  BY DEF EntriesChecked, Registry
<1>1. \A item \in Entries(value.of["blocks"]) : validate_fields("block_info", item)
  BY DEF validate_result
<1> QED
  BY <1>1, BlockKept DEF EntriesKept

\* The entries of receivable: they are receivable blocks.
LEMMA ReceivableEntries == EntriesChecked("receivable")
<1> SUFFICES ASSUME NEW value, validate_result("receivable", value)
             PROVE  EntriesKept("ReceivableResult", value)
  BY DEF EntriesChecked, Registry
<1>1. receivable_value(value.of["blocks"])
  BY DEF validate_result
<1> QED
  BY <1>1, ReceivablePasses DEF EntriesKept

\* The entries of accounts_receivable: each is a set of receivable blocks.
LEMMA AccountsReceivableEntries == EntriesChecked("accounts_receivable")
<1> SUFFICES ASSUME NEW value, validate_result("accounts_receivable", value)
             PROVE  EntriesKept("AccountsReceivableResult", value)
  BY DEF EntriesChecked, Registry
<1>1. \A item \in Entries(value.of["blocks"]) : receivable_value(item)
  BY DEF validate_result
<1> QED
  BY <1>1, ReceivablePasses DEF EntriesKept

\* The entries of accounts_frontiers: both maps hold strings.
LEMMA AccountsFrontiersEntries == EntriesChecked("accounts_frontiers")
<1> SUFFICES ASSUME NEW value, validate_result("accounts_frontiers", value)
             PROVE  EntriesKept("AccountsFrontiersResult", value)
  BY DEF EntriesChecked, Registry
<1>1. \A name \in {"frontiers", "errors"} \cap DOMAIN value.of :
         Present(value, name, {"object"}) /\ StringsOnly(value.of[name])
  BY DEF validate_result
<1> QED
  BY <1>1 DEF EntriesKept, Present

\* The entries of accounts_balances: one of the two maps holds what it should.
LEMMA AccountsBalancesEntries == EntriesChecked("accounts_balances")
<1> SUFFICES ASSUME NEW value, validate_result("accounts_balances", value)
             PROVE  EntriesKept("AccountsBalancesResult", value)
  BY DEF EntriesChecked, Registry
<1>1. \A name \in {"balances", "errors"} \cap DOMAIN value.of :
         Present(value, name, {"object"})
  BY DEF validate_result
<1>2. \/ /\ Present(value, "balances", {"object"})
         /\ \A item \in Entries(value.of["balances"]) :
               validate_fields("account_balance", item)
      \/ /\ Present(value, "errors", {"object"})
         /\ StringsOnly(value.of["errors"])
  BY DEF validate_result
<1>3. \/ /\ "balances" \in DOMAIN value.of
         /\ \A item \in Entries(value.of["balances"]) :
               Kept("AccountBalanceResult", item)
      \/ "errors" \in DOMAIN value.of /\ StringsOnly(value.of["errors"])
  BY <1>2, BalanceKept DEF Present
<1> QED
  BY <1>1, <1>3 DEF EntriesKept, Present

\* A result that passes holds what its schema describes, whichever the method.
LEMMA AllEntriesChecked ==
    \A method \in DOMAIN Registry : EntriesChecked(method)
<1>1. ASSUME NEW method \in DOMAIN Registry
                   \ {"blocks_info", "receivable", "accounts_receivable",
                      "accounts_frontiers", "accounts_balances"}
      PROVE  EntriesChecked(method)
  <2>1. Registry[method].result
          \notin {"BlocksInfoResult", "ReceivableResult",
                  "AccountsReceivableResult", "AccountsFrontiersResult",
                  "AccountsBalancesResult"}
    BY RegistryNames DEF Registry
  <2> QED
    BY <2>1 DEF EntriesChecked, EntriesKept
<1> QED
  BY <1>1, BlocksInfoEntries, ReceivableEntries, AccountsReceivableEntries,
     AccountsFrontiersEntries, AccountsBalancesEntries

-----------------------------------------------------------------------------
(* What dispatch says to a call.                                           *)

\* The scopes of the registry; two methods have scope Common.
LEMMA Scopes ==
    \A method \in DOMAIN Registry :
        /\ Registry[method].scope \in {"Base", "Common", "Work", "Control"}
        /\ Registry[method].scope = "Common"
             <=> method \in {"process", "work_validate"}
  BY RegistryNames DEF Registry

Switches == [allow_work : BOOLEAN, allow_control : BOOLEAN,
             enable_discovery : BOOLEAN, require_common_auth : BOOLEAN]

\* A call is authorized exactly if its token grants what the document says the
\* method requires (x-nano-capability against the check of dispatch).
LEMMA RequiresIsAsked ==
    ASSUME NEW c \in Call, c.method \in DOMAIN Registry,
           config.switches \in Switches
    PROVE  Authorized(c) <=>
             ~(Rank[Granted(c)]
                 < Rank[capability(c.method, Registry[c.method].scope)])
<1> DEFINE scope == Registry[c.method].scope
<1>1. Granted(c) \in {"none", "common", "work", "control"}
  BY CallAssumption DEF Rank, Granted
<1>2. Rank[Granted(c)] \in 0 .. 3
  BY <1>1 DEF Rank
<1>3. /\ scope \in {"Base", "Common", "Work", "Control"}
      /\ scope = "Common" <=> c.method \in {"process", "work_validate"}
  BY Scopes
<1>4. config.switches.require_common_auth \in BOOLEAN
  BY DEF Switches
<1> HIDE DEF scope
<1>5. CASE scope = "Base"
  BY <1>2, <1>3, <1>5 DEF Authorized, capability, Rank, scope
<1>6. CASE scope = "Common"
  BY <1>2, <1>3, <1>4, <1>6 DEF Authorized, capability, Rank, scope
<1>7. CASE scope = "Work"
  BY <1>2, <1>3, <1>7 DEF Authorized, capability, Rank, scope
<1>8. CASE scope = "Control"
  BY <1>2, <1>3, <1>8 DEF Authorized, capability, Rank, scope
<1> QED
  BY <1>3, <1>5, <1>6, <1>7, <1>8

\* What a token is worth against what a method requires, with a key and without.
LEMMA CapabilityRanks ==
    ASSUME NEW c \in Call, c.method \in DOMAIN Registry
    PROVE  LET requires == capability(c.method, Registry[c.method].scope)
           IN  Rank[Granted(c)] < Rank[requires]
                 <=> \/ Rank[c.token] < Rank[requires]
                     \/ /\ requires # "none"
                        /\ config.fields.auth_public_key = "none"
<1> DEFINE requires == capability(c.method, Registry[c.method].scope)
<1>1. requires \in {"none", "common", "work", "control"}
  BY Scopes DEF capability
<1>2. c.token \in {"none", "common", "work", "control"}
  BY CallAssumption DEF Rank
<1> HIDE DEF requires
<1>3. /\ Rank[requires] \in 0 .. 3 /\ Rank[c.token] \in 0 .. 3
      /\ Rank["none"] = 0
      /\ Rank[requires] = 0 <=> requires = "none"
  BY <1>1, <1>2 DEF Rank
<1>4. CASE config.fields.auth_public_key = "none"
  <2>1. Granted(c) = "none"
    BY <1>4 DEF Granted
  <2> QED
    BY <1>3, <1>4, <2>1 DEF requires
<1>5. CASE config.fields.auth_public_key # "none"
  <2>1. Granted(c) = c.token
    BY <1>5 DEF Granted
  <2> QED
    BY <1>3, <1>5, <2>1 DEF requires
<1> QED
  BY <1>4, <1>5

\* Discovery is no method of the registry.
LEMMA DiscoverApart == "rpc.discover" \notin DOMAIN Registry
  BY RegistryNames

\* What a refusal tells of a call of the registry.
LEMMA RefusalOfMethod ==
    ASSUME NEW c \in Call, c.method \in DOMAIN Registry,
           config.switches \in Switches
    PROVE  /\ Refusal(c) \in {-32604, 401, -32602, 403, Unanswered}
           /\ Refusal(c) = -32604 <=> c.method \notin Included
           /\ c.method \in Included => (Refusal(c) = 401 <=> ~Authorized(c))
           /\ Refusal(c) = -32602 =>
                ~(c.object /\ validate_params(c.method, c.params))
           /\ Refusal(c) = 403 => GuardRefuses(c)
           /\ Refusal(c) = Unanswered =>
                c.object /\ validate_params(c.method, c.params)
<1>1. c.method # "rpc.discover"
  BY DiscoverApart
<1>2. c.object \in BOOLEAN
  BY CallAssumption
<1> DEFINE valid == c.object /\ validate_params(c.method, c.params)
           off == \/ Registry[c.method].scope = "Work"
                       /\ ~config.switches.allow_work
                  \/ Registry[c.method].scope = "Control"
                       /\ ~config.switches.allow_control
<1>3. Refusal(c) = IF off THEN -32604
                   ELSE IF ~Authorized(c) THEN 401
                   ELSE IF ~valid THEN -32602
                   ELSE IF GuardRefuses(c) THEN 403
                   ELSE Unanswered
  BY <1>1 DEF Refusal
<1>4. c.method \notin Included <=> off
  BY DEF Included, Switches
<1> HIDE DEF valid, off
<1>5. /\ Refusal(c) \in {-32604, 401, -32602, 403, Unanswered}
      /\ Refusal(c) = -32604 <=> off
      /\ ~off => (Refusal(c) = 401 <=> ~Authorized(c))
      /\ Refusal(c) = -32602 => ~valid
      /\ Refusal(c) = 403 => GuardRefuses(c)
      /\ Refusal(c) = Unanswered => valid
  BY <1>3 DEF Unanswered
<1> QED
  BY <1>4, <1>5 DEF valid

\* What a refusal tells of any other call.
LEMMA RefusalOfOther ==
    ASSUME NEW c \in Call, c.method \notin DOMAIN Registry,
           config.switches \in Switches
    PROVE  /\ Refusal(c) \in {200, -32601}
           /\ Refusal(c) = 200 <=> /\ c.method = "rpc.discover"
                                   /\ config.switches.enable_discovery
<1>1. config.switches.enable_discovery \in BOOLEAN
  BY DEF Switches
<1> QED
  BY <1>1 DEF Refusal

-----------------------------------------------------------------------------
(* The invariant.                                                          *)

\* A start that succeeded leaves a configuration that was checked.
ConfigInv ==
    /\ phase \in {"starting", "failed", "describing", "following", "serving",
                  "asking", "done"}
    /\ config.switches \in Switches
    /\ phase \in {"starting", "describing"} => source \in Source
    /\ phase = "describing" => Starts(source) /\ config = new(load(source))

Described == phase \in {"following", "serving", "asking", "done"}

\* The methods of the document are those the configuration includes.
MethodsInv ==
    Described =>
        /\ DOMAIN methods =
             Included \cup (IF config.switches.enable_discovery
                              THEN {"rpc.discover"} ELSE {})
        /\ \A name \in Included : methods[name] = openrpc_method(name)
        /\ "rpc.discover" \in DOMAIN methods =>
             methods["rpc.discover"] = discover

\* What the methods refer to.
Made == UNION {methods[m].refs : m \in DOMAIN methods}

\* Between two rounds of the loop: what is referred to is met or pending, and
\* what is met or pending is referred to.
FollowInv ==
    /\ phase \in {"starting", "describing"} => reachable = {}
    /\ phase = "following" =>
         /\ Made \subseteq pending \cup reachable
         /\ \A s \in reachable : References(s) \subseteq pending \cup reachable
         /\ pending \cup reachable
              \subseteq Made \cup UNION {References(s) : s \in reachable}
         /\ pending \cup reachable \subseteq DOMAIN component_schemas

\* An answer of a node was looked at as dispatch does.
Judged ==
    /\ result = normalize_work_generate_result(call.method, answer)
    /\ reply = IF validate_result(call.method, result) THEN 200 ELSE -32603

\* A reply is the refusal of the call, or a node was asked and answered, or the
\* local generator was and declined.
ReplyInv ==
    /\ phase \notin {"asking", "done"} => reply = Unanswered
    /\ phase \in {"asking", "done"} => call \in Call
    /\ phase = "asking" => reply = Unanswered /\ Refusal(call) = Unanswered
    /\ phase = "done" => \/ reply = Refusal(call) /\ reply # Unanswered
                         \/ Refusal(call) = Unanswered /\ Judged
                         \/ /\ Refusal(call) = Unanswered /\ reply = -32602
                            /\ GeneratorRefuses(call)

\* It starts so.
LEMMA InitConfig == Init => ConfigInv
<1> SUFFICES ASSUME Init PROVE ConfigInv
  OBVIOUS
<1>1. config.switches
        = [allow_work |-> FALSE, allow_control |-> FALSE,
           enable_discovery |-> TRUE, require_common_auth |-> TRUE]
  BY DEF Init, load
<1>2. config.switches \in Switches
  BY <1>1 DEF Switches
<1> QED
  BY <1>2 DEF Init, ConfigInv

\* Whatever is loaded has switches that are on or off.
LEMMA LoadedSwitches ==
    ASSUME NEW s \in Source
    PROVE  new(load(s)).switches \in Switches
<1>1. s.switches \in Switches
  BY SourceAssumption DEF Switches
<1>2. new(load(s)).switches = load(s).switches
  BY DEF new, load
<1>3. CASE s.file = "missing"
  <2>1. load(s).switches
          = [allow_work |-> FALSE, allow_control |-> FALSE,
             enable_discovery |-> TRUE, require_common_auth |-> TRUE]
    BY <1>3 DEF load
  <2> QED
    BY <1>2, <2>1 DEF Switches
<1>4. CASE s.file # "missing"
  BY <1>1, <1>2, <1>4 DEF load
<1> QED
  BY <1>3, <1>4

\* Start checks the configuration and no other step touches it.
LEMMA NextConfig == ConfigInv /\ [Next]_vars => ConfigInv'
<1> SUFFICES ASSUME ConfigInv, [Next]_vars PROVE ConfigInv'
  OBVIOUS
<1>1. CASE Start
  <2>1. CASE phase' = "failed"
    BY <1>1, <2>1 DEF Start, ConfigInv
  <2>2. CASE phase' = "describing"
    BY <1>1, <2>2, LoadedSwitches DEF Start, ConfigInv
  <2> QED
    BY <1>1, <2>1, <2>2 DEF Start
<1>2. CASE Describe \/ Follow \/ Publish
  BY <1>2 DEF Describe, Follow, Publish, ConfigInv
<1>3. CASE Send \/ Answered \/ Declined
  <2>1. UNCHANGED <<source, config>> /\ phase' \in {"asking", "done"}
    BY <1>3 DEF Send, Answered, Declined
  <2> QED
    BY <2>1 DEF ConfigInv
<1>4. CASE UNCHANGED vars
  BY <1>4 DEF vars, ConfigInv
<1> QED
  BY <1>1, <1>2, <1>3, <1>4 DEF Next

\* The configuration is checked and typed at every moment.
LEMMA ConfigHolds == Spec => []ConfigInv
  BY InitConfig, NextConfig, PTL DEF Spec

-----------------------------------------------------------------------------
(* The document.                                                           *)

\* Describe lists what the configuration includes.
LEMMA DescribeLists ==
    ASSUME ConfigInv, Describe
    PROVE  MethodsInv'
<1> DEFINE found == IF config.switches.enable_discovery THEN {"rpc.discover"}
                                                        ELSE {}
           listed == [name \in Included |-> openrpc_method(name)]
<1>1. methods' = listed @@ Each(found, discover)
  BY DEF Describe
<1>2. config' = config
  BY DEF Describe
<1>3. Included' = Included /\ found' = found
  BY <1>2 DEF Included
<1>4. \A name : openrpc_method(name)' = openrpc_method(name)
  BY <1>2 DEF openrpc_method, capability
<1>5. Included \cap found = {}
  BY DiscoverApart DEF Included
<1>6. /\ DOMAIN methods' = Included \cup found
      /\ \A name \in Included : methods'[name] = openrpc_method(name)
      /\ \A name \in found : methods'[name] = discover
  <2> HIDE DEF found
  <2> QED
    BY <1>1, <1>5 DEF @@, Each
<1>7. "rpc.discover" \in DOMAIN methods' => methods'["rpc.discover"] = discover
  BY <1>6, DiscoverApart DEF Included
<1>8. discover' = discover
  BY DEF discover
<1> QED
  BY <1>3, <1>4, <1>6, <1>7, <1>8 DEF MethodsInv

\* No other step touches the list, nor what it was made of.
LEMMA NextMethods == ConfigInv /\ MethodsInv /\ [Next]_vars => MethodsInv'
<1> SUFFICES ASSUME ConfigInv, MethodsInv, [Next]_vars PROVE MethodsInv'
  OBVIOUS
<1>1. CASE Start
  BY <1>1 DEF Start, MethodsInv, Described
<1>2. CASE Describe
  BY <1>2, DescribeLists
<1>3. CASE Follow \/ Publish \/ Send \/ Answered \/ Declined \/ UNCHANGED vars
  <2>1. UNCHANGED <<config, methods>>
    BY <1>3 DEF Follow, Publish, Send, Answered, Declined, vars, documentVars
  <2>2. Described' => Described
    BY <1>3 DEF Follow, Publish, Send, Answered, Declined, vars, Described
  <2>3. /\ Included' = Included
        /\ \A name : openrpc_method(name)' = openrpc_method(name)
    BY <2>1 DEF Included, openrpc_method, capability
  <2> QED
    BY <2>1, <2>2, <2>3 DEF MethodsInv, discover
<1> QED
  BY <1>1, <1>2, <1>3 DEF Next

\* The document lists what the configuration includes, from Describe on.
LEMMA MethodsHold == Spec => []MethodsInv
<1>1. Init => MethodsInv
  BY DEF Init, MethodsInv, Described
<1> QED
  BY <1>1, NextMethods, ConfigHolds, PTL DEF Spec

\* Every reference leads to a schema.
LEMMA ReferencesKnown ==
    /\ \A method \in DOMAIN Registry :
          {Registry[method].params, Registry[method].result}
              \subseteq DOMAIN component_schemas
    /\ \A name : References(name) \subseteq DOMAIN component_schemas
<1>1. DOMAIN component_schemas =
        DOMAIN ParamsSchemas
          \cup (DOMAIN ResultSchemas \cup DOMAIN WorkAndListSchemas)
  BY DEF component_schemas, @@
<1>2. ASSUME NEW method \in DOMAIN Registry
      PROVE  Registry[method].params \in DOMAIN ParamsSchemas
  BY RegistryNames DEF Registry, ParamsSchemas
<1>3. ASSUME NEW method \in DOMAIN Registry
      PROVE  Registry[method].result
               \in DOMAIN ResultSchemas \cup DOMAIN WorkAndListSchemas
  BY RegistryNames DEF Registry, ResultSchemas, WorkAndListSchemas
<1>4. \A name :
         References(name)
             \subseteq DOMAIN ResultSchemas \cup DOMAIN WorkAndListSchemas
  BY DEF References, ResultSchemas, WorkAndListSchemas
<1> QED
  BY <1>1, <1>2, <1>3, <1>4

\* A round of the loop takes a name that is pending.
LEMMA NextNamesPending == NextNames \subseteq pending
  BY DEF NextNames

\* The first round starts from the methods.
LEMMA DescribePends ==
    ASSUME ConfigInv, FollowInv, Describe
    PROVE  FollowInv'
<1>1. phase = "describing" /\ phase' = "following" /\ reachable' = {}
  BY DEF Describe, FollowInv
<1>2. pending' = Made'
  BY DEF Describe, Made
<1>3. MethodsInv'
  BY DescribeLists
<1>4. ASSUME NEW m \in DOMAIN methods'
      PROVE  methods'[m].refs \subseteq DOMAIN component_schemas
  <2>1. \/ m \in Included' /\ methods'[m] = openrpc_method(m)'
        \/ methods'[m] = discover
    BY <1>1, <1>3 DEF MethodsInv, Described, discover
  <2>2. CASE m \in Included' /\ methods'[m] = openrpc_method(m)'
    BY <2>2, ReferencesKnown DEF openrpc_method, Included
  <2>3. CASE methods'[m] = discover
    BY <2>3 DEF discover
  <2> QED
    BY <2>1, <2>2, <2>3
<1>5. Made' \subseteq DOMAIN component_schemas
  BY <1>4 DEF Made
<1> QED
  BY <1>1, <1>2, <1>5 DEF FollowInv

\* A round puts what a schema refers to in place of the schema.
LEMMA FollowKeeps ==
    ASSUME FollowInv, Follow
    PROVE  FollowInv'
<1>1. phase = "following" /\ phase' = "following" /\ methods' = methods
  BY DEF Follow
<1>2. PICK name \in NextNames :
         /\ reachable' = reachable \cup {name}
         /\ pending' = (pending \ {name}) \cup
                         (IF name \in reachable THEN {} ELSE References(name))
  BY DEF Follow
<1>3. name \in pending
  BY NextNamesPending
<1>4. Made' = Made
  BY <1>1 DEF Made
<1>5. References(name) \subseteq pending' \cup reachable'
  BY <1>1, <1>2 DEF FollowInv
<1>6. pending' \cup reachable' = pending \cup reachable \cup References(name)
  BY <1>1, <1>2, <1>3 DEF FollowInv
<1>7. \A s \in reachable' : References(s) \subseteq pending' \cup reachable'
  BY <1>1, <1>2, <1>6 DEF FollowInv
<1>8. pending' \cup reachable'
        \subseteq Made \cup UNION {References(s) : s \in reachable'}
  BY <1>1, <1>2, <1>6 DEF FollowInv
<1>9. pending' \cup reachable' \subseteq DOMAIN component_schemas
  BY <1>1, <1>6, ReferencesKnown DEF FollowInv
<1> QED
  BY <1>1, <1>4, <1>6, <1>7, <1>8, <1>9 DEF FollowInv

\* What a set of schemas refers to, and a document that has just that.
Met(names) == UNION {References(s) : s \in names}
Closed == schemas = Made \cup Met(schemas)

\* Such a document is closed.
LEMMA ClosedDocument == Closed => DocumentClosed
  BY DEF Closed, DocumentClosed, Made, Met

\* What was met when nothing is pending is what the document needs.
LEMMA PublishCloses ==
    ASSUME FollowInv, Publish
    PROVE  DocumentClosed'
<1>1. /\ phase = "following" /\ pending = {}
      /\ schemas' = DOMAIN component_schemas \cap reachable
      /\ methods' = methods
  BY DEF Publish
<1>2. schemas' = reachable
  BY <1>1 DEF FollowInv
<1>3. reachable = Made \cup Met(reachable)
  BY <1>1 DEF FollowInv, Met
<1>4. Made' = Made
  BY <1>1 DEF Made
<1>5. Met(schemas)' = Met(schemas')
  BY DEF Met
<1>6. Met(schemas') = Met(reachable)
  BY <1>2
<1>7. Closed'
  BY <1>2, <1>3, <1>4, <1>5, <1>6 DEF Closed
<1> QED
  BY <1>7, ClosedDocument, PTL

\* Loop and document, over every step.
LEMMA NextDocument ==
    ConfigInv /\ FollowInv /\ DocumentClosed /\ [Next]_vars
        => FollowInv' /\ DocumentClosed'
<1> SUFFICES ASSUME ConfigInv, FollowInv, DocumentClosed, [Next]_vars
             PROVE  FollowInv' /\ DocumentClosed'
  OBVIOUS
<1>1. CASE Start
  BY <1>1 DEF Start, FollowInv, DocumentClosed, Published, documentVars
<1>2. CASE Describe
  <2>1. ~Published'
    BY <1>2 DEF Describe, Published
  <2> QED
    BY <1>2, <2>1, DescribePends DEF DocumentClosed
<1>3. CASE Follow
  <2>1. ~Published'
    BY <1>3 DEF Follow, Published
  <2> QED
    BY <1>3, <2>1, FollowKeeps DEF DocumentClosed
<1>4. CASE Publish
  <2>1. phase' = "serving"
    BY <1>4 DEF Publish
  <2> QED
    BY <1>4, <2>1, PublishCloses DEF FollowInv
<1>5. CASE Send \/ Answered \/ Declined
  <2>1. /\ phase' \in {"asking", "done"} /\ Published
        /\ UNCHANGED <<methods, schemas>>
    BY <1>5 DEF Send, Answered, Declined, Published, documentVars
  <2> QED
    BY <2>1 DEF FollowInv, DocumentClosed
<1>6. CASE UNCHANGED vars
  BY <1>6 DEF vars, documentVars, FollowInv, Made, DocumentClosed, Published
<1> QED
  BY <1>1, <1>2, <1>3, <1>4, <1>5, <1>6 DEF Next

\* In whatever order references are followed, the document is closed: it has the
\* schemas it refers to, and no others (reachable_component_schemas).
THEOREM DocumentIsClosed == Spec => []DocumentClosed
<1>1. Init => FollowInv /\ DocumentClosed
  BY DEF Init, FollowInv, DocumentClosed, Published
<1> QED
  BY <1>1, NextDocument, ConfigHolds, PTL DEF Spec

-----------------------------------------------------------------------------
(* The call and its answer.                                                *)

\* What was sent is refused, or put to a node.
LEMMA SendReplies ==
    ASSUME ConfigInv, ReplyInv, Send
    PROVE  ReplyInv'
<1>1. PICK c \in Call :
         /\ call' = c
         /\ reply' = Refusal(c)
         /\ phase' = IF reply' = Unanswered THEN "asking" ELSE "done"
  BY DEF Send
<1>2. config' = config
  BY DEF Send
<1>3. Refusal(call)' = Refusal(c)
  BY <1>1, <1>2 DEF Refusal, Authorized, Granted
<1>4. Unanswered' = Unanswered
  BY DEF Unanswered
<1> QED
  BY <1>1, <1>3, <1>4 DEF ReplyInv

\* What a node answered is judged.
LEMMA AnsweredReplies ==
    ASSUME ConfigInv, ReplyInv, Answered
    PROVE  ReplyInv'
<1>1. phase = "asking" /\ phase' = "done" /\ UNCHANGED <<config, call>>
  BY DEF Answered
<1>2. call \in Call /\ Refusal(call) = Unanswered
  BY <1>1 DEF ReplyInv
<1>3. PICK a \in Answer[call.method] :
         /\ answer' = a
         /\ result' = normalize_work_generate_result(call.method, a)
         /\ reply' = IF validate_result(call.method, result') THEN 200 ELSE -32603
  BY DEF Answered
<1>4. Judged'
  BY <1>1, <1>3 DEF Judged
<1>5. Refusal(call)' = Refusal(call)
  BY <1>1 DEF Refusal, Authorized, Granted
<1> QED
  BY <1>1, <1>2, <1>4, <1>5 DEF ReplyInv, Unanswered

\* What the local generator declines it could not read.
LEMMA DeclinedReplies ==
    ASSUME ReplyInv, Declined
    PROVE  ReplyInv'
<1>1. /\ phase = "asking" /\ phase' = "done" /\ UNCHANGED <<config, call>>
      /\ reply' = -32602 /\ GeneratorRefuses(call)
  BY DEF Declined
<1>2. call \in Call /\ Refusal(call) = Unanswered
  BY <1>1 DEF ReplyInv
<1>3. Refusal(call)' = Refusal(call) /\ GeneratorRefuses(call)'
  BY <1>1 DEF Refusal, Authorized, Granted, GeneratorRefuses
<1> QED
  BY <1>1, <1>2, <1>3 DEF ReplyInv, Unanswered

\* No other step touches call, answer and reply.
LEMMA NextReply == ConfigInv /\ ReplyInv /\ [Next]_vars => ReplyInv'
<1> SUFFICES ASSUME ConfigInv, ReplyInv, [Next]_vars PROVE ReplyInv'
  OBVIOUS
<1>1. CASE Start \/ Describe \/ Follow \/ Publish
  <2>1. /\ phase \notin {"asking", "done"} /\ phase' \notin {"asking", "done"}
        /\ reply' = reply
    BY <1>1 DEF Start, Describe, Follow, Publish
  <2> QED
    BY <2>1 DEF ReplyInv, Unanswered
<1>2. CASE Send
  BY <1>2, SendReplies
<1>3. CASE Answered
  BY <1>3, AnsweredReplies
<1>4. CASE Declined
  BY <1>4, DeclinedReplies
<1>5. CASE UNCHANGED vars
  <2>1. UNCHANGED <<config, phase, call, answer, result, reply>>
    BY <1>5 DEF vars
  <2>2. /\ Refusal(call)' = Refusal(call) /\ Judged' = Judged
        /\ GeneratorRefuses(call)' = GeneratorRefuses(call)
    BY <2>1 DEF Refusal, Authorized, Granted, Judged, GeneratorRefuses
  <2> QED
    BY <2>1, <2>2 DEF ReplyInv, Unanswered
<1> QED
  BY <1>1, <1>2, <1>3, <1>4, <1>5 DEF Next

\* A reply is always the refusal of the call, the judgement of an answer or the
\* local generator's.
LEMMA ReplyHolds == Spec => []ReplyInv
<1>1. Init => ReplyInv
  BY DEF Init, ReplyInv
<1> QED
  BY <1>1, NextReply, ConfigHolds, PTL DEF Spec

\* Only an answer that was judged sends a method's result to a client.
LEMMA RepliedIsJudged ==
    ASSUME ConfigInv, ReplyInv, reply = 200, call.method \in DOMAIN Registry
    PROVE  Judged /\ validate_result(call.method, result)
<1>1. phase = "done" /\ call \in Call
  BY DEF ReplyInv, ConfigInv, Unanswered
<1>2. Refusal(call) # 200
  BY <1>1, RefusalOfMethod DEF ConfigInv, Unanswered
<1>3. Judged
  BY <1>1, <1>2 DEF ReplyInv
<1> QED
  BY <1>3 DEF Judged

\* A client that is given a result finds in it every field the schema of the
\* result requires, and in its maps the entries that it describes, whatever else
\* a node put there and but for what the property names (validate_result).
THEOREM FieldsAreKept == Spec => []RequiredFieldsKept
<1>1. ASSUME ConfigInv, ReplyInv PROVE RequiredFieldsKept
  <2> SUFFICES ASSUME reply = 200, call.method \in DOMAIN Registry
               PROVE  /\ Kept(Registry[call.method].result, result)
                      /\ EntriesKept(Registry[call.method].result, result)
    BY DEF RequiredFieldsKept
  <2>1. validate_result(call.method, result)
    BY <1>1, RepliedIsJudged
  <2> QED
    BY <2>1, AllChecked, AllEntriesChecked DEF Checked, EntriesChecked
<1> QED
  BY <1>1, ConfigHolds, ReplyHolds, PTL

\* Work that a client is given names its hash, or named it as a frontier that is
\* the hash the client asked for (normalize_work_generate_result).
THEOREM WorkNamesItsHash == Spec => []WorkIsForItsHash
<1>1. ASSUME ConfigInv, ReplyInv PROVE WorkIsForItsHash
  <2> SUFFICES ASSUME reply = 200, call.method = "work_generate"
               PROVE  \/ "hash" \in DOMAIN answer.of /\ result = answer
                      \/ /\ "hash" \notin DOMAIN answer.of
                         /\ Present(answer, "frontier", {"apt"})
                         /\ "frontier" \notin DOMAIN result.of
    BY DEF WorkIsForItsHash
  <2>1. /\ result = normalize_work_generate_result("work_generate", answer)
        /\ validate_result("work_generate", result)
    BY <1>1, RegistryNames, RepliedIsJudged DEF Judged
  <2>2. "hash" \in DOMAIN result.of
    BY <2>1 DEF validate_result, validate_fields, has_string, Present
  <2>3. CASE "hash" \in DOMAIN answer.of
    BY <2>1, <2>3 DEF normalize_work_generate_result
  <2>4. CASE "hash" \notin DOMAIN answer.of
    <3>1. Present(answer, "frontier", {"apt"}) /\ result = Renamed(answer)
      BY <2>1, <2>2, <2>4 DEF normalize_work_generate_result
    <3>2. "frontier" \notin DOMAIN result.of
      BY <3>1 DEF Renamed
    <3> QED
      BY <2>4, <3>1, <3>2
  <2> QED
    BY <2>3, <2>4
<1> QED
  BY <1>1, ConfigHolds, ReplyHolds, PTL

-----------------------------------------------------------------------------
(* The document and the call.                                              *)

\* A reply is the refusal of the call, what became of an answer, or what the
\* local generator says.
LEMMA RepliesAre ==
    ASSUME ConfigInv, ReplyInv, phase \in {"asking", "done"}
    PROVE  /\ call \in Call
           /\ \/ reply = Refusal(call)
              \/ Refusal(call) = Unanswered /\ reply \in {200, -32603}
              \/ /\ Refusal(call) = Unanswered /\ reply = -32602
                 /\ GeneratorRefuses(call)
  BY DEF ReplyInv, Judged

\* What the document lists is what is served, and for the token it names
\* (openrpc_document_with_auth against dispatch).
THEOREM ListedIsServed == Spec => []AdvertisedIsServed
<1> DEFINE Turned(requires) ==
             \/ Rank[call.token] < Rank[requires]
             \/ /\ requires # "none"
                /\ config.fields.auth_public_key = "none"
<1>1. ASSUME ConfigInv, MethodsInv, ReplyInv PROVE AdvertisedIsServed
  <2> SUFFICES ASSUME phase \in {"asking", "done"}
               PROVE  /\ call.method \in DOMAIN methods
                           <=> reply \notin {-32601, -32604}
                      /\ call.method \in DOMAIN methods =>
                            (reply = 401
                               <=> Turned(methods[call.method].requires))
    BY DEF AdvertisedIsServed
  <2>1. /\ config.switches \in Switches /\ call \in Call
        /\ \/ reply = Refusal(call)
           \/ Refusal(call) = Unanswered /\ reply \in {200, -32603, -32602}
    BY <1>1, RepliesAre DEF ConfigInv
  <2>2. /\ DOMAIN methods =
             Included \cup (IF config.switches.enable_discovery
                              THEN {"rpc.discover"} ELSE {})
        /\ \A name \in Included : methods[name] = openrpc_method(name)
        /\ "rpc.discover" \in DOMAIN methods =>
             methods["rpc.discover"] = discover
    BY <1>1 DEF MethodsInv, Described
  <2>3. CASE call.method \in DOMAIN Registry
    <3>1. call.method \in DOMAIN methods <=> call.method \in Included
      BY <2>2, <2>3, DiscoverApart
    <3>2. /\ Refusal(call) \in {-32604, 401, -32602, 403, Unanswered}
          /\ Refusal(call) = -32604 <=> call.method \notin Included
          /\ call.method \in Included =>
               (Refusal(call) = 401 <=> ~Authorized(call))
      BY <2>1, <2>3, RefusalOfMethod
    <3>3. call.method \in Included =>
            (~Authorized(call) <=> Turned(methods[call.method].requires))
      <4>1. ~Authorized(call)
              <=> Turned(capability(call.method, Registry[call.method].scope))
        BY <2>1, <2>3, RequiresIsAsked, CapabilityRanks
      <4>2. openrpc_method(call.method).requires
              = capability(call.method, Registry[call.method].scope)
        BY DEF openrpc_method
      <4> QED
        BY <2>2, <4>1, <4>2
    <3>4. /\ reply \in {-32601, -32604} <=> Refusal(call) = -32604
          /\ reply = 401 <=> Refusal(call) = 401
      BY <2>1, <3>2 DEF Unanswered
    <3> QED
      BY <3>1, <3>2, <3>3, <3>4
  <2>4. CASE call.method \notin DOMAIN Registry
    <3>1. /\ Refusal(call) \in {200, -32601}
          /\ Refusal(call) = 200 <=> /\ call.method = "rpc.discover"
                                     /\ config.switches.enable_discovery
      BY <2>1, <2>4, RefusalOfOther
    <3>2. reply = Refusal(call)
      BY <2>1, <3>1 DEF Unanswered
    <3>3. call.method \in DOMAIN methods <=> Refusal(call) = 200
      BY <2>2, <2>4, <3>1 DEF Included
    <3>4. call.method \in DOMAIN methods =>
            ~Turned(methods[call.method].requires)
      <4>1. Rank[call.token] \in 0 .. 3
        BY <2>1, CallAssumption DEF Rank
      <4>2. call.method \in DOMAIN methods =>
              /\ methods[call.method].requires = "none"
              /\ Rank[methods[call.method].requires] = 0
        BY <2>2, <3>1, <3>3 DEF discover, Rank
      <4> QED
        BY <4>1, <4>2
    <3> QED
      BY <3>1, <3>2, <3>3, <3>4
  <2> QED
    BY <2>3, <2>4
<1> QED
  BY <1>1, ConfigHolds, MethodsHold, ReplyHolds, PTL

\* A call that keeps to the parameter list of the document is not refused for
\* its parameters, and a call that is put to a node keeps to it, but where the
\* property names what the gateway refuses or allows beyond it (openrpc_params
\* against validate_params, guard and generate_local_work).
THEOREM DocumentAgrees == Spec => []ParametersAgree
<1>1. ASSUME ConfigInv, ReplyInv PROVE ParametersAgree
  <2> SUFFICES ASSUME phase \in {"asking", "done"},
                      call.method \in DOMAIN Registry
               PROVE  ParametersAgree
    BY DEF ParametersAgree
  <2>1. /\ config.switches \in Switches /\ call \in Call
        /\ \/ reply = Refusal(call)
           \/ Refusal(call) = Unanswered /\ reply \in {200, -32603}
           \/ /\ Refusal(call) = Unanswered /\ reply = -32602
              /\ GeneratorRefuses(call)
    BY <1>1, RepliesAre DEF ConfigInv
  <2>2. /\ Refusal(call) \in {-32604, 401, -32602, 403, Unanswered}
        /\ Refusal(call) = -32602 =>
             ~(call.object /\ validate_params(call.method, call.params))
        /\ Refusal(call) = 403 => GuardRefuses(call)
        /\ Refusal(call) = Unanswered =>
             call.object /\ validate_params(call.method, call.params)
    BY <2>1, RefusalOfMethod
  <2>3. Documented(call) /\ ~Narrowed(call) => reply \notin {-32602, 403}
    <3>1. Documented(call) /\ ~Narrowed(call) =>
            /\ call.object /\ validate_params(call.method, call.params)
            /\ ~GuardRefuses(call) /\ ~GeneratorRefuses(call)
      BY DocumentedIsValid DEF Narrowed
    <3> QED
      BY <2>1, <2>2, <3>1 DEF Unanswered
  <2>4. phase = "asking" \/ reply \in {200, -32603}
          => validate_params(call.method, call.params)
    BY <1>1, <2>1, <2>2 DEF ReplyInv, Unanswered
  <2> QED
    BY <2>3, <2>4, ValidIsDocumented DEF ParametersAgree
<1> QED
  BY <1>1, ConfigHolds, ReplyHolds, PTL

-----------------------------------------------------------------------------
(* The start.                                                              *)

\* A nonempty set of positions in a sequence has a last one.
LEMMA LastPosition ==
    ASSUME NEW n \in Nat, NEW S \in SUBSET (1 .. n), S # {}
    PROVE  Max(S) \in S /\ \A i \in S : Max(S) >= i
<1> DEFINE T == {m \in Nat : \E i \in S : m = n - i}
<1>1. T \subseteq Nat /\ T # {}
  <2>1. PICK i \in S : TRUE
    OBVIOUS
  <2>2. n - i \in T
    BY <2>1
  <2> QED
    BY <2>2
<1>2. PICK t \in T : \A u \in T : <<u, t>> \notin OpToRel(<, Nat)
  <2> HIDE DEF T
  <2> QED
    BY <1>1, NatLessThanWellFounded, WFMin, Zenon
<1>3. \A u \in T : ~(u < t)
  <2> HIDE DEF T
  <2> QED
    BY <1>1, <1>2, Zenon DEF OpToRel
<1>4. PICK i \in S : t = n - i
  BY Zenon
<1>5. \A j \in S : i >= j
  <2> SUFFICES ASSUME NEW j \in S PROVE i >= j
    OBVIOUS
  <2>1. ~(n - j < n - i)
    BY <1>3, <1>4
  <2> QED
    BY <2>1
<1> QED
  BY <1>5 DEF Max

\* The last entry of a name in .env is what it stands for.
LEMMA LastEntryCounts ==
    ASSUME NEW lines \in Seq([name : STRING, value : STRING]),
           NEW name \in DOMAIN load_dotenv(lines)
    PROVE  \E i \in DOMAIN lines :
              /\ lines[i].name = name
              /\ lines[i].value = load_dotenv(lines)[name]
              /\ \A j \in i + 1 .. Len(lines) : lines[j].name # name
<1> DEFINE Of(n) == {i \in DOMAIN lines : lines[i].name = n}
           last == Max(Of(name))
<1>1. Of(name) # {} /\ load_dotenv(lines)[name] = lines[last].value
  BY DEF load_dotenv
<1>2. DOMAIN lines = 1 .. Len(lines) /\ Len(lines) \in Nat
  OBVIOUS
<1>3. last \in Of(name) /\ \A i \in Of(name) : last >= i
  BY <1>1, <1>2, LastPosition
<1>4. ASSUME NEW j \in last + 1 .. Len(lines), lines[j].name = name
      PROVE  FALSE
  <2>1. last \in 1 .. Len(lines)
    BY <1>2, <1>3
  <2>2. j \in Of(name)
    BY <1>2, <1>4, <2>1
  <2>3. last >= j
    BY <1>3, <2>2
  <2> HIDE DEF last
  <2> QED
    BY <2>1, <2>3, <1>4
<1>5. last \in DOMAIN lines /\ lines[last].name = name
  BY <1>3
<1> QED
  BY <1>1, <1>4, <1>5

\* What is loaded from a file is what its words stand for.
LEMMA LoadedStandsFor ==
    ASSUME source \in Source, source.file = "text", ~LoadFails(source),
           NEW f \in DOMAIN source.text
    PROVE  StandsFor(source.text[f], load(source).fields[f])
<1> DEFINE word == source.text[f]
           value == load(source).fields[f]
           dotenv == IF source.dotenv = "present"
                       THEN load_dotenv(source.lines) ELSE load_dotenv(<<>>)
<1>1. f \in DOMAIN default /\ value = expand_config_variables(source)[f]
  BY SourceAssumption DEF load, expand_config_variables
<1>2. CASE word \notin Variable
  BY <1>1, <1>2 DEF StandsFor, expand_config_variables
<1>3. CASE word \in Variable /\ word \in DOMAIN source.env
  BY <1>1, <1>3 DEF StandsFor, expand_config_variables, Lookup
<1>4. CASE word \in Variable /\ word \notin DOMAIN source.env
  <2>1. word \in DOMAIN Lookup(source)
    BY <1>4 DEF LoadFails, ExpansionFails
  <2>2. word \in DOMAIN dotenv /\ Lookup(source)[word] = dotenv[word]
    BY <1>4, <2>1 DEF Lookup
  <2>3. DOMAIN load_dotenv(<<>>) = {}
    BY DEF load_dotenv
  <2>4. source.dotenv = "present" /\ dotenv = load_dotenv(source.lines)
    BY <2>2, <2>3
  <2>5. value = load_dotenv(source.lines)[word]
    BY <1>1, <1>4, <2>2, <2>4 DEF expand_config_variables
  <2>6. source.lines \in Seq([name : STRING, value : STRING])
    BY SourceAssumption
  <2> QED
    BY <1>4, <2>2, <2>4, <2>5, <2>6, LastEntryCounts DEF StandsFor
<1> QED
  BY <1>2, <1>3, <1>4

\* A gateway that starts can be used, and each of its fields is what the file,
\* the environment and the last entry of .env say (Config::load, validate).
THEOREM StartIsSound == Spec => []StartsSound
<1>1. ASSUME ConfigInv PROVE StartsSound
  <2> SUFFICES ASSUME phase = "describing" PROVE StartsSound
    BY DEF StartsSound
  <2> DEFINE read == load(source).fields
             fields == config.fields
  <2>1. source \in Source /\ Starts(source) /\ config = new(load(source))
    BY <1>1 DEF ConfigInv
  <2>2. fields = Peers(read) /\ config.timeout = load(source).timeout
    BY <2>1 DEF new, load
  <2>3. DOMAIN read = DOMAIN default
    BY DEF load
  <2>4. \A f \in DOMAIN default :
          \/ fields[f] = read[f]
          \/ f = "work_peer_urls" /\ read[f] = "none"
    BY <2>2, <2>3 DEF Peers
  <2>5. /\ fields.node_rpc_urls = "http" /\ fields.node_ws_urls = "ws"
        /\ fields.work_peer_urls = "http"
        /\ 100 =< config.timeout /\ config.timeout =< 300000
        /\ fields.tls_cert = "none" <=> fields.tls_key = "none"
        /\ fields.public_url \in {"none", "http"}
    BY <2>1, <2>2 DEF Starts, validate
  <2>6. fields.auth_public_key \in {"none", "key"}
    BY <2>1, <2>4 DEF Starts, default
  <2>7. /\ gateway_url(fields) \in {"public", served_over(fields)}
        /\ gateway_url(fields) = "public" => fields.public_url = "http"
    BY <2>5 DEF gateway_url, served_over
  <2>8. ASSUME source.file = "text", NEW f \in DOMAIN source.text
        PROVE  \/ StandsFor(source.text[f], fields[f])
               \/ f = "work_peer_urls" /\ StandsFor(source.text[f], "none")
    <3>1. StandsFor(source.text[f], read[f])
      BY <2>1, <2>8, LoadedStandsFor DEF Starts
    <3>2. f \in DOMAIN default
      BY <2>1, SourceAssumption
    <3> QED
      BY <2>4, <3>1, <3>2
  <2> QED
    BY <2>5, <2>6, <2>7, <2>8 DEF StartsSound
<1> QED
  BY <1>1, ConfigHolds, PTL
=============================================================================
