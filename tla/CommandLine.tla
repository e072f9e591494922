------------------------------ MODULE CommandLine ------------------------------
(***************************************************************************)
(* The options of the two commands: what clap accepts (the argument groups *)
(* of RunCmd and SetupCmd and of the structs they flatten) and what the    *)
(* validators make of it.  An option given in the environment counts as    *)
(* given, a default does not.  The validators take every option they need  *)
(* with expect, so that a missing one, or one that cannot be parsed, ends  *)
(* the process.                                                            *)
(*                                                                         *)
(* A command line has a command, "run" or "setup"; the options given on it *)
(* or in the environment; and the bad ones, whose value does not parse.    *)
(***************************************************************************)
EXTENDS FiniteSets

-------------------------------------------------------------------------------
(* The structs: the flag that selects one, its options with and without a    *)
(* default, those that clap parses, and requires_all.                        *)

AWSConfigCliArgs == [
    flag |-> "aws", options |-> {"aws_access_key_id", "aws_secret_access_key", "aws_region"},
    defaults |-> {}, typed |-> {},
    requires |-> {"aws_access_key_id", "aws_secret_access_key", "aws_region"}]

AWSS3CliArgs == [
    flag |-> "aws_s3", options |-> {"bucket_location_constraint"},
    defaults |-> {"bucket_name"}, typed |-> {}, requires |-> {}]

AWSSQSCliArgs == [
    flag |-> "aws_sqs", options |-> {"queue_base_url"},
    defaults |-> {"sqs_prefix", "sqs_suffix"}, typed |-> {}, requires |-> {"queue_base_url"}]

AWSSNSCliArgs == [
    flag |-> "aws_sns", options |-> {}, defaults |-> {"sns_arn"}, typed |-> {}, requires |-> {}]

AWSEventBridgeCliArgs == [
    flag |-> "aws_event_bridge", options |-> {"event_bridge_type"},
    defaults |-> {"target_queue_name", "cron_time", "trigger_rule_name", "trigger_role_name",
                  "trigger_policy_name"},
    typed |-> {"event_bridge_type"}, requires |-> {"aws_event_bridge"}]

MongoDBCliArgs == [
    flag |-> "mongodb", options |-> {},
    defaults |-> {"mongodb_connection_url", "mongodb_database_name"},
    typed |-> {}, requires |-> {"mongodb_connection_url"}]

EthereumDaCliArgs == [
    flag |-> "da_on_ethereum", options |-> {"ethereum_da_rpc_url"}, defaults |-> {},
    typed |-> {"ethereum_da_rpc_url"}, requires |-> {"ethereum_da_rpc_url"}]

EthereumSettlementCliArgs == [
    flag |-> "settle_on_ethereum",
    options |-> {"ethereum_rpc_url", "ethereum_private_key", "l1_core_contract_address",
                 "starknet_operator_address"},
    defaults |-> {}, typed |-> {"ethereum_rpc_url"},
    requires |-> {"ethereum_rpc_url", "ethereum_private_key", "l1_core_contract_address",
                  "starknet_operator_address"}]

StarknetSettlementCliArgs == [
    flag |-> "settle_on_starknet",
    options |-> {"starknet_rpc_url", "starknet_private_key", "starknet_account_address",
                 "starknet_cairo_core_contract_address", "starknet_finality_retry_wait_in_secs"},
    defaults |-> {}, typed |-> {"starknet_rpc_url", "starknet_finality_retry_wait_in_secs"},
    requires |-> {"starknet_rpc_url", "starknet_private_key", "starknet_account_address",
                  "starknet_cairo_core_contract_address",
                  "starknet_finality_retry_wait_in_secs"}]

\* Mutant of SharpCliArgs: the certificate of the server is not demanded.
SharpWithoutServerCrt == [
    flag |-> "sharp",
    options |-> {"sharp_customer_id", "sharp_url", "sharp_user_crt", "sharp_user_key",
                 "sharp_server_crt", "sharp_rpc_node_url", "gps_verifier_contract_address"},
    defaults |-> {"sharp_proof_layout"}, typed |-> {"sharp_url", "sharp_rpc_node_url"},
    requires |-> {"sharp_customer_id", "sharp_url", "sharp_user_crt", "sharp_user_key",
                  "gps_verifier_contract_address", "sharp_rpc_node_url"}]

SharpCliArgs == [
    flag |-> "sharp",
    options |-> {"sharp_customer_id", "sharp_url", "sharp_user_crt", "sharp_user_key",
                 "sharp_server_crt", "sharp_rpc_node_url", "gps_verifier_contract_address"},
    defaults |-> {"sharp_proof_layout"}, typed |-> {"sharp_url", "sharp_rpc_node_url"},
    requires |-> {"sharp_customer_id", "sharp_url", "sharp_user_crt", "sharp_user_key",
                  "sharp_server_crt", "gps_verifier_contract_address", "sharp_rpc_node_url"}]

AtlanticCliArgs == [
    flag |-> "atlantic",
    options |-> {"atlantic_api_key", "atlantic_service_url", "atlantic_rpc_node_url",
                 "atlantic_mock_fact_hash", "atlantic_prover_type", "atlantic_settlement_layer",
                 "atlantic_verifier_contract_address"},
    defaults |-> {}, typed |-> {"atlantic_service_url", "atlantic_rpc_node_url"},
    requires |-> {"atlantic_api_key", "atlantic_service_url", "atlantic_settlement_layer",
                  "atlantic_verifier_contract_address"}]

ProverLayoutCliArgs == [
    flag |-> "none", options |-> {}, defaults |-> {"snos_layout_name", "prover_layout_name"},
    typed |-> {}, requires |-> {}]

SNOSCliArgs == [
    flag |-> "none", options |-> {"rpc_for_snos"}, defaults |-> {}, typed |-> {"rpc_for_snos"},
    requires |-> {"rpc_for_snos"}]

ServerCliArgs == [
    flag |-> "none", options |-> {}, defaults |-> {"host", "port"}, typed |-> {"port"},
    requires |-> {}]

ServiceCliArgs == [
    flag |-> "none", options |-> {},
    defaults |-> {"max_block_to_process", "min_block_to_process", "max_concurrent_snos_jobs"},
    typed |-> {"max_block_to_process", "min_block_to_process", "max_concurrent_snos_jobs"},
    requires |-> {}]

InstrumentationCliArgs == [
    flag |-> "none", options |-> {"otel_collector_endpoint"}, defaults |-> {"otel_service_name"},
    typed |-> {"otel_collector_endpoint"}, requires |-> {}]

-------------------------------------------------------------------------------
(* The commands *)

RunCmd == [
    aws |-> AWSConfigCliArgs, ethereum |-> EthereumSettlementCliArgs,
    starknet |-> StarknetSettlementCliArgs, s3 |-> AWSS3CliArgs, sqs |-> AWSSQSCliArgs,
    server |-> ServerCliArgs, sns |-> AWSSNSCliArgs, mongodb |-> MongoDBCliArgs,
    da |-> EthereumDaCliArgs, sharp |-> SharpCliArgs, atlantic |-> AtlanticCliArgs,
    layout |-> ProverLayoutCliArgs, snos |-> SNOSCliArgs, service |-> ServiceCliArgs,
    instrumentation |-> InstrumentationCliArgs]

SetupCmd == [
    aws |-> AWSConfigCliArgs, s3 |-> AWSS3CliArgs, sqs |-> AWSSQSCliArgs, sns |-> AWSSNSCliArgs,
    event_bridge |-> AWSEventBridgeCliArgs]

Structs(command) == IF command = "run" THEN RunCmd ELSE SetupCmd

\* Groups of which exactly one flag is given; mongodb has none.
Groups(command) ==
    {{"aws"}, {"aws_s3"}, {"aws_sqs"}, {"aws_sns"}}
    \cup (IF command = "setup" THEN {{"aws_event_bridge"}}
          ELSE {{"settle_on_ethereum", "settle_on_starknet"}, {"sharp", "atlantic"},
                {"da_on_ethereum"}})

\* Options that are not optional, whatever else is given.
Mandatory(command) ==
    AWSConfigCliArgs.options
    \cup (IF command = "run" THEN {"madara_rpc_url", "rpc_for_snos"} ELSE {})

OptionsOf(struct) == ({struct.flag} \ {"none"}) \cup struct.options \cup struct.defaults

Accepts(line) ==
    LET structs == Structs(line.command) IN
    /\ Mandatory(line.command) \subseteq line.given
    /\ \A group \in Groups(line.command) : Cardinality(group \cap line.given) = 1
    /\ \A s \in DOMAIN structs :
           /\ OptionsOf(structs[s]) \cap line.given # {} => structs[s].requires \subseteq line.given
           /\ structs[s].typed \cap line.bad = {}
    /\ "madara_rpc_url" \notin line.bad

-------------------------------------------------------------------------------
(* The validators: the options they take with expect, and the values they parse. *)

validate_provider_params == [takes |-> AWSConfigCliArgs.options, parses |-> {}]

validate_alert_params == [takes |-> {"sns_arn"}, parses |-> {}]

validate_queue_params ==
    [takes |-> {"queue_base_url", "sqs_prefix", "sqs_suffix"}, parses |-> {"queue_base_url"}]

validate_storage_params == [takes |-> {"bucket_name"}, parses |-> {}]

validate_cron_params ==
    [takes |-> {"event_bridge_type", "target_queue_name", "cron_time", "trigger_rule_name",
                "trigger_role_name", "trigger_policy_name"},
     parses |-> {"cron_time"}]

validate_database_params ==
    [takes |-> {"mongodb_connection_url", "mongodb_database_name"},
     parses |-> {"mongodb_connection_url"}]

validate_da_params == [takes |-> {"ethereum_da_rpc_url"}, parses |-> {}]

validate_settlement_params == [
    ethereum |-> [takes |-> EthereumSettlementCliArgs.options,
                  parses |-> {"l1_core_contract_address", "starknet_operator_address"}],
    starknet |-> [takes |-> StarknetSettlementCliArgs.options, parses |-> {}]]

validate_prover_params == [
    sharp    |-> [takes |-> SharpCliArgs.options \cup {"sharp_proof_layout"}, parses |-> {}],
    atlantic |-> [takes |-> AtlanticCliArgs.options, parses |-> {}]]

\* Both must be one of eleven names.
validate_proving_layout_name ==
    [takes |-> {}, parses |-> {"snos_layout_name", "prover_layout_name"}]

\* The other four take everything as it is.
Validators == [
    aws |-> validate_provider_params, s3 |-> validate_storage_params,
    sqs |-> validate_queue_params, sns |-> validate_alert_params,
    event_bridge |-> validate_cron_params, mongodb |-> validate_database_params,
    da |-> validate_da_params, ethereum |-> validate_settlement_params.ethereum,
    starknet |-> validate_settlement_params.starknet, sharp |-> validate_prover_params.sharp,
    atlantic |-> validate_prover_params.atlantic, layout |-> validate_proving_layout_name]

\* What the constructors of the clients parse.
Built == {"ethereum_private_key", "starknet_private_key", "starknet_account_address",
          "starknet_cairo_core_contract_address", "sharp_user_crt", "sharp_user_key",
          "sharp_server_crt", "gps_verifier_contract_address", "atlantic_settlement_layer",
          "atlantic_verifier_contract_address"}

Sections(command) == DOMAIN Structs(command) \cap DOMAIN Validators

\* A section is taken if its flag is given; the layouts always are.
Chosen(line, section) ==
    LET flag == Structs(line.command)[section].flag IN flag = "none" \/ flag \in line.given

\* The options without a default that its validator needs.
Needed(command, section) ==
    Validators[section].takes \ Structs(command)[section].defaults

\* The validator of a section that is taken, with the client built from it, succeeds.
Validates(line, section) ==
    /\ Needed(line.command, section) \subseteq line.given
    /\ Validators[section].parses \cap line.bad = {}
    /\ OptionsOf(Structs(line.command)[section]) \cap line.bad \cap Built = {}
===============================================================================
