------------------------------ MODULE MCDeployment ------------------------------
(* Command lines for TLC: complete ones, and what is left of them without one  *)
(* option or with one value that does not parse.                               *)
EXTENDS Deployment

MCLine(command, given, bad) == [command |-> command, given |-> given, bad |-> bad]

Taken(command, sections) ==
    UNION {{Structs(command)[s].flag} \cup Needed(command, s) : s \in sections}

SetupOptions == Taken("setup", {"aws", "s3", "sqs", "sns", "event_bridge"})

RunOptions(prover, layer) ==
    Taken("run", {"aws", "s3", "sqs", "sns", "mongodb", "da", prover, layer})
    \cup {"madara_rpc_url", "rpc_for_snos", "mongodb_connection_url"}

GoodSetup == MCLine("setup", SetupOptions, {})
GoodRun   == MCLine("run", RunOptions("sharp", "ethereum"), {})

\* One option is missing.
Short(command, given) == {MCLine(command, given \ {x}, {}) : x \in given}

\* One option is there and does not parse, be it one with a default.
Garbled(command, given, extra) ==
    {MCLine(command, given \cup {x}, {x}) : x \in given \cup extra}

AllSetups == {GoodSetup} \cup Short("setup", SetupOptions)
             \cup Garbled("setup", SetupOptions, {"cron_time", "bucket_name"})

AllRuns ==
    {GoodRun}
    \cup UNION {Short("run", RunOptions(p, l)) : p \in {"sharp", "atlantic"},
                                                 l \in {"ethereum", "starknet"}}
    \cup Garbled("run", RunOptions("atlantic", "starknet"), {"snos_layout_name", "port"})
    \cup {MCLine("run", RunOptions("sharp", "ethereum") \cup {x}, {}) :
            x \in OptionsOf(AtlanticCliArgs) \cup OptionsOf(StarknetSettlementCliArgs)}

MCCase(setup, run, region, cron, target, admits) ==
    [setup |-> setup, run |-> run, region |-> region, cron |-> cron, target |-> target,
     admits |-> admits]

MCDeployments ==
    {MCCase(GoodSetup, GoodRun, "us-east-1", "rule", t, TRUE) : t \in {"trigger", "elsewhere"}}
    \cup {MCCase(GoodSetup, GoodRun, "eu-west-1", "rule", "trigger", TRUE)}
    \cup {MCCase(GoodSetup, GoodRun, "us-east-1", c, "trigger", FALSE) :
            c \in {"rule", "schedule"}}
    \cup {MCCase(s, MCLine("run", {}, {}), "us-east-1", "rule", "trigger", TRUE) :
            s \in AllSetups}
    \cup {MCCase(MCLine("setup", {}, {}), r, "us-east-1", "rule", "trigger", TRUE) :
            r \in AllRuns}
===============================================================================
