---------------------------- MODULE CommandTable ----------------------------
(***************************************************************************)
(* The commands that init() in app/application.cpp registers with the      *)
(* command line interpreter, in the order of registration.                 *)
(***************************************************************************)
EXTENDS Naturals, Sequences, SequencesExt

\* The command types of lib/core/cli.h; CRITICAL is declared there and unused.
CLI_CMD_SIMPLE == "SIMPLE"
CLI_CMD_NETWORK == "NETWORK"

Entry(code, size, type) == [code |-> code, size |-> size, type |-> type]

ReleaseCommands == <<
  Entry("0", 0, CLI_CMD_SIMPLE),    \* PROTOCOL_COMMAND_CONFIG
  Entry("1", 1, CLI_CMD_NETWORK),   \* PROTOCOL_COMMAND_SMOKE
  Entry("2", 1, CLI_CMD_NETWORK),   \* PROTOCOL_COMMAND_TEMPERATURE
  Entry("3", 1, CLI_CMD_NETWORK),   \* PROTOCOL_COMMAND_MOTION
  Entry("4", 1, CLI_CMD_NETWORK),   \* PROTOCOL_COMMAND_BATTERY
  Entry("o", 1, CLI_CMD_NETWORK) >>

\* With ENABLE_JSVM and ENABLE_WEBSERVER, which are off by default.
TestCommands == <<
  Entry("c", 0, CLI_CMD_SIMPLE), Entry("l", 0, CLI_CMD_SIMPLE), Entry("w", 1, CLI_CMD_SIMPLE),
  Entry("j", 1, CLI_CMD_SIMPLE), Entry("s", 1, CLI_CMD_SIMPLE), Entry("m", 0, CLI_CMD_NETWORK),
  Entry("r", 1, CLI_CMD_SIMPLE), Entry("f", 0, CLI_CMD_SIMPLE), Entry("x", 0, CLI_CMD_SIMPLE),
  Entry("t", 3, CLI_CMD_SIMPLE), Entry("k", 1, CLI_CMD_SIMPLE) >>

\* Cli::addCommand: a code that is taken keeps its first definition.
AddCommand(table, c) ==
  IF c.code \in DOMAIN table THEN table
  ELSE [k \in DOMAIN table \cup {c.code} |->
          IF k = c.code THEN [size |-> c.size, type |-> c.type] ELSE table[k]]

Table(registrations) == FoldLeft(AddCommand, <<>>, registrations)

SizeIn(table) == [c \in DOMAIN table |-> table[c].size]
TypeIn(table) == [c \in DOMAIN table |-> table[c].type]
=============================================================================
