------------------------------- MODULE MCCli -------------------------------
(* Small instances of Cli, with commands of the firmware's own table. *)
EXTENDS Cli, CommandTable

CONSTANTS Chosen,     \* the codes of the instance
          TestMode    \* is it the build with TEST_MODE?

NoByte == "NUL"

\* "?" stands for every byte that is not a registered code.
MCByte == Chosen \cup {NoByte, "?"}

Registered == Table(IF TestMode THEN ReleaseCommands \o TestCommands ELSE ReleaseCommands)

MCTypes == {CLI_CMD_SIMPLE, CLI_CMD_NETWORK}
MCSize == [c \in Chosen |-> SizeIn(Registered)[c]]
MCType == [c \in Chosen |-> TypeIn(Registered)[c]]
=============================================================================
