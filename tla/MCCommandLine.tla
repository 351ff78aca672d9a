----------------------------- MODULE MCCommandLine -----------------------------
EXTENDS CommandLine

\* Two updates, two host-ensures, one of each, or one MCP server.
MCSessions == {[a |-> "update", b |-> "update"], [a |-> "ensure", b |-> "ensure"],
               [a |-> "ensure", b |-> "update"], [a |-> "mcp", b |-> "none"]}

\* An installer that may be cancelled, an uninstaller that may not, one
\* without a window, and one whose policy is refused.
MCRecipe(kind, gui, cancel, present) ==
    [kind |-> kind, present |-> present, gui |-> gui, allowCancel |-> cancel,
     bounded |-> TRUE, local |-> TRUE, program |-> "installer"]
MCPolicies == {MCRecipe("install", TRUE, TRUE, TRUE), MCRecipe("uninstall", TRUE, FALSE, FALSE),
               MCRecipe("install", FALSE, TRUE, TRUE), MCRecipe("install", TRUE, TRUE, FALSE)}
=============================================================================
