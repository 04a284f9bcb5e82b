-------------------------- MODULE MCWorkspaceConfig --------------------------
(* Two clients whose clocks agree, one edit of the configuration and one plugin command. *)
EXTENDS WorkspaceConfig

MCConfigBudget == {[edits |-> 1, commands |-> 1, starts |-> 2]}
MCLag == [c \in Editors |-> 0]
MCDrafts ==
    {[views |-> FALSE, actions |-> {"p"}, twice |-> FALSE],
     [views |-> TRUE, actions |-> {"q"}, twice |-> FALSE],
     [views |-> TRUE, actions |-> {}, twice |-> TRUE]}
=============================================================================
