------------------------------ MODULE PluginRun ------------------------------
(* One run of a Steel plugin (xo/src/steel_plugin.rs, main.rs): what its program asks of  *)
(* the host, how the run ends, and what is then done to the workspace.                   *)
(*                                                                                      *)
(* A plugin is not trusted: it may ask for anything, in any order, go on after a refusal, *)
(* and return what it likes.                                                            *)
EXTENDS Naturals, Sequences, FiniteSets

CONSTANTS
    PluginHosts,   \* network addresses
    PublicHosts,   \* those a plugin may reach
    GrantSets,     \* what the configuration may grant the action
    MaxCalls       \* bound: calls to the host

Capabilities == {"read-secret", "network", "mutate-note", "create-note"}
Operations == {"update", "create"}

ASSUME PluginAssumption ==
    /\ PublicHosts \subseteq PluginHosts /\ MaxCalls \in Nat
    /\ GrantSets \subseteq SUBSET Capabilities

VARIABLES
    grants,     \* capability_grants of the action in the configuration
    plug,       \* the run: where it is, its capabilities, queued and remaining operations
    pluginSaw,  \* addresses contacted, and whether a secret was read
    saved       \* operations applied to the workspace, in order

pluginVars == <<grants, plug, pluginSaw, saved>>

FreshRun(where, caps) ==
    [at |-> where, caps |-> caps, calls |-> 0, queued |-> <<>>, todo |-> <<>>,
     choices |-> FALSE]
GoesOn == plug' = [plug EXCEPT !.calls = @ + 1]
Calls == plug.at = "running" /\ plug.calls < MaxCalls

\* action: everything the action declares must be granted.
MayRun(declared) == declared \subseteq grants

\* Enter in the plugin's prompt.  The action is looked up without a note, so one that is
\* limited to some notes is refused; so is a source that is missing or too large.
PluginStarts(declared) ==
    /\ plug.at = "closed"
    /\ \/ MayRun(declared) /\ plug' = FreshRun("running", declared)
       \/ plug' = [plug EXCEPT !.at = "over"]
    /\ UNCHANGED <<grants, pluginSaw, saved>>

\* xo-secret, of a well-formed name.
ReadSecret ==
    /\ Calls /\ GoesOn
    /\ pluginSaw' = [pluginSaw EXCEPT !.secret = @ \/ "read-secret" \in plug.caps]
    /\ UNCHANGED <<grants, saved>>

\* The capability an operation needs.
Needs(kind) == IF kind = "update" THEN "mutate-note" ELSE "create-note"

\* xo-update-items and xo-create-item queue operations of their own kind.
Queue(kind) ==
    /\ Calls
    /\ plug' = [plug EXCEPT !.calls = @ + 1,
                   !.queued = IF Needs(kind) \in plug.caps THEN Append(@, kind) ELSE @]
    /\ UNCHANGED <<grants, pluginSaw, saved>>

\* What get_http and post_json refuse before they connect: no https, credentials in the
\* URL, an address that is not public, a header that is not allowed, too large a body.
Acceptable(request, found) ==
    /\ request.https /\ ~request.credentials /\ request.plain
    /\ found # {} /\ found \subseteq PublicHosts

\* The connection goes to an address that was looked up and checked, never to a second
\* lookup, through a proxy or along a redirect; the answer may be refused for its size.
HttpCall(request, found) ==
    /\ Calls /\ GoesOn
    /\ IF "network" \in plug.caps /\ Acceptable(request, found)
       THEN \E a \in found : pluginSaw' = [pluginSaw EXCEPT !.contacted = @ \cup {a}]
       ELSE UNCHANGED pluginSaw
    /\ UNCHANGED <<grants, saved>>

\* The operations in the returned text are kept.
PluginReturns_Own(returned, choices) ==
    /\ plug.at = "running"
    /\ IF choices /\ "create-note" \notin plug.caps
       THEN plug' = [plug EXCEPT !.at = "over"]
       ELSE plug' = [plug EXCEPT !.at = "applying", !.todo = plug.queued \o returned,
                                 !.choices = choices]
    /\ UNCHANGED <<grants, pluginSaw, saved>>

\* The entry point returned a result: the operations in it are replaced by the queued ones,
\* and choices need the capability to create notes.
PluginReturns(returned, choices) ==
    /\ plug.at = "running"
    /\ IF choices /\ "create-note" \notin plug.caps
       THEN plug' = [plug EXCEPT !.at = "over"]
       ELSE plug' = [plug EXCEPT !.at = "applying", !.todo = plug.queued,
                                 !.choices = choices]
    /\ UNCHANGED <<grants, pluginSaw, saved>>

\* The program raises an error, is interrupted after 25 seconds, or returns something that
\* is not a result or too large: nothing of what it queued is applied.
PluginFails ==
    /\ plug.at = "running"
    /\ plug' = [plug EXCEPT !.at = "over"]
    /\ UNCHANGED <<grants, pluginSaw, saved>>

\* apply_plugin_operations: one after the other; one that cannot be applied or saved ends
\* the program, after those before it were saved.
ApplyNext ==
    /\ plug.at = "applying" /\ plug.todo # <<>>
    /\ \/ /\ saved' = Append(saved, Head(plug.todo))
          /\ plug' = [plug EXCEPT !.todo = Tail(@)]
       \/ /\ plug' = [plug EXCEPT !.at = "ended"]
          /\ UNCHANGED saved
    /\ UNCHANGED <<grants, pluginSaw>>

ShowChoices ==
    /\ plug.at = "applying" /\ plug.todo = <<>>
    /\ plug' = [plug EXCEPT !.at = IF plug.choices THEN "offering" ELSE "over"]
    /\ UNCHANGED <<grants, pluginSaw, saved>>

\* add_plugin_result, or escape.
Choose ==
    /\ plug.at = "offering"
    /\ \/ /\ saved' = Append(saved, "create")
          /\ plug' = [plug EXCEPT !.at = "over"]
       \/ plug' = [plug EXCEPT !.at = "over"] /\ UNCHANGED saved
       \/ plug' = [plug EXCEPT !.at = "ended"] /\ UNCHANGED saved
    /\ UNCHANGED <<grants, pluginSaw>>

PluginInit ==
    /\ grants \in GrantSets
    /\ plug = FreshRun("closed", {}) /\ saved = <<>>
    /\ pluginSaw = [contacted |-> {}, secret |-> FALSE]

PluginNext ==
    \/ \E declared \in SUBSET Capabilities : PluginStarts(declared)
    \/ ReadSecret \/ (\E kind \in Operations : Queue(kind))
    \/ \E request \in [https : BOOLEAN, credentials : BOOLEAN, plain : BOOLEAN],
          found \in SUBSET PluginHosts : HttpCall(request, found)
    \/ \E returned \in {<<>>} \cup {<<k>> : k \in Operations}, choices \in BOOLEAN :
          PluginReturns(returned, choices)
    \/ PluginFails \/ ApplyNext \/ ShowChoices \/ Choose

PluginSpec == PluginInit /\ [][PluginNext]_pluginVars

-----------------------------------------------------------------------------
(* Properties *)

PluginTypeOK ==
    /\ grants \subseteq Capabilities
    /\ plug \in [at : {"closed", "running", "applying", "offering", "over", "ended"},
                 caps : SUBSET Capabilities, calls : Nat, queued : Seq(Operations),
                 todo : Seq(Operations), choices : BOOLEAN]
    /\ pluginSaw \in [contacted : SUBSET PluginHosts, secret : BOOLEAN]
    /\ saved \in Seq(Operations)

\* What a plugin changes it asked the host for, in that order and under a capability the
\* configuration grants, in a run that succeeded, whatever its program returns; it reaches
\* public addresses only (steel_plugin.rs:207-301, 305-437, main.rs:1069-1138).
PluginWithinGrants ==
    /\ \A n \in 1 .. Len(saved) :
          /\ Needs(saved[n]) \in grants
          /\ saved[n] = IF n <= Len(plug.queued) THEN plug.queued[n] ELSE "create"
    /\ Len(saved) <= Len(plug.queued) + (IF plug.choices THEN 1 ELSE 0)
    /\ pluginSaw.contacted # {} => "network" \in grants
    /\ pluginSaw.contacted \subseteq PublicHosts
=============================================================================
