----------------------------- MODULE MCExtclean -----------------------------
(* One file of each kind: Claude's hooks and MCP servers, Codex's tables.  *)
EXTENDS Extclean

CONSTANTS hooks, servers, config, extensions, claude, codex, cursor, n1, n2

ThreeFiles == {hooks, servers, config}
ThreeScanned == <<hooks, servers, config>>
ThreeRanks == [f \in ThreeFiles |-> CASE f = hooks -> 1 [] f = servers -> 2 [] f = config -> 3]
ThreeTools == [f \in ThreeFiles |-> IF f = config THEN codex ELSE claude]
ThreeKinds == [f \in ThreeFiles |-> CASE f = hooks -> "value" [] f = servers -> "key" [] f = config -> "table"]

To(id, target) == [id |-> id, target |-> target, form |-> "plain"]
Respelled(id, target) == [id |-> id, target |-> target, form |-> "respelled"]
Subtable(id) == [id |-> id, target |-> Nothing, form |-> "subtable"]

ThreeStarts ==
  {[f \in ThreeFiles |-> CASE f = hooks -> h [] f = servers -> s [] f = config -> c] :
     h \in {<<To(n1, n1), To(n2, n2)>>, <<To(n1, n1), To(n1, n1)>>},
     s \in {<<To(n1, n2)>>},
     c \in {<<To(n1, n1), Subtable(n1)>>, <<Respelled(n2, n2), Subtable(n1)>>}}

(* Cursor's extensions: two versions of one extension.                     *)
Extensions == {extensions}
ExtensionsScanned == <<extensions>>
ExtensionsRank == [f \in Extensions |-> 1]
ExtensionsTool == [f \in Extensions |-> cursor]
ExtensionsKind == [f \in Extensions |-> "name"]
Versions == {[f \in Extensions |-> <<To(n1, n1), To(n1, n2)>>]}

(* Claude's MCP servers: one, under its key.                               *)
Servers == {servers}
ServersScanned == <<servers>>
ServersRank == [f \in Servers |-> 1]
ServersTool == [f \in Servers |-> claude]
ServersKind == [f \in Servers |-> "key"]
OneServer == {[f \in Servers |-> <<To(n1, n2)>>]}
=============================================================================
