----------------------------- MODULE MCToolkit -----------------------------
(* Small assemblies and command lines for the module Toolkit.              *)
EXTENDS Toolkit

McStacks == {1, 2, 3}
McNames == {1, 2, 3, 4}
McEnvs == {"dev", "prod"}

\* Every way three stacks may depend on each other, circles included.
Dependencies == {d \in [McStacks -> SUBSET McStacks] : \A s \in McStacks : s \notin d[s]}

MakeApp(names, envs, deps, empties) ==
  [name |-> names, env |-> envs, deps |-> deps, empty |-> empties, outputs |-> McStacks]

Ids == [s \in McStacks |-> s]
AllInDev == [s \in McStacks |-> "dev"]

\* Stacks named after their ids, as they are by default.
PlainApps == {MakeApp(Ids, AllInDev, d, e) : d \in Dependencies, e \in {{}, {2}}}

\* One name for two stacks of different environments.
TwinApps ==
  {MakeApp([s \in McStacks |-> IF s = 3 THEN 3 ELSE 4],
           [s \in McStacks |-> IF s = 1 THEN "dev" ELSE "prod"], [s \in McStacks |-> {}], {})}

\* Stacks with names of their own, one of them the id of another stack.
RenamedApps ==
  {MakeApp([s \in McStacks |-> s + 1], AllInDev, [s \in McStacks |-> {}], {1, 2})}

Make(op, patterns, exclusively) ==
  [op |-> op, patterns |-> patterns, exclusively |-> exclusively]

\* Patterns without a stack in common, and one that matches nothing.
Selections == {<<>>, <<{1}>>, <<{2}, {1}>>, <<{3}, {1, 2}>>, <<{2}, {}>>}
PlainCommands ==
  {Make(op, p, x) : op \in {"deploy", "destroy"}, p \in Selections, x \in BOOLEAN}

DeployAll == Make("deploy", <<{1, 2, 3}>>, FALSE)

\* The id of a stack and a wildcard.
Overlapping == {Make("deploy", <<{1, 2, 3}, {1}>>, FALSE), Make("deploy", <<{1}, {1, 2, 3}>>, FALSE)}

McApps == PlainApps \cup TwinApps \cup RenamedApps
McCommands == PlainCommands \cup Overlapping \cup {DeployAll}

=============================================================================
