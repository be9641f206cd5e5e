------------------------- MODULE MCStackReferences -------------------------
\* Three trees of stacks, one of them two levels deep, and a stack that is in
\* another environment and another stage.
EXTENDS StackReferences

CONSTANTS P, A, C, B, Q, D, S, R, env1, env2, stage1, stage2

MCStacks == {P, A, C, B, Q, D, S, R}
MCParent == [s \in MCStacks |-> CASE s \in {A, B} -> P [] s = C -> A [] s = D -> Q [] OTHER -> None]
MCEnv == [s \in MCStacks |-> IF s = R THEN env2 ELSE env1]
MCStage == [s \in MCStacks |-> IF s = R THEN stage2 ELSE stage1]

Near == MCStacks \ {S, R}

\* The elements of the stacks, and pairs of two stacks or of two resources.
ElementsOf(T) == {e \in [stack : T, leads : T \cup {None}] :
                    e.leads \in {None, e.stack} \/ MCParent[e.leads] = e.stack}
Asks(T) == {a \in ElementsOf(T) \X ElementsOf(T) : a[1].leads = None <=> a[2].leads = None}

TopAsks == {<<StackOf(s), StackOf(t)>> : s, t \in {P, Q, S}}

\* None or one.
AtMostOne(T) == {{}} \cup {{x} : x \in T}

\* Two references; a reference and a dependency; three dependencies between
\* trees; any one thing, with parameters for assets.
MCApps ==
  [uses : {{x, y} : x, y \in Near \X Near}, asks : {{}}, legacy : {FALSE}]
  \cup [uses : AtMostOne(Near \X Near), asks : AtMostOne(Asks(Near)), legacy : {FALSE}]
  \cup [uses : {{}}, asks : {{x, y, z} : x, y, z \in TopAsks}, legacy : {FALSE}]
  \cup [uses : AtMostOne(MCStacks \X MCStacks), asks : {{}}, legacy : {TRUE}]
  \cup [uses : {{}}, asks : AtMostOne(Asks({A, R})), legacy : {TRUE}]
=============================================================================
