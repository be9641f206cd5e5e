--------------------------- MODULE MCDeployStack ---------------------------
(***************************************************************************)
(* Instances of DeployStack for TLC: who may ask for what.                 *)
(***************************************************************************)
EXTENDS DeployStack

\* A destruction has only one form: deployment options are kept at one value.
Plain(r) ==
  /\ ~r.tp /\ ~r.force /\ r.execute = "yes" /\ r.changeSetName = Unnamed
  /\ r.inputs = CHOOSE i \in Inputs : TRUE
OneDestruction(r) ==
  r.op = "destroy" => Plain(r) /\ r.template = CHOOSE t \in Templates : TRUE

\* What a command line can ask for, its option execute having a value, and what a
\* caller of the API asks for who leaves the option out.  To save states --force
\* comes alone.
CommandLineRequests ==
  [c \in CLI |-> {r \in Request : /\ r.execute = "undefined" => r.op = "deploy" /\ ~r.tp
                                  /\ r.force => ~r.tp /\ r.execute = "yes"
                                  /\ r.changeSetName = Unnamed
                                  /\ OneDestruction(r)}]

\* Deployments and destructions without options.
PlainRequests == [c \in CLI |-> {r \in Request : Plain(r) /\ OneDestruction(r)}]

\* The same, each invocation having a template of its own to deploy.
RivalRequests ==
  LET template == CHOOSE f \in [CLI -> Templates] : \A c, d \in CLI : f[c] = f[d] => c = d
  IN [c \in CLI |-> {r \in PlainRequests[c] : r.op = "deploy" => r.template = template[c]}]

=============================================================================
