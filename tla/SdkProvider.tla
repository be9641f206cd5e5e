------------------------------ MODULE SdkProvider ------------------------------
(***************************************************************************)
(* How the toolkit comes by credentials (aws-cdk/lib/api/aws-auth:         *)
(* sdk-provider.ts, credential-plugins.ts, sdk.ts): any number of          *)
(* processes, each with the credentials of its environment and one         *)
(* SdkProvider, which remembers what it found out, and the cache of        *)
(* accounts all of them share.                                             *)
(*                                                                         *)
(* Outside are the chain of default credentials, the plugins, and STS,     *)
(* which says whose an access key is and hands out roles, or does not.     *)
(* Credentials are their access key.  Regions and HTTP options are left    *)
(* out; the name of a role is the account it is in.                        *)
(***************************************************************************)
EXTENDS AccountCache

CONSTANTS Processes,
          AccountOf,    \* the account of every access key
          Modes,        \* for reading, for writing
          Unknown,      \* UNKNOWN_ACCOUNT
          None,         \* no key, no account, no role
          Unset,        \* not found out yet
          Roles,        \* the accounts of roles to assume
          Plugins,      \* what plugins may provide, see plugin
          MaxOps,       \* bound: calls of the provider, all processes together
          MaxTroubles   \* bound: failures of STS and of the disk, kills of processes

ASSUME ConstantsAssumption ==
  /\ IsFiniteSet(Keys) /\ AccountOf \in [Keys -> Accounts] /\ Roles \subseteq Accounts
  /\ Plugins \subseteq {f \in [Accounts \X Modes -> Keys \cup {None}] :
                         \A x \in Accounts \X Modes : f[x] = None \/ AccountOf[f[x]] = x[1]}
  /\ MaxEntries \in Nat \ {0} /\ MaxOps \in Nat /\ MaxTroubles \in Nat
  /\ {Unknown, None, Unset} \cap (Keys \cup Accounts) = {}
  /\ Unknown # None /\ None # Unset /\ Unset # Unknown

VARIABLES
  ambient,    \* the key of the default credentials of each process, or none
  plugin,     \* the key plugins provide for an account and a mode, or none
  me,         \* the state of each process, see Process
  ops, troubles

vars == <<file, ambient, plugin, me, ops, troubles>>

Op == [kind : {"sdk", "partition"}, account : Accounts \cup {Unknown}, mode : Modes,
       role : Roles \cup {None}]
NoOp == [kind |-> "none"]

Source == {"correctDefault", "plugin", "incorrectDefault"}
NoBase == [source |-> "none"]

\* The result of a call: an error, the credentials of forEnvironment, of their own or
\* for a role, or the account that baseCredentialsPartition found, if any.
Result == [kind : {"none", "error", "undefined"}]
          \cup [kind : {"credentials"}, key : Keys]
          \cup [kind : {"role"}, account : Accounts]
          \cup [kind : {"partition"}, key : Keys, account : Accounts]

\* defaultAccount: CACHED_ACCOUNT, with None for undefined; found: the plugin cache;
\* op: the call under way; base: its base credentials; fetching: the key whose account
\* is looked up; map: the cache as put loaded it; unlucky (history): STS or the disk
\* failed when the default account was asked for.
Process == [pc : {"idle", "resolve", "get", "sts", "put", "open", "write", "base", "assume"},
            defaultAccount : Accounts \cup {None, Unset},
            found : [Accounts \X Modes -> Keys \cup {None, Unset}],
            op : Op \cup {NoOp},
            base : [source : Source, key : Keys] \cup {NoBase},
            fetching : Keys \cup {None}, map : Map,
            result : Result, unlucky : BOOLEAN]

NewProcess == [pc |-> "idle", defaultAccount |-> Unset,
               found |-> [x \in Accounts \X Modes |-> Unset], op |-> NoOp, base |-> NoBase,
               fetching |-> None, map |-> NoEntries, result |-> [kind |-> "none"],
               unlucky |-> FALSE]

TypeOK ==
  /\ file \in File
  /\ ambient \in [Processes -> Keys \cup {None}]
  /\ plugin \in [Accounts \X Modes -> Keys \cup {None}]
  /\ me \in [Processes -> Process]
  /\ ops \in 0..MaxOps /\ troubles \in 0..MaxTroubles

Init ==
  /\ file \in {[state |-> state, map |-> NoEntries] : state \in {"missing", "denied"}}
  /\ ambient \in [Processes -> Keys \cup {None}]
  /\ plugin \in Plugins
  /\ me = [p \in Processes |-> NewProcess]
  /\ ops = 0 /\ troubles = 0

-----------------------------------------------------------------------------
At(p, pc) == me[p].pc = pc
Goto(p, pc) == me' = [me EXCEPT ![p] = [me[p] EXCEPT !.pc = pc]]
Given == UNCHANGED <<ambient, plugin, ops>>
Smooth == UNCHANGED troubles
Trouble == troubles < MaxTroubles /\ troubles' = troubles + 1

\* The call under way ends.
Return(p, result) ==
  me' = [me EXCEPT ![p] = [me[p] EXCEPT !.pc = "idle", !.op = NoOp, !.base = NoBase,
                                         !.fetching = None, !.result = result]]
Error == [kind |-> "error"]

\* forEnvironment or baseCredentialsPartition is called.  Both need the default
\* account first, to resolve the environment and to choose the base credentials.
Call(p, op) ==
  /\ At(p, "idle") /\ ops < MaxOps
  /\ op.kind = "partition" => op.role = None
  /\ me' = [me EXCEPT ![p] =
       [me[p] EXCEPT !.op = op, !.result = [kind |-> "none"],
                     !.pc = IF me[p].defaultAccount = Unset THEN "resolve" ELSE "base"]]
  /\ ops' = ops + 1
  /\ UNCHANGED <<file, ambient, plugin, troubles>>

-----------------------------------------------------------------------------
(* currentAccount, and with it the cache's fetch.                          *)

\* The account of the key that is looked up is known; this was for the default
\* account, or for the partition of the base credentials.
Resolved(p, account) ==
  IF me[p].base = NoBase
  THEN me' = [me EXCEPT ![p] = [me[p] EXCEPT !.pc = "base", !.defaultAccount = account,
                                              !.fetching = None]]
  ELSE Return(p, [kind |-> "partition", key |-> me[p].fetching, account |-> account])

\* What is thrown on the way: no default account, or no partition.
NotResolved(p) ==
  IF me[p].base = NoBase
  THEN me' = [me EXCEPT ![p] = [me[p] EXCEPT !.pc = "base", !.defaultAccount = None,
                                              !.fetching = None, !.unlucky = ambient[p] # None]]
  ELSE Return(p, Error)

Fetch(p, key) == [me[p] EXCEPT !.pc = "get", !.fetching = key]

\* defaultAccount, which is kept whatever comes of it.
ResolveDefault(p) ==
  /\ At(p, "resolve")
  /\ IF ambient[p] = None THEN NotResolved(p)
     ELSE me' = [me EXCEPT ![p] = Fetch(p, ambient[p])]
  /\ Given /\ Smooth /\ UNCHANGED file

Get(p) ==
  /\ At(p, "get")
  /\ IF me[p].fetching \in DOMAIN LoadMap THEN Resolved(p, LoadMap[me[p].fetching])
     ELSE Goto(p, "sts")
  /\ Given /\ Smooth /\ UNCHANGED file

AskSts(p) ==
  /\ At(p, "sts")
  /\ \/ Goto(p, "put") /\ Smooth
     \/ NotResolved(p) /\ Trouble
  /\ Given /\ UNCHANGED file

\* Put loads the map once more.
Put(p) ==
  /\ At(p, "put")
  /\ LET key == me[p].fetching IN
       me' = [me EXCEPT ![p] = [me[p] EXCEPT !.pc = "open",
                                   !.map = WithEntry(LoadMap, key, AccountOf[key])]]
  /\ Given /\ Smooth /\ UNCHANGED file

Open(p) ==
  /\ At(p, "open")
  /\ \/ OpenMap /\ Goto(p, "write")
     \/ CannotOpen /\ Resolved(p, AccountOf[me[p].fetching])
  /\ Given /\ Smooth

Write(p) ==
  /\ At(p, "write")
  /\ WriteMap(me[p].map)
  /\ Resolved(p, AccountOf[me[p].fetching])
  /\ Given /\ Smooth

\* What loadMap or saveMap throws fetch lets pass, even if STS has answered.
DiskFails(p) ==
  /\ \/ me[p].pc \in {"get", "put"} /\ LoadFails
     \/ At(p, "open") /\ OpenFails
     \/ At(p, "write") /\ WriteFails
  /\ NotResolved(p)
  /\ Given /\ Trouble

-----------------------------------------------------------------------------
(* The base credentials, and what is made of them.                         *)

\* resolveEnvironment: None if the account is unknown and stays so.
TargetAccount(p) ==
  IF me[p].op.account = Unknown THEN me[p].defaultAccount ELSE me[p].op.account

\* fetchCredentialsFor: what was found before, and that nothing was, is kept.
FromPlugin(p, account, mode) ==
  IF me[p].found[<<account, mode>>] = Unset THEN plugin[<<account, mode>>] ELSE me[p].found[<<account, mode>>]

\* The key and source of the base credentials, or none.
ObtainBaseCredentials(p) ==
  LET account == TargetAccount(p)
      default == me[p].defaultAccount
      provided == FromPlugin(p, account, me[p].op.mode) IN
    IF default = account THEN [source |-> "correctDefault", key |-> ambient[p]]
    ELSE IF provided # None THEN [source |-> "plugin", key |-> provided]
    ELSE IF default # None THEN [source |-> "incorrectDefault", key |-> ambient[p]]
    ELSE NoBase

\* Mutant: the fallback is there for whatever credentials there are.
GoesWithoutRoleAlways(base) == TRUE

\* Mutant: the fallback is there for the default credentials only.
GoesWithoutRoleByDefault(base) == base.source = "correctDefault"

\* Whether the base credentials will do where the role cannot be assumed.
GoesWithoutRole(base) == base.source \in {"correctDefault", "plugin"}

Credentials(base) == [kind |-> "credentials", key |-> base.key]

\* What the plugins said is kept, if they were asked.
Remember(p) ==
  IF me[p].defaultAccount = TargetAccount(p) THEN me[p].found
  ELSE [me[p].found EXCEPT ![<<TargetAccount(p), me[p].op.mode>>] =
          FromPlugin(p, TargetAccount(p), me[p].op.mode)]

\* The base credentials are chosen; without a role to assume they are all there is to
\* forEnvironment, and must be for the right account.
Choose(p) ==
  /\ At(p, "base")
  /\ LET base == ObtainBaseCredentials(p)
         asked == [me[p] EXCEPT !.found = Remember(p)]
         done(result) == [asked EXCEPT !.pc = "idle", !.op = NoOp, !.result = result] IN
       me' = [me EXCEPT ![p] =
         IF base = NoBase
         THEN done(IF me[p].op.kind = "partition" THEN [kind |-> "undefined"] ELSE Error)
         ELSE IF me[p].op.kind = "partition"
         THEN [asked EXCEPT !.pc = "get", !.base = base, !.fetching = base.key]
         ELSE IF me[p].op.role # None THEN [asked EXCEPT !.pc = "assume", !.base = base]
         ELSE done(IF base.source = "incorrectDefault" THEN Error ELSE Credentials(base))]
  /\ TargetAccount(p) # None
  /\ Given /\ Smooth /\ UNCHANGED file

\* resolveEnvironment: neither the stack nor the environment names an account.
NoAccount(p) ==
  /\ At(p, "base") /\ TargetAccount(p) = None
  /\ Return(p, Error)
  /\ Given /\ Smooth /\ UNCHANGED file

\* STS hands out the role, or refuses and the base credentials may have to do.
AssumeRole(p) ==
  /\ At(p, "assume")
  /\ LET base == me[p].base IN
       \/ Return(p, [kind |-> "role", account |-> me[p].op.role])
       \/ /\ GoesWithoutRole(base)
          /\ Return(p, Credentials(base))
       \/ ~GoesWithoutRole(base) /\ Return(p, Error)
  /\ Given /\ Smooth /\ UNCHANGED file

\* The process is killed, and started again later.
Killed(p) ==
  /\ ~At(p, "idle") /\ Trouble
  /\ me' = [me EXCEPT ![p] = NewProcess]
  /\ Given /\ UNCHANGED file

ProcessStep(p) ==
  \/ \E op \in Op : Call(p, op)
  \/ ResolveDefault(p) \/ Get(p) \/ AskSts(p) \/ Put(p) \/ Open(p) \/ Write(p) \/ DiskFails(p)
  \/ Choose(p) \/ NoAccount(p) \/ AssumeRole(p)

Next == \E p \in Processes : ProcessStep(p) \/ Killed(p)

Spec == Init /\ [][Next]_vars

-----------------------------------------------------------------------------
(* Properties.                                                             *)

Right(map) == \A key \in DOMAIN map : map[key] = AccountOf[key]

\* Whatever processes write over each other, and whenever one of them is killed, what
\* the cache tells of a key is true, as is what a process keeps (loadMap takes a file
\* cut short or mixed up for empty), and it never grows beyond MAX_ENTRIES.
CacheIsSound ==
  /\ Right(file.map) /\ Cardinality(DOMAIN file.map) <= MaxEntries
  /\ \A p \in Processes :
       /\ Right(me[p].map) /\ Cardinality(DOMAIN me[p].map) <= MaxEntries
       /\ me[p].defaultAccount \in Accounts =>
            ambient[p] # None /\ me[p].defaultAccount = AccountOf[ambient[p]]

\* The account a call is about, going by what is rather than by what was found out.
Wanted(p) ==
  IF me[p].op.account # Unknown THEN me[p].op.account
  ELSE IF ambient[p] = None THEN None ELSE AccountOf[ambient[p]]

\* Where the call is: the account of the default credentials is looked up first, then
\* that of the base credentials, if at all.
CallIsOnItsWay(p) ==
  /\ me[p].pc = "idle" <=> me[p].op = NoOp
  /\ me[p].pc \in {"idle", "resolve", "base"} => me[p].base = NoBase
  /\ me[p].pc \in {"base", "assume"} => me[p].defaultAccount # Unset
  /\ me[p].pc = "assume" => me[p].base # NoBase /\ me[p].op.role # None
  /\ me[p].pc \in {"get", "sts", "put", "open", "write"} =>
       /\ me[p].fetching \in Keys
       /\ me[p].fetching = IF me[p].base = NoBase THEN ambient[p] ELSE me[p].base.key

\* The base credentials are what their source says they are.
BaseIsRight(p) ==
  me[p].base # NoBase =>
    /\ me[p].op # NoOp /\ Wanted(p) \in Accounts
    /\ me[p].base.source = "plugin" => me[p].base.key = plugin[<<Wanted(p), me[p].op.mode>>]
    /\ me[p].base.source # "plugin" => me[p].base.key = ambient[p]
    /\ me[p].base.source = "incorrectDefault" <=> AccountOf[me[p].base.key] # Wanted(p)
    /\ me[p].base.source = "incorrectDefault" => plugin[<<Wanted(p), me[p].op.mode>>] = None

\* What a process remembers: what the plugins said, and no default account only if
\* there are no credentials, or STS or the disk failed.
MemoryIsRight(p) ==
  /\ \A x \in Accounts \X Modes : me[p].found[x] \in {Unset, plugin[x]}
  /\ me[p].defaultAccount = None => me[p].unlucky \/ ambient[p] = None

\* What the answers rest on: the shared cache, the memory of every process and the
\* call it is at.
CacheInv ==
  /\ TypeOK /\ plugin \in Plugins /\ CacheIsSound
  /\ \A p \in Processes : CallIsOnItsWay(p) /\ BaseIsRight(p) /\ MemoryIsRight(p)

Returns(p) == me[p].op # NoOp /\ me'[p].op = NoOp /\ me'[p].result.kind # "none"

\* forEnvironment never hands out credentials for another account than the one asked
\* for, nor those a plugin gave for another mode, be it by what it remembers, by the
\* cache or where it goes on without a role; and the partition is the one of the
\* credentials.
CredentialsAreRight ==
  [][\A p \in Processes : Returns(p) =>
       LET result == me'[p].result IN
         /\ result.kind = "credentials" =>
              /\ AccountOf[result.key] = Wanted(p)
              /\ result.key \in {ambient[p], plugin[<<Wanted(p), me[p].op.mode>>]}
         /\ result.kind = "role" => result.account = me[p].op.role
         /\ result.kind = "partition" => result.account = AccountOf[result.key]]_vars

\* A call fails only if neither the environment nor a plugin has credentials for the
\* account, or STS did not answer, or the file of the cache could not be read or
\* written for a reason other than those account-cache.ts expects (lines 85-88 and
\* 98-100), now or when the default account was asked for, which is never asked again.
FailsForCause ==
  [][\A p \in Processes :
       Returns(p) /\ me'[p].result \in {Error, [kind |-> "undefined"]} =>
         \/ me[p].unlucky \/ troubles' # troubles
         \/ Wanted(p) = None
         \/ /\ ambient[p] = None \/ AccountOf[ambient[p]] # Wanted(p)
            /\ plugin[<<Wanted(p), me[p].op.mode>>] = None]_vars

=============================================================================
