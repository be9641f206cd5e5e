-------------------------- MODULE StackReferences --------------------------
(***************************************************************************)
(* How the construct core turns references and dependencies between the    *)
(* stacks of an app into CloudFormation (@aws-cdk/core/lib):               *)
(*   - addDependency between two stacks or resources becomes a dependency  *)
(*     of the assembly or a DependsOn in a template (deps.ts, stack.ts);   *)
(*   - resolveReferences wires a value from the stack that has it to the   *)
(*     stack that uses it, through parameters and outputs of nested stacks *)
(*     and through exports (private/refs.ts);                              *)
(*   - the templates of nested stacks become file assets, which add        *)
(*     references of their own, and the references are resolved once more  *)
(*     (private/prepare-app.ts, nested-stack.ts).                          *)
(*                                                                         *)
(* Every stack has one resource of interest with one attribute, and the    *)
(* template of a nested stack is represented in its parent by a resource   *)
(* of its own.  The recursion of resolveValue is taken step by step.       *)
(***************************************************************************)
EXTENDS Naturals, Sequences, FiniteSets

CONSTANTS Stacks,   \* the stacks of the app
          None,
          Parent,   \* nestedStackParent; None: a top-level stack
          Env,      \* the environment of a stack
          Stage,    \* the stage of a stack
          Apps      \* the apps considered

Tops == {s \in Stacks : Parent[s] = None}

\* The stack and the stacks it is nested in (pathToTopLevelStack).
Path == [s \in Stacks |->
           {a \in Stacks : \A X \in SUBSET Stacks :
              (s \in X /\ \A t \in X : Parent[t] \in X \cup {None}) => a \in X}]

ASSUME StacksAssumption ==
  /\ IsFiniteSet(Stacks) /\ None \notin Stacks
  /\ Parent \in [Stacks -> Stacks \cup {None}]
  /\ \A s \in Stacks : \E t \in Path[s] : t \in Tops
  /\ \A s \in Stacks \ Tops : Env[s] = Env[Parent[s]] /\ Stage[s] = Stage[Parent[s]]

TopOf(s) == CHOOSE t \in Path[s] \cap Tops : TRUE
IsNested(s, p) == p \in Path[s] \ {s}
Nested == Stacks \ Tops
Children(s) == {n \in Nested : Parent[n] = s}

\* A stack, its resource, or the resource in it that a nested stack is.
StackOf(s) == [stack |-> s, leads |-> None]
ResourceOf(s) == [stack |-> s, leads |-> s]
NestedStackResource(n) == [stack |-> Parent[n], leads |-> n]
Element == [stack : Stacks, leads : Stacks \cup {None}]

\* The tokens a template may hold.  `in' is the stack whose template defines
\* what the token stands for; an import may be used in any.
Attribute(s) == [kind |-> "attribute", in |-> s, name |-> s, of |-> <<>>]
AssetParameter(n) == [kind |-> "asset", in |-> TopOf(n), name |-> n, of |-> <<>>]
ParameterOf(n, ref) == [kind |-> "parameter", in |-> n, name |-> n, of |-> <<ref>>]
OutputOf(n, ref) == [kind |-> "output", in |-> Parent[n], name |-> n, of |-> <<ref>>]
ImportOf(s, ref) == [kind |-> "import", in |-> None, name |-> s, of |-> <<ref>>]
NoToken == [kind |-> "none", in |-> None, name |-> None, of |-> <<>>]

\* What the user's code has set up: which stack uses the attribute of which,
\* the dependencies it adds, and whether assets are passed by parameters.
App == [uses : SUBSET (Stacks \X Stacks), asks : SUBSET (Element \X Element), legacy : BOOLEAN]

ASSUME AppsAssumption == Apps \subseteq App

VARIABLES
  app,
  phase,      \* "declare", "resolve", "assets", "resolveAgain", "done", "failed"
  asks,       \* calls of addDependency still to come
  deps,       \* _stackDependencies: pairs of top-level stacks
  dependsOn,  \* the DependsOn of the templates: pairs of resources
  uses,       \* the references in properties: where, and to what
  edges,      \* what findAllReferences has found and is not resolved yet
  call,       \* the activation of resolveValue
  params,     \* parameters of nested stacks, with the values the parent passes
  outs,       \* outputs of nested stacks
  exports,    \* exports of top-level stacks
  assigned,   \* replacementTokens of the references
  hashed      \* the templates that have become assets, with what was hashed

vars == <<app, phase, asks, deps, dependsOn, uses, edges, call, params, outs, exports, assigned, hashed>>
wiring == <<params, outs, exports>>
ordering == <<deps, dependsOn>>

\* An activation of resolveValue for a reference in use: the consumer and the
\* reference the recursion has come to, the nested stacks that wait for a
\* parameter, and the value it returns.
Activation(use, consumer, ref, waiting, value) ==
  [use |-> use, consumer |-> consumer, ref |-> ref, waiting |-> waiting, value |-> value]

Idle == Activation(None, None, NoToken, <<>>, NoToken)

Init ==
  /\ app \in Apps
  /\ phase = "declare" /\ asks = app.asks
  /\ deps = {} /\ dependsOn = {}
  /\ uses = {[source |-> u[1], value |-> Attribute(u[2])] : u \in app.uses}
  /\ edges = {} /\ call = Idle
  /\ params = {} /\ outs = {} /\ exports = {} /\ assigned = {}
  /\ hashed = [n \in {} |-> {}]

Throw ==
  /\ phase' = "failed" /\ call' = Idle
  /\ UNCHANGED <<app, asks, ordering, uses, edges, wiring, assigned, hashed>>

-----------------------------------------------------------------------------
(* Dependencies                                                            *)

\* stackDependencyReasons: s depends on t, directly or not.
Reaches(s, t) ==
  \A X \in SUBSET Tops : (s \in X /\ \A d \in deps : d[1] \in X => d[2] \in X) => t \in X

Shared(a, b) == Path[a.stack] \cap Path[b.stack]
Disjoint(a, b) == Shared(a, b) = {}

\* The deepest stack both are in, as an element.
Common(a, b) == StackOf(CHOOSE c \in Shared(a, b) : Path[c] = Shared(a, b))

\* The resource that stands for the element in the template of a stack.
InTemplateOf(c, e) ==
  IF e.stack = c.stack /\ e # c THEN e
  ELSE NestedStackResource(CHOOSE n \in Path[e.stack] : Parent[n] = c.stack)

\* Mutant: only a direct dependency the other way round is noticed.
CycleIfDirect(a, b) == <<TopOf(b.stack), TopOf(a.stack)>> \in deps

\* Mutant: the two are swapped.
CycleSwapped(a, b) == Reaches(TopOf(a.stack), TopOf(b.stack))

Cycle(a, b) == Reaches(TopOf(b.stack), TopOf(a.stack))

\* The dependency of a on b cannot be added.
Refused(a, b) ==
  /\ a # b
  /\ \/ Stage[a.stack] # Stage[b.stack]
     \/ Disjoint(a, b) /\ Cycle(a, b)
     \/ ~Disjoint(a, b) /\ a # Common(a, b) /\ b = Common(a, b)

\* A stack that contains the other one needs no dependency.
NeedsDependsOn(a, b) == a # b /\ ~Disjoint(a, b) /\ a # Common(a, b)

\* Mutant: between two trees only top-level stacks get a dependency.
AssemblyDependencyAsIs(a, b) ==
  IF Disjoint(a, b) /\ {a.stack, b.stack} \subseteq Tops THEN {<<a.stack, b.stack>>} ELSE {}

\* The dependency between the trees of the two, if they are in different ones.
AssemblyDependency(a, b) ==
  IF Disjoint(a, b) THEN {<<TopOf(a.stack), TopOf(b.stack)>>} ELSE {}

Resources(a, b) ==
  IF NeedsDependsOn(a, b)
  THEN {<<InTemplateOf(Common(a, b), a), InTemplateOf(Common(a, b), b)>>} ELSE {}

AddDependency(a, b) ==
  /\ phase = "declare" /\ ~Refused(a, b)
  /\ asks' = asks \ {<<a, b>>}
  /\ deps' = deps \cup AssemblyDependency(a, b)
  /\ dependsOn' = dependsOn \cup Resources(a, b)
  /\ UNCHANGED <<app, phase, uses, edges, call, wiring, assigned, hashed>>

DependencyRefused(a, b) == phase = "declare" /\ Refused(a, b) /\ Throw

-----------------------------------------------------------------------------
(* References                                                              *)

\* Every reference in the templates: in properties, in the values passed to
\* nested stacks, in outputs and in exports.
References ==
  uses
  \cup {[source |-> Parent[p.stack], value |-> p.value] : p \in {q \in params : q.value.kind # "import"}}
  \cup {[source |-> o.stack, value |-> o.ref] : o \in outs \cup exports}

\* Mutant: the references are only resolved once the assets are defined.
FindReferencesLate ==
  /\ phase = "declare" /\ asks = {}
  /\ phase' = "assets" /\ edges' = {}
  /\ UNCHANGED <<app, asks, ordering, uses, call, wiring, assigned, hashed>>

FindReferences ==
  /\ phase = "declare" /\ asks = {}
  /\ phase' = "resolve" /\ edges' = References
  /\ UNCHANGED <<app, asks, ordering, uses, call, wiring, assigned, hashed>>

HasValueForStack(ref, s) == ref.in = s \/ \E a \in assigned : a.ref = ref /\ a.stack = s

Return(v) == call' = Activation(call.use, call.consumer, call.ref, call.waiting, v)

\* resolveReferences takes the next reference.
NextReference(e) ==
  /\ phase \in {"resolve", "resolveAgain"} /\ call = Idle /\ e \in edges
  /\ edges' = edges \ {e}
  /\ call' = IF HasValueForStack(e.value, e.source) THEN Idle
             ELSE Activation(e, e.source, e.value, <<>>, NoToken)
  /\ UNCHANGED <<app, phase, asks, ordering, uses, wiring, assigned, hashed>>

Resolving == call # Idle /\ call.value = NoToken
Producer == call.ref.in

InSameStack ==
  /\ Resolving /\ Producer = call.consumer
  /\ Return(call.ref)
  /\ UNCHANGED <<app, phase, asks, ordering, uses, edges, wiring, assigned, hashed>>

OtherEnvironment ==
  /\ Resolving /\ Producer # call.consumer /\ Env[Producer] # Env[call.consumer]
  /\ Throw

InReach == Resolving /\ Producer # call.consumer /\ Env[Producer] = Env[call.consumer]

\* The consumer is nested in the producer: the parent is to get the value
\* and to pass it by a parameter.
ResolveInParent ==
  /\ InReach /\ IsNested(call.consumer, Producer)
  /\ call' = Activation(call.use, Parent[call.consumer], call.ref,
                         <<call.consumer>> \o call.waiting, NoToken)
  /\ UNCHANGED <<app, phase, asks, ordering, uses, edges, wiring, assigned, hashed>>

\* Mutant: the value is asked for once more as before.
ResolveOutputAgain ==
  /\ InReach /\ ~IsNested(call.consumer, Producer) /\ Producer \in Nested
  /\ outs' = outs \cup {[stack |-> Producer, ref |-> call.ref]}
  /\ UNCHANGED <<app, phase, asks, ordering, uses, edges, call, params, exports, assigned, hashed>>

\* The producer is nested: the value becomes an output of its stack.
ResolveOutput ==
  /\ InReach /\ ~IsNested(call.consumer, Producer) /\ Producer \in Nested
  /\ outs' = outs \cup {[stack |-> Producer, ref |-> call.ref]}
  /\ call' = Activation(call.use, call.consumer, OutputOf(Producer, call.ref), call.waiting, NoToken)
  /\ UNCHANGED <<app, phase, asks, ordering, uses, edges, params, exports, assigned, hashed>>

NeedsImport == InReach /\ ~IsNested(call.consumer, Producer) /\ Producer \in Tops

\* Mutant: what a stack exports is not recorded as a dependency on it.
ResolveImportOnly ==
  /\ NeedsImport /\ ~Refused(StackOf(call.consumer), StackOf(Producer))
  /\ exports' = exports \cup {[stack |-> Producer, ref |-> call.ref]}
  /\ Return(ImportOf(Producer, call.ref))
  /\ UNCHANGED <<app, phase, asks, ordering, uses, edges, params, outs, assigned, hashed>>

ResolveImport ==
  /\ NeedsImport /\ ~Refused(StackOf(call.consumer), StackOf(Producer))
  /\ deps' = deps \cup AssemblyDependency(StackOf(call.consumer), StackOf(Producer))
  /\ exports' = exports \cup {[stack |-> Producer, ref |-> call.ref]}
  /\ Return(ImportOf(Producer, call.ref))
  /\ UNCHANGED <<app, phase, asks, dependsOn, uses, edges, params, outs, assigned, hashed>>

ImportRefused ==
  NeedsImport /\ Refused(StackOf(call.consumer), StackOf(Producer)) /\ Throw

Returning == call # Idle /\ call.value # NoToken

\* Mutant: a nested stack has one parameter for all that comes from a stack.
HasParameterFrom(n, ref) == \E p \in params : p.stack = n /\ p.ref.in = ref.in

\* Parameters are found by the path of the target and the attribute.
HasParameter(n, ref) == \E p \in params : p.stack = n /\ p.ref = ref

\* createNestedStackParameter, on the way back down to the consumer.
PassParameter ==
  /\ Returning /\ call.waiting # <<>>
  /\ LET n == Head(call.waiting) IN
       /\ params' = IF HasParameter(n, call.ref) THEN params
                    ELSE params \cup {[stack |-> n, ref |-> call.ref, value |-> call.value]}
       /\ call' = Activation(call.use, call.consumer, call.ref, Tail(call.waiting),
                              ParameterOf(n, call.ref))
  /\ UNCHANGED <<app, phase, asks, ordering, uses, edges, outs, exports, assigned, hashed>>

AssignValue ==
  /\ Returning /\ call.waiting = <<>>
  /\ assigned' = assigned \cup
       {[ref |-> call.use.value, stack |-> call.use.source, value |-> call.value]}
  /\ call' = Idle
  /\ UNCHANGED <<app, phase, asks, ordering, uses, edges, wiring, hashed>>

Resolved == phase \in {"resolve", "resolveAgain"} /\ call = Idle /\ edges = {}

-----------------------------------------------------------------------------
(* Assets for the templates of nested stacks                               *)

\* What a template contains: its own references and what they are replaced by,
\* its parameters and outputs, and its nested stacks, with the hashes of their
\* templates and the values it passes to them.
Content(s) == [uses |-> {u \in uses : u.source = s},
               values |-> {a \in assigned : a.stack = s},
               params |-> {p.ref : p \in {q \in params : q.stack = s}},
               outs |-> {o \in outs : o.stack = s},
               children |-> DOMAIN hashed \cap Children(s),
               passed |-> {p \in params : Parent[p.stack] = s}]

DefineAssets ==
  /\ Resolved /\ phase = "resolve"
  /\ phase' = IF Nested = {} THEN "done" ELSE "assets"
  /\ UNCHANGED <<app, asks, ordering, uses, edges, call, wiring, assigned, hashed>>

\* Mutant: in any order.
IsNextAssetInAnyOrder(n) == n \notin DOMAIN hashed

\* Post-order: the nested stacks within come first.
IsNextAsset(n) == n \notin DOMAIN hashed /\ Children(n) \subseteq DOMAIN hashed

\* _prepareTemplateAsset; with parameters for assets, the top-level stack
\* gets them and the resource of the nested stack refers to them.
PrepareTemplateAsset(n) ==
  /\ phase = "assets" /\ IsNextAsset(n)
  /\ hashed' = [m \in DOMAIN hashed \cup {n} |-> IF m = n THEN Content(n) ELSE hashed[m]]
  /\ uses' = uses \cup
       (IF app.legacy THEN {[source |-> Parent[n], value |-> AssetParameter(n)]} ELSE {})
  /\ UNCHANGED <<app, phase, asks, ordering, edges, call, wiring, assigned>>

\* Mutant: the references to the assets are not looked at.
ResolveAgainNothing ==
  /\ phase = "assets" /\ DOMAIN hashed = Nested
  /\ phase' = "resolveAgain" /\ edges' = {}
  /\ UNCHANGED <<app, asks, ordering, uses, call, wiring, assigned, hashed>>

ResolveAgain ==
  /\ phase = "assets" /\ DOMAIN hashed = Nested
  /\ phase' = "resolveAgain" /\ edges' = References
  /\ UNCHANGED <<app, asks, ordering, uses, call, wiring, assigned, hashed>>

Prepared ==
  /\ Resolved /\ phase = "resolveAgain"
  /\ phase' = "done"
  /\ UNCHANGED <<app, asks, ordering, uses, edges, call, wiring, assigned, hashed>>

-----------------------------------------------------------------------------
DeclareStep == \E d \in asks : AddDependency(d[1], d[2]) \/ DependencyRefused(d[1], d[2])

ResolveStep ==
  \/ \E e \in edges : NextReference(e)
  \/ InSameStack \/ OtherEnvironment \/ ResolveInParent \/ ResolveOutput
  \/ ResolveImport \/ ImportRefused \/ PassParameter \/ AssignValue

AssetStep == DefineAssets \/ ResolveAgain \/ \E n \in Nested : PrepareTemplateAsset(n)

Next == DeclareStep \/ FindReferences \/ ResolveStep \/ AssetStep \/ Prepared

Spec == Init /\ [][Next]_vars
FairSpec == Spec /\ WF_vars(Next)

-----------------------------------------------------------------------------
(* Properties                                                              *)

\* The activation is for a consumer in the tree of the reference in use.
CallOK ==
  call # Idle =>
    /\ call.use.source \in Stacks /\ call.consumer \in Stacks
    /\ TopOf(call.consumer) = TopOf(call.use.source)
    /\ call.waiting \in Seq({n \in Nested : TopOf(n) = TopOf(call.use.source)})
    /\ call.ref.kind # "import"

TypeOK ==
  /\ app \in App /\ asks \subseteq app.asks
  /\ phase \in {"declare", "resolve", "assets", "resolveAgain", "done", "failed"}
  /\ deps \subseteq Tops \X Tops
  /\ \A e \in uses \cup edges : e.source \in Stacks /\ e.value.kind # "import"
  /\ \A p \in params : p.stack \in Nested
  /\ \A o \in outs \cup exports : o.stack \in Stacks /\ o.ref.kind # "import"
  /\ \A a \in assigned : a.stack \in Stacks
  /\ DOMAIN hashed \subseteq Nested
  /\ CallOK

\* The dependencies between the stacks of the assembly have no cycle: some
\* stack of every group of stacks depends on none of the group (a stack can
\* then be deployed; _addAssemblyDependency refuses what would close a cycle).
AssemblyIsAcyclic ==
  \A X \in (SUBSET Tops) \ {{}} : \E s \in X : \A t \in X : <<s, t>> \notin deps

\* A template imports a value only if its tree depends on the exporting stack,
\* whether the import stands in it or is passed to a nested stack.
ImportsAreOrdered ==
  \A r \in assigned \cup params :
    r.value.kind = "import" => <<TopOf(r.stack), r.value.name>> \in deps

\* The assembly can be deployed stack after stack: no cycle, and no import
\* from a stack that need not be there yet.
AssemblyInv == TypeOK /\ AssemblyIsAcyclic /\ ImportsAreOrdered

\* What a token in a template of stack s is rendered as (CfnReference.resolve).
Rendered(s, v) ==
  IF v.kind # "import" /\ v.in # s /\ \E a \in assigned : a.ref = v /\ a.stack = s
  THEN (CHOOSE a \in assigned : a.ref = v /\ a.stack = s).value ELSE v

\* Where CloudFormation finds the value of a token in a template of stack s.
\* A token defined in another stack leads nowhere.
Lookup(s, v) ==
  LET r == Rendered(s, v)
      passed == {p \in params : p.stack = s /\ r = ParameterOf(s, p.ref)}
  IN CASE r.kind = "parameter" /\ passed # {} ->
            <<Parent[s], (CHOOSE p \in passed : TRUE).value>>
       [] r.kind = "output" /\ r.in = s /\ [stack |-> r.name, ref |-> r.of[1]] \in outs ->
            <<r.name, r.of[1]>>
       [] r.kind = "import" /\ [stack |-> r.name, ref |-> r.of[1]] \in exports ->
            <<r.name, r.of[1]>>
       [] OTHER -> <<s, r>>

\* The places where the value is looked for, one after the other.
Trail(s, v) ==
  LET at[n \in 0 .. 2 * Cardinality(Stacks)] ==
        IF n = 0 THEN <<s, v>> ELSE LET from == at[n - 1] IN Lookup(from[1], from[2])
  IN at

\* A value passes through every stack at most twice.
Meaning(s, v) == Trail(s, v)[2 * Cardinality(Stacks)]

\* Once the app is prepared, what stands for a reference in the template of
\* its consumer leads, by parameters, outputs and exports that exist, to the
\* very attribute in the stack that has it: no reference is left dangling by
\* the two rounds, and none gets the value of another.
ReferencesReachTheirTargets ==
  phase = "done" => \A u \in uses : Meaning(u.source, u.value) = <<u.value.in, u.value>>

\* The element and the resources it is a part of.
Parts(e) == {e} \cup {NestedStackResource(n) : n \in Path[e.stack] \cap Nested}
            \cup (IF e.leads = None /\ e.stack \in Nested THEN {NestedStackResource(e.stack)} ELSE {})

\* CloudFormation or the CLI deals with b before a is done.
ComesAfter(a, b) ==
  \/ a = b
  \/ TopOf(a.stack) # TopOf(b.stack) /\ Reaches(TopOf(a.stack), TopOf(b.stack))
  \/ \E x \in Parts(a), y \in Parts(b) : <<x, y>> \in dependsOn
  \/ a = StackOf(a.stack) /\ a.stack \in Path[b.stack]
  \/ \E n \in Path[b.stack] : a = NestedStackResource(n)

\* In a prepared app the dependencies asked for are kept, and a stack that
\* uses a value of another tree is deployed after the stack that exports it.
DependenciesAreKept ==
  phase = "done" =>
    /\ \A d \in app.asks : ComesAfter(d[1], d[2])
    /\ \A u \in uses : TopOf(u.source) # TopOf(u.value.in) =>
         ComesAfter(StackOf(u.source), StackOf(u.value.in))

\* The asset of the template of a stack nested in n, whose hash is a part of
\* what is hashed for n (or for a stack between the two).
AssetWithin(n, ref) ==
  app.legacy /\ \E m \in Nested : n \in Path[Parent[m]] /\ ref = AssetParameter(m)

\* What has come to the content of a template since it was another.
Additions(is, was) ==
  {a.ref : a \in is.values \ was.values} \cup (is.params \ was.params)
  \cup {p.ref : p \in is.passed \ was.passed}

\* The template of n is the one that was hashed, but for where it finds the
\* assets of the templates nested in it.
Covered(n) ==
  LET is == Content(n)
      was == hashed[n]
  IN /\ is.uses = was.uses /\ is.outs = was.outs /\ is.children = was.children
     /\ was.values \subseteq is.values /\ was.params \subseteq is.params
     /\ was.passed \subseteq is.passed
     /\ \A ref \in Additions(is, was) : AssetWithin(n, ref)

\* The asset of a nested template is named after the hash of its content.  The
\* second round may still add to a template that is hashed, but nothing that
\* the hash does not stand for: with assets that need no parameters nothing at
\* all, otherwise parameters for assets whose hashes were in what was hashed.
HashesAreFinal ==
  phase = "done" => \A n \in Nested : n \in DOMAIN hashed /\ Covered(n)

\* The templates say what the app means, and a template that says something
\* else has another hash.
TemplatesAreComplete == ReferencesReachTheirTargets /\ HashesAreFinal

\* What the references and dependencies of the app come to between trees.
Implied ==
  {<<TopOf(u[1]), TopOf(u[2])>> : u \in app.uses} \cup
  {<<TopOf(d[1].stack), TopOf(d[2].stack)>> : d \in app.asks}

\* An app is refused only if a reference leaves its environment or stage, a
\* dependency leaves its stage, a nested stack is to come after a stack it is
\* a part of, or the trees depend on one another in a circle.
RefusedForCause ==
  phase = "failed" =>
    \/ \E u \in app.uses : Env[u[1]] # Env[u[2]] \/ Stage[u[1]] # Stage[u[2]]
    \/ \E d \in app.asks : Stage[d[1].stack] # Stage[d[2].stack]
    \/ \E d \in app.asks : d[2].leads = None /\ d[2] # d[1] /\ d[2].stack \in Path[d[1].stack]
    \/ \E X \in SUBSET Tops : Cardinality(X) > 1
         /\ \A s \in X : \E t \in X \ {s} : <<s, t>> \in Implied

\* Why these hold.  A reference between trees is one of the app; every other one
\* stays in its tree, because what is passed or put out is defined where it is
\* needed.
Crosses(e) == TopOf(e.source) # TopOf(e.value.in)
Ordered(s, t) == TopOf(s) # TopOf(t) => <<TopOf(s), TopOf(t)>> \in deps
HasOrigin(e) ==
  e.value.in \in Stacks /\ (Crosses(e) => <<e.source, e.value.in>> \in app.uses)

WiresInv ==
  /\ \A e \in uses \cup edges : HasOrigin(e)
  /\ \A o \in outs \cup exports : o.ref.in = o.stack
  /\ \A p \in params : p.value.kind # "import" => p.value.in = Parent[p.stack]
  /\ \A a \in assigned : a.ref.in \in Stacks /\ Ordered(a.stack, a.ref.in)

\* The recursion goes up from the consumer and keeps to the producer's tree; the
\* nested stacks that wait are each within the one before.
CallInv ==
  call # Idle =>
    /\ HasOrigin(call.use)
    /\ \A i \in 1..(Len(call.waiting) - 1) : Parent[call.waiting[i + 1]] = call.waiting[i]
    /\ call.value = NoToken =>
         /\ call.ref.in \in Stacks /\ TopOf(call.ref.in) = TopOf(call.use.value.in)
         /\ call.waiting # <<>> => Parent[call.waiting[1]] = call.consumer
         /\ phase = "resolveAgain" => call.ref.in \in Path[call.consumer]
    /\ call.value # NoToken =>
         /\ Ordered(call.use.source, call.use.value.in)
         /\ call.value.kind # "import" /\ call.waiting # <<>> =>
              call.value.in = Parent[call.waiting[1]]

\* No reference and no dependency is left out.
Settled(u) == HasValueForStack(u.value, u.source) \/ u.value.in \in Path[u.source]
ProgressInv ==
  /\ phase \in {"declare", "assets", "done"} => edges = {}
  /\ phase \in {"declare", "assets", "done", "failed"} => call = Idle
  /\ phase \in {"resolve", "assets", "resolveAgain", "done"} =>
       asks = {} /\ \A u \in uses : u \in edges \/ (call # Idle /\ call.use = u) \/ Settled(u)
  /\ phase = "resolveAgain" => \A e \in edges : Settled(e)
  /\ \A d \in app.asks \ asks : ComesAfter(d[1], d[2])
  /\ deps \subseteq Implied

\* The templates are hashed between the rounds, those nested within first.
HashInv ==
  /\ phase \in {"declare", "resolve"} => DOMAIN hashed = {}
  /\ phase \in {"resolveAgain", "done"} => DOMAIN hashed = Nested
  /\ \A n \in DOMAIN hashed : Children(n) \subseteq DOMAIN hashed

PreparationInv == WiresInv /\ CallInv /\ ProgressInv /\ HashInv /\ RefusedForCause

\* The reference to the asset of a nested template in the template above it.
OfAsset(e) ==
  app.legacy /\ \E m \in Nested : e = [source |-> Parent[m], value |-> AssetParameter(m)]

\* All other references have their values after the first round, so that the
\* second one passes down the parameters of assets only.
PassesAssetsDown ==
  /\ \A e \in edges : HasValueForStack(e.value, e.source) \/ OfAsset(e)
  /\ call # Idle =>
       /\ OfAsset(call.use) /\ call.ref = call.use.value
       /\ call.consumer \in Path[call.use.source]
       /\ \A i \in 1..Len(call.waiting) : call.waiting[i] \in Path[call.use.source]

CoverInv ==
  /\ phase = "assets" => \A u \in uses : HasValueForStack(u.value, u.source) \/ OfAsset(u)
  /\ phase = "resolveAgain" => PassesAssetsDown
  /\ \A n \in DOMAIN hashed : Covered(n)

\* The recursion and both rounds come to an end.
PrepareEnds == <>(phase \in {"done", "failed"})
=============================================================================
