----------------------- MODULE StackReferencesProofs -----------------------
(***************************************************************************)
(* For every tree of stacks and every app, the assembly that comes out of  *)
(* the preparation can be deployed stack after stack: its dependencies     *)
(* have no cycle, and every import is from a stack depended on.  Every     *)
(* dependency asked for is kept, an app is refused only for a cause in the *)
(* app, every reference leads to its target, and what was hashed of a      *)
(* nested template is what is published.                                   *)
(***************************************************************************)
EXTENDS StackReferences, SequenceTheorems, FiniteSetTheorems, WellFoundedInduction, TLAPS

\* The value an activation returns may be an import as well.
ReturnIsOrdered ==
  call # Idle /\ call.value.kind = "import" =>
    <<TopOf(call.use.source), call.value.name>> \in deps

IInv == AssemblyInv /\ ReturnIsOrdered

-----------------------------------------------------------------------------
(* Trees of stacks                                                         *)

\* A stack is on its own path, and the path is made of stacks.
LEMMA OnOwnPath == \A s \in Stacks : s \in Path[s] /\ Path[s] \subseteq Stacks
  BY DEF Path

\* A top-level stack is alone on its path.
LEMMA PathOfTop == \A s \in Tops : Path[s] = {s}
<1> SUFFICES ASSUME NEW s \in Tops PROVE Path[s] \subseteq {s}
  BY OnOwnPath DEF Tops
<1>1. {s} \in SUBSET Stacks /\ s \in {s} /\ \A t \in {s} : Parent[t] \in {s} \cup {None}
  BY DEF Tops
<1> QED BY <1>1 DEF Path, Tops

\* The path of a nested stack is the path of its parent and itself.
LEMMA PathOfNested ==
  \A n \in Nested : Parent[n] \in Stacks /\ Path[n] = Path[Parent[n]] \cup {n}
<1> TAKE n \in Nested
<1>1. n \in Stacks /\ Parent[n] \in Stacks
  BY StacksAssumption DEF Nested, Tops
<1> DEFINE Up(X) == \A t \in X : Parent[t] \in X \cup {None}
<1>2. ASSUME NEW a \in Path[Parent[n]] PROVE a \in Path[n]
  <2>1. ASSUME NEW X \in SUBSET Stacks, n \in X, Up(X) PROVE a \in X
    <3>1. Parent[n] \in X
      BY <1>1, <2>1, StacksAssumption
    <3> QED BY <1>1, <1>2, <2>1, <3>1 DEF Path
  <2>2. a \in Stacks
    BY <1>1, <1>2 DEF Path
  <2> QED BY <1>1, <2>1, <2>2 DEF Path
<1>3. ASSUME NEW a \in Path[n], a # n PROVE a \in Path[Parent[n]]
  <2>1. ASSUME NEW X \in SUBSET Stacks, Parent[n] \in X, Up(X) PROVE a \in X
    <3> DEFINE Y == X \cup {n}
    <3>1. Y \in SUBSET Stacks /\ n \in Y /\ Up(Y)
      BY <1>1, <2>1
    <3>2. a \in Y
      BY <1>1, <3>1 DEF Path
    <3> QED BY <1>3, <3>2
  <2>2. a \in Stacks
    BY <1>1 DEF Path
  <2> QED BY <1>1, <2>1, <2>2 DEF Path
<1> QED BY <1>1, <1>2, <1>3, OnOwnPath

\* Every stack is in a tree, and a nested stack in that of its parent.
LEMMA TopOfStack == \A s \in Stacks : TopOf(s) \in Tops /\ TopOf(s) \in Path[s]
  BY StacksAssumption DEF TopOf

LEMMA TopOfTop == \A s \in Tops : TopOf(s) = s
  BY PathOfTop, TopOfStack DEF Tops

LEMMA TopOfNested == \A n \in Nested : TopOf(n) = TopOf(Parent[n])
<1> TAKE n \in Nested
<1>1. Path[n] \cap Tops = Path[Parent[n]] \cap Tops
  BY PathOfNested DEF Nested
<1> QED BY <1>1 DEF TopOf

-----------------------------------------------------------------------------
(* Dependencies of the assembly                                            *)

\* A dependency that closes no path back keeps the assembly without a cycle: in
\* a group of stacks that meets what t depends on, one of those is first; in
\* any other group the new dependency plays no part.
LEMMA EdgeKeepsAcyclic ==
  ASSUME AssemblyIsAcyclic, NEW s \in Tops, NEW t \in Tops, ~Reaches(t, s),
         deps' = deps \cup {<<s, t>>}
  PROVE  AssemblyIsAcyclic'
<1>1. PICK R \in SUBSET Tops : t \in R /\ s \notin R /\ \A d \in deps : d[1] \in R => d[2] \in R
  BY DEF Reaches
<1>2. ASSUME NEW X \in (SUBSET Tops) \ {{}}
      PROVE  \E a \in X : \A b \in X : <<a, b>> \notin deps'
  <2>1. CASE X \cap R # {}
    <3>1. X \cap R \in (SUBSET Tops) \ {{}}
      BY <2>1
    <3>2. PICK a \in X \cap R : \A b \in X \cap R : <<a, b>> \notin deps
      BY <3>1 DEF AssemblyIsAcyclic
    <3>3. ASSUME NEW b \in X PROVE <<a, b>> \notin deps'
      <4>1. <<a, b>> \notin deps
        <5> SUFFICES ASSUME <<a, b>> \in deps PROVE FALSE
          OBVIOUS
        <5>1. b \in R
          BY <1>1, <3>2
        <5> QED BY <3>2, <3>3, <5>1
      <4>2. <<a, b>> # <<s, t>>
        BY <1>1, <3>2
      <4> QED BY <4>1, <4>2
    <3> QED BY <3>2, <3>3
  <2>2. CASE X \cap R = {}
    <3>1. PICK a \in X : \A b \in X : <<a, b>> \notin deps
      BY <1>2 DEF AssemblyIsAcyclic
    <3>2. t \notin X
      BY <1>1, <2>2
    <3> QED BY <3>1, <3>2
  <2> QED BY <2>1, <2>2
<1> QED BY <1>2 DEF AssemblyIsAcyclic, Tops

\* A dependency that is not refused is between two trees and keeps the order.
LEMMA AcceptedDependency ==
  ASSUME AssemblyIsAcyclic, deps \subseteq Tops \X Tops,
         NEW a, NEW b, a.stack \in Stacks, b.stack \in Stacks, ~Refused(a, b),
         deps' = deps \cup AssemblyDependency(a, b)
  PROVE  AssemblyIsAcyclic' /\ deps' \subseteq Tops \X Tops
<1>1. CASE Disjoint(a, b)
  <2> DEFINE s == TopOf(a.stack)
             t == TopOf(b.stack)
  <2>1. s \in Tops /\ t \in Tops
    BY TopOfStack
  <2>2. deps' = deps \cup {<<s, t>>}
    BY <1>1 DEF AssemblyDependency
  <2>3. a # b
    BY <1>1, OnOwnPath DEF Disjoint, Shared
  <2>4. ~Reaches(t, s)
    BY <1>1, <2>3 DEF Refused, Cycle
  <2> HIDE DEF s, t
  <2> QED BY <2>1, <2>2, <2>4, EdgeKeepsAcyclic
<1>2. CASE ~Disjoint(a, b)
  <2>1. deps' = deps
    BY <1>2 DEF AssemblyDependency
  <2> QED BY <2>1 DEF AssemblyIsAcyclic, Tops
<1> QED BY <1>1, <1>2

\* What an import adds: the consumer's tree depends on the exporting stack.
LEMMA ImportDependency ==
  ASSUME NEW c \in Stacks, NEW p \in Tops, p # c, ~IsNested(c, p)
  PROVE  AssemblyDependency(StackOf(c), StackOf(p)) = {<<TopOf(c), p>>}
<1>1. Path[p] = {p} /\ p \notin Path[c]
  BY PathOfTop DEF IsNested
<1>2. StackOf(c).stack = c /\ StackOf(p).stack = p
  BY DEF StackOf
<1>3. Disjoint(StackOf(c), StackOf(p))
  BY <1>1, <1>2 DEF Disjoint, Shared
<1>4. TopOf(p) = p
  BY TopOfTop
<1> QED BY <1>2, <1>3, <1>4 DEF AssemblyDependency

-----------------------------------------------------------------------------
(* The invariant                                                           *)

LEMMA InitIInv == Init => IInv
<1> SUFFICES ASSUME Init PROVE IInv
  OBVIOUS
<1>1. TypeOK
  BY AppsAssumption DEF Init, TypeOK, CallOK, App, Attribute
<1>2. AssemblyIsAcyclic
  <2>1. deps = {}
    BY DEF Init
  <2>2. \A X \in (SUBSET Tops) \ {{}} : \E s \in X : TRUE
    OBVIOUS
  <2> QED BY <2>1, <2>2 DEF AssemblyIsAcyclic
<1>3. ImportsAreOrdered /\ ReturnIsOrdered
  BY DEF Init, ImportsAreOrdered, ReturnIsOrdered
<1> QED BY <1>1, <1>2, <1>3 DEF IInv, AssemblyInv

\* The order, and what imports are allowed, depend on few variables.
LEMMA SameOrder ==
  ASSUME AssemblyIsAcyclic, UNCHANGED deps PROVE AssemblyIsAcyclic'
  BY DEF AssemblyIsAcyclic, Tops

\* A larger assembly order allows the same imports.
LEMMA ImportsStayOrdered ==
  ASSUME ImportsAreOrdered, deps \subseteq deps', UNCHANGED <<assigned, params>>
  PROVE  ImportsAreOrdered'
  BY DEF ImportsAreOrdered

\* References are never to an import, and have a consumer.
LEMMA ReferencesTyped ==
  ASSUME TypeOK
  PROVE  \A e \in References : e.source \in Stacks /\ e.value.kind # "import"
<1>1. ASSUME NEW p \in params, p.value.kind # "import",
             NEW e, e = [source |-> Parent[p.stack], value |-> p.value]
      PROVE  e.source \in Stacks /\ e.value.kind # "import"
  BY <1>1, PathOfNested DEF TypeOK
<1> QED BY <1>1 DEF References, TypeOK

LEMMA ThrowKeepsIInv == IInv /\ Throw => IInv'
<1> SUFFICES ASSUME IInv, Throw PROVE IInv'
  OBVIOUS
<1>1. TypeOK'
  BY DEF IInv, AssemblyInv, TypeOK, CallOK, Throw, ordering, wiring
<1>2. AssemblyIsAcyclic' /\ ImportsAreOrdered'
  BY SameOrder, ImportsStayOrdered DEF IInv, AssemblyInv, Throw, ordering, wiring
<1>3. ReturnIsOrdered'
  BY DEF ReturnIsOrdered, Throw
<1> QED BY <1>1, <1>2, <1>3 DEF IInv, AssemblyInv

LEMMA DeclareKeepsIInv == IInv /\ DeclareStep => IInv'
<1> SUFFICES ASSUME IInv, NEW d \in asks, AddDependency(d[1], d[2]) PROVE IInv'
  BY ThrowKeepsIInv DEF DeclareStep, DependencyRefused
<1>1. d[1].stack \in Stacks /\ d[2].stack \in Stacks
  BY DEF IInv, AssemblyInv, TypeOK, App, Element
<1>2. ~Refused(d[1], d[2]) /\ deps' = deps \cup AssemblyDependency(d[1], d[2])
  BY DEF AddDependency
<1>3. AssemblyIsAcyclic' /\ deps' \subseteq Tops \X Tops
  BY <1>1, <1>2, AcceptedDependency DEF IInv, AssemblyInv, TypeOK
<1>4. UNCHANGED <<app, phase, uses, edges, call, params, outs, exports, assigned, hashed>> /\ asks' \subseteq asks
  BY DEF AddDependency, wiring
<1>5. TypeOK'
  BY <1>3, <1>4 DEF IInv, AssemblyInv, TypeOK, CallOK
<1>6. ImportsAreOrdered'
  BY <1>2, <1>4, ImportsStayOrdered DEF IInv, AssemblyInv
<1>7. ReturnIsOrdered'
  BY <1>2, <1>4 DEF IInv, ReturnIsOrdered
<1> QED BY <1>3, <1>5, <1>6, <1>7 DEF IInv, AssemblyInv

\* Steps that only look for references, or prepare assets.
LEMMA OtherStepsKeepIInv == IInv /\ (FindReferences \/ AssetStep \/ Prepared) => IInv'
<1> SUFFICES ASSUME IInv, FindReferences \/ AssetStep \/ Prepared PROVE IInv'
  OBVIOUS
<1> USE DEF IInv, AssemblyInv
<1>1. UNCHANGED <<app, asks, deps, call, params, outs, exports, assigned>>
  BY DEF FindReferences, AssetStep, Prepared, DefineAssets, ResolveAgain, PrepareTemplateAsset,
         ordering, wiring
<1>2. AssemblyIsAcyclic' /\ ImportsAreOrdered' /\ ReturnIsOrdered'
  BY <1>1, SameOrder, ImportsStayOrdered DEF ReturnIsOrdered
<1>3. ASSUME FindReferences \/ DefineAssets \/ ResolveAgain \/ Prepared PROVE TypeOK'
  <2>1. UNCHANGED <<uses, hashed>> /\ (edges' = References \/ edges' = edges)
    BY <1>3 DEF FindReferences, Prepared, DefineAssets, ResolveAgain
  <2>2. phase' \in {"resolve", "assets", "done", "resolveAgain"}
    BY <1>3 DEF FindReferences, Prepared, DefineAssets, ResolveAgain
  <2> QED BY <1>1, <2>1, <2>2, ReferencesTyped DEF TypeOK, CallOK
<1>4. ASSUME NEW n \in Nested, PrepareTemplateAsset(n) PROVE TypeOK'
  <2>1. DOMAIN hashed' = DOMAIN hashed \cup {n} /\ UNCHANGED <<phase, edges>>
    BY <1>4 DEF PrepareTemplateAsset
  <2>2. \A e \in uses' : e \in uses \/ e = [source |-> Parent[n], value |-> AssetParameter(n)]
    BY <1>4 DEF PrepareTemplateAsset
  <2>3. \A e \in uses' : e.source \in Stacks /\ e.value.kind # "import"
    BY <2>2, PathOfNested DEF TypeOK, AssetParameter
  <2> QED BY <1>1, <2>1, <2>3 DEF TypeOK, CallOK
<1> QED BY <1>2, <1>3, <1>4 DEF AssetStep

-----------------------------------------------------------------------------
(* The recursion of resolveValue                                           *)

Waiting == {n \in Nested : TopOf(n) = TopOf(call.use.source)}

\* A consumer that is nested in another stack is a nested stack.
LEMMA NestedConsumer ==
  \A c \in Stacks : \A p : IsNested(c, p) => c \in Nested
  BY PathOfTop DEF IsNested, Nested

LEMMA NextReferenceKeepsIInv == ASSUME IInv, NEW e \in edges, NextReference(e) PROVE IInv'
<1> USE DEF IInv, AssemblyInv
<1>1. UNCHANGED <<app, phase, asks, deps, uses, params, outs, exports, assigned, hashed>> /\ edges' \subseteq edges
  BY DEF NextReference, ordering, wiring
<1>2. call' = Idle \/ call' = Activation(e, e.source, e.value, <<>>, NoToken)
  BY DEF NextReference
<1>3. e.source \in Stacks /\ e.value.kind # "import"
  BY DEF TypeOK
<1>4. CallOK' /\ ReturnIsOrdered'
  <2>1. CASE call' = Idle
    BY <2>1 DEF CallOK, ReturnIsOrdered
  <2>2. CASE call' = Activation(e, e.source, e.value, <<>>, NoToken)
    <3>1. <<>> \in Seq({n \in Nested : TopOf(n) = TopOf(e.source)})
      OBVIOUS
    <3>2. /\ call'.use = e /\ call'.consumer = e.source /\ call'.ref = e.value
          /\ call'.waiting = <<>> /\ call'.value.kind = "none"
      BY <2>2 DEF Activation, NoToken
    <3> QED BY <1>3, <3>1, <3>2 DEF CallOK, ReturnIsOrdered
  <2> QED BY <1>2, <2>1, <2>2
<1>5. TypeOK'
  BY <1>1, <1>4 DEF TypeOK
<1> QED BY <1>1, <1>4, <1>5, SameOrder, ImportsStayOrdered

LEMMA InSameStackKeepsIInv == ASSUME IInv, InSameStack PROVE IInv'
<1> USE DEF IInv, AssemblyInv
<1>1. UNCHANGED <<app, phase, asks, deps, uses, edges, params, outs, exports, assigned, hashed>>
  BY DEF InSameStack, ordering, wiring
<1>2. CallOK /\ call # Idle
  BY DEF InSameStack, Resolving, TypeOK
<1>3. call' = Activation(call.use, call.consumer, call.ref, call.waiting, call.ref)
  BY DEF InSameStack, Return
<1>4. CallOK' /\ ReturnIsOrdered'
  BY <1>2, <1>3 DEF CallOK, ReturnIsOrdered, Activation
<1>5. TypeOK'
  BY <1>1, <1>4 DEF TypeOK
<1> QED BY <1>1, <1>4, <1>5, SameOrder, ImportsStayOrdered

LEMMA ResolveInParentKeepsIInv == ASSUME IInv, ResolveInParent PROVE IInv'
<1> USE DEF IInv, AssemblyInv
<1>1. UNCHANGED <<app, phase, asks, deps, uses, edges, params, outs, exports, assigned, hashed>>
  BY DEF ResolveInParent, ordering, wiring
<1>2. CallOK /\ call # Idle /\ IsNested(call.consumer, Producer)
  BY DEF ResolveInParent, InReach, Resolving, TypeOK
<1>3. call.consumer \in Waiting
  BY <1>2, NestedConsumer DEF CallOK, Waiting
<1>4. Parent[call.consumer] \in Stacks /\ TopOf(Parent[call.consumer]) = TopOf(call.use.source)
  BY <1>3, PathOfNested, TopOfNested DEF Waiting
<1>5. call.waiting \in Seq(Waiting)
  BY <1>2 DEF CallOK, Waiting
<1>6. <<call.consumer>> \o call.waiting \in Seq(Waiting)
  <2>1. <<call.consumer>> \in Seq(Waiting)
    BY <1>3
  <2> QED BY <1>5, <2>1, ConcatProperties
<1>7. call' = Activation(call.use, Parent[call.consumer], call.ref, <<call.consumer>> \o call.waiting, NoToken)
  BY DEF ResolveInParent
<1>8. CallOK'
  BY <1>2, <1>4, <1>6, <1>7 DEF CallOK, Activation, Waiting
<1>9. ReturnIsOrdered'
  BY <1>7 DEF ReturnIsOrdered, Activation, NoToken
<1>10. TypeOK'
  BY <1>1, <1>8 DEF TypeOK
<1> QED BY <1>1, <1>9, <1>10, SameOrder, ImportsStayOrdered

LEMMA ResolveOutputKeepsIInv == ASSUME IInv, ResolveOutput PROVE IInv'
<1> USE DEF IInv, AssemblyInv
<1>1. UNCHANGED <<app, phase, asks, deps, uses, edges, params, exports, assigned, hashed>>
  BY DEF ResolveOutput, ordering
<1>2. CallOK /\ call # Idle /\ Producer \in Stacks
  BY DEF ResolveOutput, InReach, Resolving, TypeOK, Nested
<1>3. call' = Activation(call.use, call.consumer, OutputOf(Producer, call.ref), call.waiting, NoToken)
  BY DEF ResolveOutput
<1>4. CallOK' /\ ReturnIsOrdered'
  BY <1>2, <1>3 DEF CallOK, ReturnIsOrdered, Activation, OutputOf, NoToken
<1>5. \A o \in outs' : o.stack \in Stacks /\ o.ref.kind # "import"
  <2>1. outs' = outs \cup {[stack |-> Producer, ref |-> call.ref]}
    BY DEF ResolveOutput
  <2> QED BY <1>2, <2>1 DEF TypeOK, CallOK
<1>6. TypeOK'
  BY <1>1, <1>4, <1>5 DEF TypeOK
<1> QED BY <1>1, <1>4, <1>6, SameOrder, ImportsStayOrdered

LEMMA ResolveImportKeepsIInv == ASSUME IInv, ResolveImport PROVE IInv'
<1> USE DEF IInv, AssemblyInv
<1> DEFINE a == StackOf(call.consumer)
           b == StackOf(Producer)
<1>1. UNCHANGED <<app, phase, asks, uses, edges, params, outs, assigned, hashed>>
  BY DEF ResolveImport
<1>2. /\ CallOK /\ call # Idle /\ call.consumer \in Stacks
      /\ Producer \in Tops /\ Producer # call.consumer /\ ~IsNested(call.consumer, Producer)
  BY DEF ResolveImport, NeedsImport, InReach, Resolving, TypeOK, CallOK
<1>3. AssemblyDependency(a, b) = {<<TopOf(call.consumer), Producer>>}
  BY <1>2, ImportDependency
<1>4. ~Refused(a, b) /\ deps' = deps \cup AssemblyDependency(a, b)
  BY DEF ResolveImport
<1>5. AssemblyIsAcyclic' /\ deps' \subseteq Tops \X Tops
  <2>1. a.stack \in Stacks /\ b.stack \in Stacks
    BY <1>2 DEF StackOf, Tops
  <2> HIDE DEF a, b
  <2> QED BY <1>4, <2>1, AcceptedDependency DEF TypeOK
<1>6. call' = Activation(call.use, call.consumer, call.ref, call.waiting, ImportOf(Producer, call.ref))
  BY DEF ResolveImport, Return
<1>7. CallOK'
  BY <1>2, <1>6 DEF CallOK, Activation
<1>8. ReturnIsOrdered'
  <2>1. <<TopOf(call.use.source), Producer>> \in deps'
    BY <1>2, <1>3, <1>4 DEF CallOK
  <2> QED BY <1>6, <2>1 DEF ReturnIsOrdered, Activation, ImportOf
<1>9. \A o \in exports' : o.stack \in Stacks /\ o.ref.kind # "import"
  <2>1. exports' = exports \cup {[stack |-> Producer, ref |-> call.ref]}
    BY DEF ResolveImport
  <2> QED BY <1>2, <2>1 DEF TypeOK, CallOK, Tops
<1>10. TypeOK'
  BY <1>1, <1>5, <1>7, <1>9 DEF TypeOK
<1>11. ImportsAreOrdered'
  BY <1>1, <1>4, ImportsStayOrdered
<1> QED BY <1>5, <1>8, <1>10, <1>11

LEMMA PassParameterKeepsIInv == ASSUME IInv, PassParameter PROVE IInv'
<1> USE DEF IInv, AssemblyInv
<1> DEFINE n == Head(call.waiting)
<1>1. UNCHANGED <<app, phase, asks, deps, uses, edges, outs, exports, assigned, hashed>>
  BY DEF PassParameter, ordering
<1>2. CallOK /\ call # Idle /\ call.waiting \in Seq(Waiting) /\ call.waiting # <<>>
  BY DEF PassParameter, Returning, TypeOK, CallOK, Waiting
<1>3. n \in Waiting /\ Tail(call.waiting) \in Seq(Waiting)
  BY <1>2, HeadTailProperties
<1>4. call' = Activation(call.use, call.consumer, call.ref, Tail(call.waiting), ParameterOf(n, call.ref))
  BY DEF PassParameter
<1>5. CallOK' /\ ReturnIsOrdered'
  BY <1>2, <1>3, <1>4 DEF CallOK, ReturnIsOrdered, Activation, ParameterOf, Waiting
<1>6. \A p \in params' : p \in params \/ p = [stack |-> n, ref |-> call.ref, value |-> call.value]
  BY DEF PassParameter
<1>7. TypeOK'
  BY <1>1, <1>3, <1>5, <1>6 DEF TypeOK, Waiting
<1>8. ImportsAreOrdered'
  <2>1. call.value.kind = "import" => <<TopOf(n), call.value.name>> \in deps
    BY <1>2, <1>3 DEF ReturnIsOrdered, Waiting
  <2> QED BY <1>1, <1>6, <2>1 DEF ImportsAreOrdered
<1> QED BY <1>1, <1>5, <1>7, <1>8, SameOrder

LEMMA AssignValueKeepsIInv == ASSUME IInv, AssignValue PROVE IInv'
<1> USE DEF IInv, AssemblyInv
<1> DEFINE new == [ref |-> call.use.value, stack |-> call.use.source, value |-> call.value]
<1>1. UNCHANGED <<app, phase, asks, deps, uses, edges, params, outs, exports, hashed>>
  BY DEF AssignValue, ordering, wiring
<1>2. CallOK /\ call # Idle /\ call' = Idle /\ assigned' = assigned \cup {new}
  BY DEF AssignValue, Returning, TypeOK
<1>3. CallOK' /\ ReturnIsOrdered'
  BY <1>2 DEF CallOK, ReturnIsOrdered
<1>4. TypeOK'
  BY <1>1, <1>2, <1>3 DEF TypeOK, CallOK
<1>5. ImportsAreOrdered'
  <2>1. new.value.kind = "import" => <<TopOf(new.stack), new.value.name>> \in deps
    BY <1>2 DEF ReturnIsOrdered
  <2> HIDE DEF new
  <2> QED BY <1>1, <1>2, <2>1 DEF ImportsAreOrdered
<1> QED BY <1>1, <1>3, <1>4, <1>5, SameOrder

-----------------------------------------------------------------------------
(* Every step keeps the invariant.                                         *)
LEMMA IInvKept == IInv /\ [Next]_vars => IInv'
<1> SUFFICES ASSUME IInv, [Next]_vars PROVE IInv'
  OBVIOUS
<1>1. CASE DeclareStep
  BY <1>1, DeclareKeepsIInv
<1>2. CASE FindReferences \/ AssetStep \/ Prepared
  BY <1>2, OtherStepsKeepIInv
<1>3. CASE ResolveStep
  BY <1>3, NextReferenceKeepsIInv, InSameStackKeepsIInv, ResolveInParentKeepsIInv,
     ResolveOutputKeepsIInv, ResolveImportKeepsIInv, PassParameterKeepsIInv,
     AssignValueKeepsIInv, ThrowKeepsIInv
  DEF ResolveStep, OtherEnvironment, ImportRefused
<1>4. CASE UNCHANGED vars
  <2>1. TypeOK'
    BY <1>4 DEF IInv, AssemblyInv, TypeOK, CallOK, vars
  <2>2. AssemblyIsAcyclic' /\ ImportsAreOrdered' /\ ReturnIsOrdered'
    BY <1>4, SameOrder, ImportsStayOrdered DEF IInv, AssemblyInv, ReturnIsOrdered, vars
  <2> QED BY <2>1, <2>2 DEF IInv, AssemblyInv
<1> QED BY <1>1, <1>2, <1>3, <1>4 DEF Next

(* However an app is prepared, a stack is deployable after those it        *)
(* depends on, and depends on every stack it imports from                  *)
(* (Stack._addAssemblyDependency, resolveValue).                           *)
THEOREM AssemblyIsDeployable == Spec => []AssemblyInv
<1>1. Init => IInv
  BY InitIInv
<1>2. IInv /\ [Next]_vars => IInv'
  BY IInvKept
<1>3. IInv => AssemblyInv
  BY DEF IInv
<1> QED BY <1>1, <1>2, <1>3, PTL DEF Spec

-----------------------------------------------------------------------------
(* More about trees of stacks                                              *)

\* A path leads up to the top.
LEMMA PathClosed ==
  \A s \in Stacks : \A t \in Path[s] : t \in Stacks /\ Parent[t] \in Path[s] \cup {None}
<1> TAKE s \in Stacks
<1> TAKE t \in Path[s]
<1>1. t \in Stacks /\ Parent[t] \in Stacks \cup {None}
  BY OnOwnPath, StacksAssumption
<1>2. ASSUME Parent[t] # None, NEW X \in SUBSET Stacks, s \in X,
             \A u \in X : Parent[u] \in X \cup {None}
      PROVE  Parent[t] \in X
  <2>1. t \in X BY <1>2 DEF Path
  <2> QED BY <1>2, <2>1
<1> QED BY <1>1, <1>2 DEF Path

\* The path of a stack on the path is a part of it.
LEMMA PathTransitive == \A s \in Stacks : \A t \in Path[s] : Path[t] \subseteq Path[s]
<1> TAKE s \in Stacks
<1> TAKE t \in Path[s]
<1>1. Path[s] \in SUBSET Stacks /\ \A u \in Path[s] : Parent[u] \in Path[s] \cup {None}
  BY OnOwnPath, PathClosed
<1>2. t \in Stacks BY <1>1
<1> QED BY <1>1, <1>2 DEF Path

\* What holds for the top-level stacks, and for a nested stack if for its parent,
\* holds for all.
LEMMA TreeInduction ==
  ASSUME NEW X \in SUBSET Stacks, Tops \subseteq X, \A n \in Nested : Parent[n] \in X => n \in X
  PROVE  X = Stacks
<1> SUFFICES ASSUME NEW s \in Stacks, s \notin X PROVE FALSE
  OBVIOUS
<1>1. \A t \in Stacks \ X : Parent[t] \in (Stacks \ X) \cup {None}
  BY PathOfNested DEF Nested
<1>2. Path[s] \subseteq Stacks \ X BY <1>1 DEF Path
<1> QED BY <1>2, TopOfStack

\* All of a tree is in one environment and stage.
LEMMA OneEnvironment == \A s \in Stacks : Env[s] = Env[TopOf(s)] /\ Stage[s] = Stage[TopOf(s)]
<1> DEFINE X == {s \in Stacks : Env[s] = Env[TopOf(s)] /\ Stage[s] = Stage[TopOf(s)]}
<1>1. Tops \subseteq X BY TopOfTop DEF Tops
<1>2. ASSUME NEW n \in Nested, Parent[n] \in X PROVE n \in X
  <2>1. Env[n] = Env[Parent[n]] /\ Stage[n] = Stage[Parent[n]]
    BY StacksAssumption DEF Nested
  <2> QED BY <1>2, <2>1, TopOfNested DEF Nested
<1> HIDE DEF X
<1>3. X \in SUBSET Stacks BY DEF X
<1>4. X = Stacks BY <1>1, <1>2, <1>3, TreeInduction
<1> QED BY <1>4 DEF X

\* The stacks on a path are in one tree.
LEMMA OneTree == \A s \in Stacks : \A t \in Path[s] : t \in Stacks /\ TopOf(t) = TopOf(s)
<1> DEFINE X == {s \in Stacks : \A t \in Path[s] : TopOf(t) = TopOf(s)}
<1>1. Tops \subseteq X BY PathOfTop DEF Tops
<1>2. ASSUME NEW n \in Nested, Parent[n] \in X PROVE n \in X
  BY <1>2, PathOfNested, TopOfNested DEF Nested
<1> HIDE DEF X
<1>3. X \in SUBSET Stacks BY DEF X
<1>4. X = Stacks BY <1>1, <1>2, <1>3, TreeInduction
<1> QED BY <1>4, OnOwnPath DEF X

\* A nested stack is not its own parent, and its parent is on its path.
LEMMA ParentIsAnother == \A n \in Nested : Parent[n] # n /\ Parent[n] \in Path[n]
<1> TAKE n \in Nested
<1>1. n \in Stacks /\ Parent[n] \in Stacks /\ Parent[n] \in Path[n]
  BY PathOfNested, OnOwnPath DEF Nested
<1>2. ASSUME Parent[n] = n PROVE FALSE
  <2>1. {n} \in SUBSET Stacks /\ n \in {n} /\ \A t \in {n} : Parent[t] \in {n} \cup {None}
    BY <1>1, <1>2
  <2>2. Path[n] \subseteq {n} BY <1>1, <2>1 DEF Path
  <2>3. TopOf(n) \in Tops /\ TopOf(n) = n BY <1>1, <2>2, TopOfStack
  <2> QED BY <2>3 DEF Nested
<1> QED BY <1>1, <1>2

\* Below a stack on a path, other than the first, there is the next one.
LEMMA OnTheWay ==
  \A s \in Stacks : \A c \in Path[s] \ {s} : \E n \in Path[s] : n \in Nested /\ Parent[n] = c
<1> TAKE s \in Stacks
<1> TAKE c \in Path[s] \ {s}
<1> DEFINE X == Path[s] \ {c}
<1>1. X \in SUBSET Stacks /\ s \in X /\ c \notin X /\ c \in Stacks BY OnOwnPath
<1>2. ~ \A t \in X : Parent[t] \in X \cup {None}
  BY <1>1 DEF Path
<1>3. PICK t \in X : Parent[t] \notin X \cup {None} BY <1>2
<1>4. t \in Path[s] /\ t \in Stacks /\ Parent[t] = c BY <1>1, <1>3, PathClosed
<1>5. t \in Nested BY <1>1, <1>4, StacksAssumption DEF Nested, Tops
<1> QED BY <1>4, <1>5

\* Two stacks of a tree have a deepest stack in common.
LEMMA CommonExists ==
  \A s, t \in Stacks : Path[s] \cap Path[t] # {} =>
    \E c \in Path[s] \cap Path[t] : Path[c] = Path[s] \cap Path[t]
<1> SUFFICES ASSUME NEW t \in Stacks
             PROVE  \A s \in Stacks : Path[s] \cap Path[t] # {} =>
                      \E c \in Path[s] \cap Path[t] : Path[c] = Path[s] \cap Path[t]
  OBVIOUS
<1> DEFINE Holds(s) == Path[s] \cap Path[t] # {} =>
                         \E c \in Path[s] \cap Path[t] : Path[c] = Path[s] \cap Path[t]
           X == {s \in Stacks : Holds(s)}
<1>1. ASSUME NEW s \in Stacks, s \in Path[t] PROVE Holds(s)
  <2>1. Path[s] \subseteq Path[t] /\ s \in Path[s] BY <1>1, PathTransitive, OnOwnPath
  <2> QED BY <1>1, <2>1
<1>2. Tops \subseteq X
  <2> SUFFICES ASSUME NEW s \in Tops PROVE Holds(s)
    BY DEF Tops
  <2>1. CASE s \in Path[t] BY <1>1, <2>1 DEF Tops
  <2>2. CASE s \notin Path[t] BY <2>2, PathOfTop
  <2> QED BY <2>1, <2>2
<1>3. ASSUME NEW n \in Nested, Parent[n] \in X PROVE n \in X
  <2>0. n \in Stacks BY DEF Nested
  <2>1. CASE n \in Path[t] BY <1>1, <2>0, <2>1
  <2>2. CASE n \notin Path[t]
    <3>1. Path[n] \cap Path[t] = Path[Parent[n]] \cap Path[t] BY <2>2, PathOfNested
    <3> QED BY <1>3, <2>0, <3>1
  <2> QED BY <2>1, <2>2
<1>4. X \in SUBSET Stacks OBVIOUS
<1> HIDE DEF X
<1>5. X = Stacks BY <1>2, <1>3, <1>4, TreeInduction
<1> QED BY <1>5 DEF X

-----------------------------------------------------------------------------
(* Dependencies that are added are kept                                    *)

\* The common stack of two elements.
LEMMA CommonIsShared ==
  ASSUME NEW a, NEW b, a.stack \in Stacks, b.stack \in Stacks, ~Disjoint(a, b)
  PROVE  /\ Common(a, b) = StackOf(Common(a, b).stack)
         /\ Common(a, b).stack \in Path[a.stack] /\ Common(a, b).stack \in Path[b.stack]
<1>1. \E c \in Shared(a, b) : Path[c] = Shared(a, b)
  BY CommonExists DEF Disjoint, Shared
<1> DEFINE c == CHOOSE c \in Shared(a, b) : Path[c] = Shared(a, b)
<1>2. c \in Shared(a, b) BY <1>1
<1>3. Common(a, b) = StackOf(c) /\ StackOf(c).stack = c BY DEF Common, StackOf
<1> QED BY <1>2, <1>3 DEF Shared

\* In the template of a stack that contains it, an element is represented by
\* something it is a part of.
LEMMA RepresentedByPart ==
  ASSUME NEW c, c = StackOf(c.stack), NEW e \in Element, e # c, c.stack \in Path[e.stack]
  PROVE  InTemplateOf(c, e) \in Parts(e)
<1>1. e.stack \in Stacks /\ e = [stack |-> e.stack, leads |-> e.leads] BY DEF Element
<1>2. CASE e.stack = c.stack
  BY <1>2 DEF InTemplateOf, Parts
<1>3. CASE e.stack # c.stack
  <2>1. \E n \in Path[e.stack] : n \in Nested /\ Parent[n] = c.stack
    BY <1>1, <1>3, OnTheWay
  <2> DEFINE n == CHOOSE n \in Path[e.stack] : Parent[n] = c.stack
  <2>2. n \in Path[e.stack] /\ Parent[n] = c.stack BY <2>1
  <2>3. n \in Nested
    <3>1. c.stack \in Stacks /\ n \in Stacks BY <1>1, <2>2, OnOwnPath
    <3> QED BY <2>2, <3>1, StacksAssumption DEF Nested, Tops
  <2>4. InTemplateOf(c, e) = NestedStackResource(n) BY <1>3 DEF InTemplateOf
  <2> HIDE DEF n
  <2> QED BY <2>2, <2>3, <2>4 DEF Parts
<1> QED BY <1>2, <1>3

\* A dependency of the assembly is a path.
LEMMA DependencyReaches ==
  ASSUME NEW s \in Tops, NEW t \in Tops, <<s, t>> \in deps PROVE Reaches(s, t)
BY DEF Reaches

\* Paths get no fewer.
LEMMA ReachesMore ==
  ASSUME NEW s, NEW t, Reaches(s, t), deps \subseteq deps' PROVE Reaches(s, t)'
BY DEF Reaches, Tops

LEMMA ComesAfterStays ==
  ASSUME NEW a, NEW b, ComesAfter(a, b), deps \subseteq deps', dependsOn \subseteq dependsOn'
  PROVE  ComesAfter(a, b)'
<1>1. CASE TopOf(a.stack) # TopOf(b.stack) /\ Reaches(TopOf(a.stack), TopOf(b.stack))
  <2>1. Reaches(TopOf(a.stack), TopOf(b.stack))' BY <1>1, ReachesMore DEF TopOf, Tops
  <2> QED BY <1>1, <2>1 DEF ComesAfter, TopOf, Tops
<1>2. CASE ~(TopOf(a.stack) # TopOf(b.stack) /\ Reaches(TopOf(a.stack), TopOf(b.stack)))
  BY <1>2 DEF ComesAfter, Parts
<1> QED BY <1>1, <1>2

\* A dependency that is added is kept.
LEMMA AddedIsKept ==
  ASSUME NEW a \in Element, NEW b \in Element, ~Refused(a, b), deps' \subseteq Tops \X Tops,
         deps' = deps \cup AssemblyDependency(a, b), dependsOn' = dependsOn \cup Resources(a, b)
  PROVE  ComesAfter(a, b)'
<1>0. a.stack \in Stacks /\ b.stack \in Stacks BY DEF Element
<1>1. CASE a = b BY <1>1 DEF ComesAfter
<1>2. CASE a # b /\ Disjoint(a, b)
  <2>1. TopOf(a.stack) # TopOf(b.stack)
    BY <1>0, <1>2, TopOfStack DEF Disjoint, Shared
  <2>2. <<TopOf(a.stack), TopOf(b.stack)>> \in deps' BY <1>2 DEF AssemblyDependency
  <2>3. Reaches(TopOf(a.stack), TopOf(b.stack))' BY <2>2 DEF Reaches, Tops
  <2> QED BY <2>1, <2>3 DEF ComesAfter, TopOf, Tops
<1>3. CASE a # b /\ ~Disjoint(a, b)
  <2> DEFINE c == Common(a, b)
  <2>1. c = StackOf(c.stack) /\ c.stack \in Path[a.stack] /\ c.stack \in Path[b.stack]
    BY <1>0, <1>3, CommonIsShared
  <2>2. CASE a = c BY <2>1, <2>2 DEF ComesAfter
  <2>3. CASE a # c
    <3>1. b # c BY <1>3, <2>3 DEF Refused
    <3>2. InTemplateOf(c, a) \in Parts(a) /\ InTemplateOf(c, b) \in Parts(b)
      BY <2>1, <2>3, <3>1, RepresentedByPart
    <3>3. <<InTemplateOf(c, a), InTemplateOf(c, b)>> \in dependsOn'
      BY <1>3, <2>3 DEF Resources, NeedsDependsOn
    <3> QED BY <3>2, <3>3 DEF ComesAfter, Parts
  <2> QED BY <2>2, <2>3
<1> QED BY <1>1, <1>2, <1>3
-----------------------------------------------------------------------------
(* Circles of trees                                                        *)

\* A path to another stack starts with a dependency.
LEMMA FirstDependency ==
  ASSUME deps \subseteq Tops \X Tops, NEW s \in Tops, NEW t \in Tops, s # t, Reaches(s, t)
  PROVE  \E m \in Tops : <<s, m>> \in deps /\ Reaches(m, t)
<1> DEFINE Y == {s} \cup {y \in Tops : \E m \in Tops : <<s, m>> \in deps /\ Reaches(m, y)}
<1>1. Y \in SUBSET Tops /\ s \in Y
  OBVIOUS
<1>2. ASSUME NEW d \in deps, d[1] \in Y PROVE d[2] \in Y
  <2>1. d[1] \in Tops /\ d[2] \in Tops /\ d = <<d[1], d[2]>>
    OBVIOUS
  <2>2. CASE d[1] = s
    <3>1. Reaches(d[2], d[2]) BY DEF Reaches
    <3>2. <<s, d[2]>> \in deps BY <2>1, <2>2
    <3> QED BY <2>1, <3>1, <3>2
  <2>3. CASE d[1] # s
    <3>1. PICK m \in Tops : <<s, m>> \in deps /\ Reaches(m, d[1]) BY <1>2, <2>3
    <3>2. Reaches(m, d[2]) BY <3>1 DEF Reaches
    <3> QED BY <2>1, <3>1, <3>2
  <2> QED BY <2>2, <2>3
<1>3. t \in Y
  <2> HIDE DEF Y
  <2> QED BY <1>1, <1>2 DEF Reaches
<1> QED BY <1>3

\* A dependency that would close a path makes a circle of trees.
LEMMA ClosedPathIsCircle ==
  ASSUME AssemblyIsAcyclic, deps \subseteq Tops \X Tops, deps \subseteq Implied,
         NEW s \in Tops, NEW t \in Tops, s # t, Reaches(t, s), <<s, t>> \in Implied
  PROVE  \E X \in SUBSET Tops : Cardinality(X) > 1
           /\ \A x \in X : \E y \in X \ {x} : <<x, y>> \in Implied
<1> DEFINE X == {x \in Tops : Reaches(t, x) /\ Reaches(x, s)}
<1>1. s \in X /\ t \in X
  <2>1. Reaches(s, s) /\ Reaches(t, t) BY DEF Reaches
  <2> QED BY <2>1
<1>2. ASSUME NEW x \in X PROVE \E y \in X \ {x} : <<x, y>> \in Implied
  <2>1. CASE x = s BY <1>1, <2>1
  <2>2. CASE x # s
    <3>1. PICK m \in Tops : <<x, m>> \in deps /\ Reaches(m, s)
      BY <1>2, <2>2, FirstDependency
    <3>2. Reaches(t, m)
      <4>1. Reaches(t, x) BY <1>2
      <4> QED BY <3>1, <4>1 DEF Reaches
    <3>3. m # x
      <4>1. {x} \in (SUBSET Tops) \ {{}} BY <1>2
      <4>2. <<x, x>> \notin deps BY <4>1 DEF AssemblyIsAcyclic
      <4> QED BY <3>1, <4>2
    <3> QED BY <3>1, <3>2, <3>3
  <2> QED BY <2>1, <2>2
<1>3. X \in SUBSET Tops OBVIOUS
<1> HIDE DEF X
<1>4. Cardinality(X) > 1
  <2>1. IsFiniteSet(X) BY <1>3, StacksAssumption, FS_Subset DEF Tops
  <2>2. IsFiniteSet({s}) /\ Cardinality({s}) = 1 BY FS_Singleton
  <2>3. IsFiniteSet({s} \cup {t}) /\ Cardinality({s} \cup {t}) = 2
    <3>1. t \notin {s} OBVIOUS
    <3>2. /\ IsFiniteSet({s} \cup {t})
          /\ Cardinality({s} \cup {t}) = IF t \in {s} THEN Cardinality({s}) ELSE Cardinality({s}) + 1
      BY <2>2, FS_AddElement, Zenon
    <3>3. Cardinality({s} \cup {t}) = Cardinality({s}) + 1 BY <3>1, <3>2, Zenon
    <3>4. Cardinality({s} \cup {t}) = 1 + 1 BY <2>2, <3>3, Zenon
    <3>5. 1 + 1 = 2 OBVIOUS
    <3> QED BY <3>2, <3>4, <3>5, Zenon
  <2>4. Cardinality({s} \cup {t}) <= Cardinality(X) BY <1>1, <2>1, FS_Subset
  <2>5. Cardinality(X) \in Nat BY <2>1, FS_CardinalityType
  <2>6. 2 <= Cardinality(X) BY <2>3, <2>4, Zenon
  <2>7. \A k \in Nat : 2 <= k => k > 1 OBVIOUS
  <2> QED BY <2>5, <2>6, <2>7, Zenon
<1> QED BY <1>2, <1>3, <1>4

-----------------------------------------------------------------------------
(* The preparation as a whole                                              *)

PInv == IInv /\ PreparationInv

\* What is passed or put out is defined where it is needed, so every reference
\* found is one of the app or stays in its tree.
LEMMA ReferencesHaveOrigin == ASSUME PInv PROVE \A e \in References : HasOrigin(e)
<1>1. \A e \in uses : HasOrigin(e)
  BY DEF PInv, PreparationInv, WiresInv
<1>2. ASSUME NEW p \in params, p.value.kind # "import",
             NEW e, e = [source |-> Parent[p.stack], value |-> p.value]
      PROVE  HasOrigin(e)
  <2>1. p.value.in = Parent[p.stack] /\ Parent[p.stack] \in Stacks
    BY <1>2, PathOfNested DEF PInv, PreparationInv, WiresInv, IInv, AssemblyInv, TypeOK
  <2> QED BY <1>2, <2>1 DEF HasOrigin, Crosses
<1>3. ASSUME NEW o \in outs \cup exports, NEW e, e = [source |-> o.stack, value |-> o.ref]
      PROVE  HasOrigin(e)
  <2>1. o.ref.in = o.stack /\ o.stack \in Stacks
    BY DEF PInv, PreparationInv, WiresInv, IInv, AssemblyInv, TypeOK
  <2> QED BY <1>3, <2>1 DEF HasOrigin, Crosses
<1> QED BY <1>1, <1>2, <1>3 DEF References

\* Once all references in properties are settled, all references are.
LEMMA ReferencesSettled ==
  ASSUME PInv, \A u \in uses : Settled(u) PROVE \A e \in References : Settled(e)
<1>1. ASSUME NEW p \in params, p.value.kind # "import",
             NEW e, e = [source |-> Parent[p.stack], value |-> p.value]
      PROVE  Settled(e)
  BY <1>1 DEF PInv, PreparationInv, WiresInv, Settled, HasValueForStack
<1>2. ASSUME NEW o \in outs \cup exports, NEW e, e = [source |-> o.stack, value |-> o.ref]
      PROVE  Settled(e)
  BY <1>2 DEF PInv, PreparationInv, WiresInv, Settled, HasValueForStack
<1> QED BY <1>1, <1>2 DEF References

\* What is settled, ordered or kept stays so.
LEMMA SettledStays ==
  ASSUME NEW u, Settled(u), assigned \subseteq assigned' PROVE Settled(u)'
BY DEF Settled, HasValueForStack

LEMMA OrderedStays ==
  ASSUME NEW s, NEW t, Ordered(s, t), deps \subseteq deps' PROVE Ordered(s, t)'
BY DEF Ordered, TopOf, Tops

LEMMA KeptStays ==
  ASSUME ProgressInv, UNCHANGED <<app, asks>>, deps \subseteq deps', dependsOn \subseteq dependsOn'
  PROVE  \A d \in app'.asks \ asks' : ComesAfter(d[1], d[2])'
<1> SUFFICES ASSUME NEW d \in app.asks \ asks PROVE ComesAfter(d[1], d[2])'
  OBVIOUS
<1>1. ComesAfter(d[1], d[2]) BY DEF ProgressInv
<1> QED BY <1>1, ComesAfterStays

\* What is hashed stays hashed.
LEMMA HashesStay ==
  ASSUME HashInv, UNCHANGED hashed
  PROVE  \A n \in DOMAIN hashed' : Children(n)' \subseteq DOMAIN hashed'
BY DEF HashInv, Children, Nested, Tops

\* Wiring that stays, under an order that grows.
LEMMA WiresStay ==
  ASSUME WiresInv, UNCHANGED <<app, uses, params, outs, exports, assigned>>, edges' \subseteq edges,
         deps \subseteq deps'
  PROVE  WiresInv'
<1>1. \A e \in (uses \cup edges)' : HasOrigin(e)' BY DEF WiresInv, HasOrigin, Crosses, TopOf, Tops
<1>2. \A a \in assigned' : a.ref.in \in Stacks /\ Ordered(a.stack, a.ref.in)'
  BY OrderedStays DEF WiresInv
<1> QED BY <1>1, <1>2 DEF WiresInv

\* The causes for which an app is refused.
LeavesEnvironment == \E u \in app.uses : Env[u[1]] # Env[u[2]] \/ Stage[u[1]] # Stage[u[2]]
LeavesStage == \E d \in app.asks : Stage[d[1].stack] # Stage[d[2].stack]
AfterContainer ==
  \E d \in app.asks : d[2].leads = None /\ d[2] # d[1] /\ d[2].stack \in Path[d[1].stack]
CircleOfTrees ==
  \E X \in SUBSET Tops : Cardinality(X) > 1
    /\ \A s \in X : \E t \in X \ {s} : <<s, t>> \in Implied
Cause == LeavesEnvironment \/ LeavesStage \/ AfterContainer \/ CircleOfTrees

LEMMA CauseStands == ASSUME Cause, UNCHANGED app PROVE RefusedForCause'
<1>1. Tops' = Tops /\ Implied' = Implied
  BY DEF Implied, TopOf, Tops
<1>2. CircleOfTrees => CircleOfTrees'
  BY <1>1 DEF CircleOfTrees
<1>3. /\ LeavesEnvironment => LeavesEnvironment'
      /\ LeavesStage => LeavesStage'
      /\ AfterContainer => AfterContainer'
  BY DEF LeavesEnvironment, LeavesStage, AfterContainer
<1>4. Cause' BY <1>2, <1>3 DEF Cause
<1> QED BY <1>4 DEF Cause, RefusedForCause, LeavesEnvironment, LeavesStage, AfterContainer, CircleOfTrees

\* A refusal leaves everything as it is.
LEMMA ThrowPrepares == ASSUME PInv, Throw, RefusedForCause' PROVE PreparationInv'
<1>1. /\ UNCHANGED <<app, asks, deps, dependsOn, uses, edges, params, outs, exports, assigned, hashed>>
      /\ phase' = "failed" /\ call' = Idle
  BY DEF Throw, ordering, wiring
<1>2. WiresInv' BY <1>1, WiresStay DEF PInv, PreparationInv
<1>3. CallInv' BY <1>1 DEF CallInv
<1>4. ProgressInv'
  <2>1. \A d \in app'.asks \ asks' : ComesAfter(d[1], d[2])'
    BY <1>1, KeptStays DEF PInv, PreparationInv
  <2>2. (deps \subseteq Implied)' BY <1>1 DEF PInv, PreparationInv, ProgressInv, Implied, TopOf, Tops
  <2> QED BY <1>1, <2>1, <2>2 DEF ProgressInv
<1>5. HashInv' BY <1>1, HashesStay DEF PInv, PreparationInv, HashInv
<1> QED BY <1>2, <1>3, <1>4, <1>5 DEF PreparationInv

\* A step of an activation is progress if the activation is still for its use.
LEMMA ActivationProgress ==
  ASSUME PInv, call # Idle, call' # Idle, call'.use = call.use,
         UNCHANGED <<app, phase, asks, dependsOn, uses, edges, assigned>>,
         deps \subseteq deps', deps' \subseteq Implied
  PROVE  ProgressInv'
<1>1. phase \in {"resolve", "resolveAgain"}
  BY DEF PInv, PreparationInv, ProgressInv, IInv, AssemblyInv, TypeOK
<1>2. asks = {} /\ \A u \in uses : u \in edges \/ call.use = u \/ Settled(u)
  BY <1>1 DEF PInv, PreparationInv, ProgressInv
<1>3. \A u \in uses' : u \in edges' \/ (call' # Idle /\ call'.use = u) \/ Settled(u)'
  BY <1>2, SettledStays
<1>4. phase' = "resolveAgain" => \A e \in edges' : Settled(e)'
  BY SettledStays DEF PInv, PreparationInv, ProgressInv
<1>5. \A d \in app'.asks \ asks' : ComesAfter(d[1], d[2])'
  BY KeptStays DEF PInv, PreparationInv
<1>6. (deps \subseteq Implied)' BY DEF Implied, TopOf, Tops
<1> QED BY <1>1, <1>2, <1>3, <1>4, <1>5, <1>6 DEF ProgressInv

-----------------------------------------------------------------------------
(* Declaring                                                               *)

LEMMA AddPrepares ==
  ASSUME PInv, IInv', NEW d \in asks, AddDependency(d[1], d[2]) PROVE PreparationInv'
<1>1. /\ UNCHANGED <<app, phase, uses, edges, call, params, outs, exports, assigned, hashed>>
      /\ phase = "declare" /\ asks' = asks \ {<<d[1], d[2]>>} /\ ~Refused(d[1], d[2])
      /\ deps' = deps \cup AssemblyDependency(d[1], d[2])
      /\ dependsOn' = dependsOn \cup Resources(d[1], d[2])
  BY DEF AddDependency, wiring
<1>2. d \in app.asks /\ d[1] \in Element /\ d[2] \in Element /\ d = <<d[1], d[2]>>
  BY DEF PInv, IInv, AssemblyInv, TypeOK, App
<1>3. call = Idle /\ edges = {} BY <1>1 DEF PInv, PreparationInv, ProgressInv
<1>4. WiresInv' BY <1>1, WiresStay DEF PInv, PreparationInv
<1>5. CallInv' BY <1>1, <1>3 DEF CallInv
<1>6. ProgressInv'
  <2>1. ASSUME NEW e \in app'.asks \ asks' PROVE ComesAfter(e[1], e[2])'
    <3>1. CASE e = d
      <4>1. deps' \subseteq Tops \X Tops BY DEF IInv, AssemblyInv, TypeOK, Tops
      <4> QED BY <1>1, <1>2, <3>1, <4>1, AddedIsKept
    <3>2. CASE e # d
      <4>1. e \in app.asks \ asks BY <1>1, <1>2, <2>1, <3>2
      <4>2. ComesAfter(e[1], e[2]) BY <4>1 DEF PInv, PreparationInv, ProgressInv
      <4> QED BY <1>1, <4>2, ComesAfterStays
    <3> QED BY <3>1, <3>2
  <2>2. AssemblyDependency(d[1], d[2]) \subseteq Implied BY <1>2 DEF AssemblyDependency, Implied
  <2>3. (deps \subseteq Implied)'
    BY <1>1, <2>2 DEF PInv, PreparationInv, ProgressInv, Implied, TopOf, Tops
  <2> QED BY <1>1, <1>3, <2>1, <2>3 DEF ProgressInv
<1>7. HashInv' BY <1>1, HashesStay DEF PInv, PreparationInv, HashInv
<1>8. RefusedForCause' BY <1>1 DEF RefusedForCause
<1> QED BY <1>4, <1>5, <1>6, <1>7, <1>8 DEF PreparationInv

\* A dependency is refused for its stages, for a circle, or because the stack
\* contains the other one.
LEMMA DependencyRefusedPrepares ==
  ASSUME PInv, NEW d \in asks, DependencyRefused(d[1], d[2]) PROVE PreparationInv'
<1> DEFINE a == d[1]
           b == d[2]
<1>1. Refused(a, b) /\ Throw /\ app' = app BY DEF DependencyRefused, Throw
<1>2. /\ d \in app.asks /\ a \in Element /\ b \in Element
      /\ a.stack \in Stacks /\ b.stack \in Stacks
  BY DEF PInv, IInv, AssemblyInv, TypeOK, App, Element
<1>3. ASSUME Stage[a.stack] # Stage[b.stack] PROVE Cause
  BY <1>2, <1>3 DEF Cause, LeavesStage
<1>4. ASSUME Disjoint(a, b) /\ Cycle(a, b) PROVE Cause
  <2>1. TopOf(a.stack) # TopOf(b.stack) BY <1>2, <1>4, TopOfStack DEF Disjoint, Shared
  <2>2. TopOf(a.stack) \in Tops /\ TopOf(b.stack) \in Tops BY <1>2, TopOfStack
  <2>3. <<TopOf(a.stack), TopOf(b.stack)>> \in Implied BY <1>2 DEF Implied
  <2>4. Reaches(TopOf(b.stack), TopOf(a.stack)) BY <1>4 DEF Cycle
  <2>5. AssemblyIsAcyclic /\ deps \subseteq Tops \X Tops /\ deps \subseteq Implied
    BY DEF PInv, IInv, AssemblyInv, TypeOK, PreparationInv, ProgressInv
  <2>6. CircleOfTrees
    BY <2>1, <2>2, <2>3, <2>4, <2>5, ClosedPathIsCircle DEF CircleOfTrees
  <2> QED BY <2>6 DEF Cause
<1>5. ASSUME ~Disjoint(a, b) /\ a # Common(a, b) /\ b = Common(a, b) PROVE Cause
  <2>1. b.stack \in Path[a.stack] /\ b = StackOf(b.stack) BY <1>2, <1>5, CommonIsShared
  <2>2. b.leads = None BY <2>1 DEF StackOf
  <2> QED BY <1>2, <1>5, <2>1, <2>2 DEF Cause, AfterContainer
<1>6. RefusedForCause' BY <1>1, <1>3, <1>4, <1>5, CauseStands DEF Refused
<1> QED BY <1>1, <1>6, ThrowPrepares

LEMMA FindPrepares == ASSUME PInv, FindReferences PROVE PreparationInv'
<1>1. /\ UNCHANGED <<app, asks, deps, dependsOn, uses, call, params, outs, exports, assigned, hashed>>
      /\ phase = "declare" /\ phase' = "resolve" /\ asks = {} /\ edges' = References
  BY DEF FindReferences, ordering, wiring
<1>2. call = Idle BY <1>1 DEF PInv, PreparationInv, ProgressInv
<1>3. WiresInv'
  <2>1. \A e \in (uses \cup edges)' : HasOrigin(e)
    BY <1>1, ReferencesHaveOrigin DEF PInv, PreparationInv, WiresInv
  <2>2. \A e \in (uses \cup edges)' : HasOrigin(e)'
    BY <1>1, <2>1 DEF HasOrigin, Crosses, TopOf, Tops
  <2>3. \A a \in assigned' : a.ref.in \in Stacks /\ Ordered(a.stack, a.ref.in)'
    BY <1>1, OrderedStays DEF PInv, PreparationInv, WiresInv
  <2> QED BY <1>1, <2>2, <2>3 DEF PInv, PreparationInv, WiresInv
<1>4. CallInv' BY <1>1, <1>2 DEF CallInv
<1>5. ProgressInv'
  <2>1. \A d \in app'.asks \ asks' : ComesAfter(d[1], d[2])'
    BY <1>1, KeptStays DEF PInv, PreparationInv
  <2>2. (deps \subseteq Implied)' BY <1>1 DEF PInv, PreparationInv, ProgressInv, Implied, TopOf, Tops
  <2>3. uses' \subseteq edges' BY <1>1 DEF References
  <2> QED BY <1>1, <2>1, <2>2, <2>3 DEF ProgressInv
<1>6. HashInv' BY <1>1, HashesStay DEF PInv, PreparationInv, HashInv
<1>7. RefusedForCause' BY <1>1 DEF RefusedForCause
<1> QED BY <1>3, <1>4, <1>5, <1>6, <1>7 DEF PreparationInv

-----------------------------------------------------------------------------
(* Resolving                                                               *)

\* Nothing but the activation, and what is given, changes.
LEMMA SamePhase ==
  ASSUME PInv, UNCHANGED <<app, phase, hashed>> PROVE HashInv' /\ RefusedForCause'
<1>1. HashInv' BY HashesStay DEF PInv, PreparationInv, HashInv
<1>2. phase = "failed" => Cause
  BY DEF PInv, PreparationInv, RefusedForCause, Cause, LeavesEnvironment, LeavesStage,
         AfterContainer, CircleOfTrees
<1>3. RefusedForCause' BY <1>2, CauseStands DEF RefusedForCause
<1> QED BY <1>1, <1>3

LEMMA NextPrepares == ASSUME PInv, NEW e \in edges, NextReference(e) PROVE PreparationInv'
<1>1. /\ UNCHANGED <<app, phase, asks, deps, dependsOn, uses, params, outs, exports, assigned, hashed>>
      /\ phase \in {"resolve", "resolveAgain"} /\ call = Idle /\ edges' = edges \ {e}
      /\ call' = IF HasValueForStack(e.value, e.source) THEN Idle
                 ELSE Activation(e, e.source, e.value, <<>>, NoToken)
  BY DEF NextReference, ordering, wiring
<1>2. e.source \in Stacks /\ HasOrigin(e) /\ e.value.in \in Stacks
  BY DEF PInv, IInv, AssemblyInv, TypeOK, PreparationInv, WiresInv, HasOrigin
<1>3. WiresInv' BY <1>1, WiresStay DEF PInv, PreparationInv
<1>4. ASSUME ~HasValueForStack(e.value, e.source)
      PROVE  /\ call' # Idle /\ call'.use = e /\ call'.consumer = e.source /\ call'.ref = e.value
             /\ call'.waiting = <<>> /\ call'.value = NoToken
  <2>1. call' = Activation(e, e.source, e.value, <<>>, NoToken) BY <1>1, <1>4
  <2>2. call'.consumer # Idle.consumer BY <1>2, <2>1, StacksAssumption DEF Activation, Idle
  <2> QED BY <2>1, <2>2 DEF Activation
<1>5. CallInv'
  <2>1. CASE HasValueForStack(e.value, e.source) BY <1>1, <2>1 DEF CallInv
  <2>2. CASE ~HasValueForStack(e.value, e.source)
    <3>1. phase = "resolveAgain" => e.value.in \in Path[e.source]
      BY <2>2 DEF PInv, PreparationInv, ProgressInv, Settled
    <3>2. HasOrigin(e)' BY <1>1, <1>2 DEF HasOrigin, Crosses, TopOf, Tops
    <3>3. TopOf(e.value.in)' = TopOf(e.value.in) BY DEF TopOf, Tops
    <3> QED BY <1>1, <1>2, <1>4, <2>2, <3>1, <3>2, <3>3 DEF CallInv, TopOf, Tops
  <2> QED BY <2>1, <2>2
<1>6. ProgressInv'
  <2>1. \A u \in uses' : u \in edges' \/ (call' # Idle /\ call'.use = u) \/ Settled(u)'
    <3>1. ASSUME NEW u \in uses, Settled(u) PROVE Settled(u)' BY <1>1, <3>1, SettledStays
    <3>2. Settled(e) \/ (call' # Idle /\ call'.use = e) BY <1>4 DEF Settled
    <3>3. \A u \in uses : u \in edges \/ Settled(u)
      BY <1>1 DEF PInv, PreparationInv, ProgressInv
    <3> QED BY <1>1, <3>1, <3>2, <3>3
  <2>2. phase' = "resolveAgain" => \A u \in edges' : Settled(u)'
    BY <1>1, SettledStays DEF PInv, PreparationInv, ProgressInv
  <2>3. \A d \in app'.asks \ asks' : ComesAfter(d[1], d[2])'
    BY <1>1, KeptStays DEF PInv, PreparationInv
  <2>4. (deps \subseteq Implied)' BY <1>1 DEF PInv, PreparationInv, ProgressInv, Implied, TopOf, Tops
  <2>5. asks' = {} BY <1>1 DEF PInv, PreparationInv, ProgressInv
  <2> QED BY <1>1, <2>1, <2>2, <2>3, <2>4, <2>5 DEF ProgressInv
<1>7. HashInv' /\ RefusedForCause' BY <1>1, SamePhase
<1> QED BY <1>3, <1>5, <1>6, <1>7 DEF PreparationInv

\* What is known of an activation without a value.
LEMMA ResolvingKnown ==
  ASSUME PInv, Resolving
  PROVE  /\ call # Idle /\ call.value = NoToken /\ HasOrigin(call.use)
         /\ call.use.source \in Stacks /\ call.use.value.in \in Stacks
         /\ call.consumer \in Stacks /\ TopOf(call.consumer) = TopOf(call.use.source)
         /\ Producer \in Stacks /\ TopOf(Producer) = TopOf(call.use.value.in)
         /\ call.waiting \in Seq(Nested)
         /\ \A i \in 1..(Len(call.waiting) - 1) : Parent[call.waiting[i + 1]] = call.waiting[i]
         /\ call.waiting # <<>> => Parent[call.waiting[1]] = call.consumer
         /\ phase = "resolveAgain" => Producer \in Path[call.consumer]
<1>1. CallOK /\ CallInv /\ call # Idle /\ call.value = NoToken
  BY DEF PInv, IInv, AssemblyInv, TypeOK, PreparationInv, Resolving
<1>2. call.waiting \in Seq(Nested) BY <1>1 DEF CallOK
<1> QED BY <1>1, <1>2 DEF CallOK, CallInv, HasOrigin, Producer

\* An activation that is about to leave its tree is for a reference of the app.
LEMMA ResolvingCrosses ==
  ASSUME PInv, Resolving, TopOf(call.consumer) # TopOf(Producer)
  PROVE  Crosses(call.use) /\ <<call.use.source, call.use.value.in>> \in app.uses
BY ResolvingKnown DEF HasOrigin, Crosses

LEMMA OtherEnvironmentPrepares == ASSUME PInv, OtherEnvironment PROVE PreparationInv'
<1>1. Resolving /\ Env[Producer] # Env[call.consumer] /\ Throw /\ app' = app
  BY DEF OtherEnvironment, Throw
<1>2. TopOf(call.consumer) # TopOf(Producer) BY <1>1, ResolvingKnown, OneEnvironment
<1>3. <<call.use.source, call.use.value.in>> \in app.uses BY <1>1, <1>2, ResolvingCrosses
<1>4. Env[call.use.source] # Env[call.use.value.in]
  <2>1. Env[TopOf(call.consumer)] # Env[TopOf(Producer)] BY <1>1, ResolvingKnown, OneEnvironment
  <2> QED BY <1>1, <2>1, ResolvingKnown, OneEnvironment
<1>5. Cause BY <1>3, <1>4 DEF Cause, LeavesEnvironment
<1> QED BY <1>1, <1>5, CauseStands, ThrowPrepares

LEMMA OriginStays == ASSUME NEW e, HasOrigin(e), UNCHANGED app PROVE HasOrigin(e)'
BY DEF HasOrigin, Crosses, TopOf, Tops

LEMMA InSameStackPrepares == ASSUME PInv, InSameStack PROVE PreparationInv'
<1>1. /\ UNCHANGED <<app, phase, asks, deps, dependsOn, uses, edges, params, outs, exports, assigned, hashed>>
      /\ Resolving /\ Producer = call.consumer
      /\ call' = Activation(call.use, call.consumer, call.ref, call.waiting, call.ref)
  BY DEF InSameStack, Return, ordering, wiring
<1>2. PICK use : use = call.use OBVIOUS
<1>3. /\ call'.use = use /\ call'.consumer = call.consumer /\ call'.ref = call.ref
      /\ call'.waiting = call.waiting /\ call'.value = call.ref
  BY <1>1, <1>2 DEF Activation
<1>4. call' # Idle BY <1>1, <1>3, ResolvingKnown, StacksAssumption DEF Idle, Activation
<1>5. call.ref # NoToken BY <1>1, ResolvingKnown, StacksAssumption DEF NoToken, Producer
<1>6. TopOf(use.source) = TopOf(use.value.in) BY <1>1, <1>2, ResolvingKnown
<1>7. CallInv'
  <2>1. HasOrigin(use)' BY <1>1, <1>2, OriginStays, ResolvingKnown
  <2>2. Ordered(use.source, use.value.in)' BY <1>6 DEF Ordered, TopOf, Tops
  <2> QED BY <1>1, <1>3, <1>5, <2>1, <2>2, ResolvingKnown DEF CallInv, Producer
<1>8. WiresInv' BY <1>1, WiresStay DEF PInv, PreparationInv
<1>9. ProgressInv'
  <2>1. deps' \subseteq Implied BY <1>1 DEF PInv, PreparationInv, ProgressInv
  <2> QED BY <1>1, <1>2, <1>3, <1>4, <2>1, ResolvingKnown, ActivationProgress
<1>10. HashInv' /\ RefusedForCause' BY <1>1, SamePhase
<1> QED BY <1>7, <1>8, <1>9, <1>10 DEF PreparationInv

LEMMA ResolveInParentPrepares == ASSUME PInv, ResolveInParent PROVE PreparationInv'
<1>1. /\ UNCHANGED <<app, phase, asks, deps, dependsOn, uses, edges, params, outs, exports, assigned, hashed>>
      /\ Resolving /\ Producer # call.consumer /\ IsNested(call.consumer, Producer)
      /\ call' = Activation(call.use, Parent[call.consumer], call.ref,
                            <<call.consumer>> \o call.waiting, NoToken)
  BY DEF ResolveInParent, InReach, ordering, wiring
<1>2. PICK use : use = call.use OBVIOUS
<1> DEFINE c == call.consumer
           w == call.waiting
<1>3. /\ call'.use = use /\ call'.consumer = Parent[c] /\ call'.ref = call.ref
      /\ call'.waiting = <<c>> \o w /\ call'.value = NoToken
  BY <1>1, <1>2 DEF Activation
<1>4. /\ c \in Nested /\ c \in Stacks /\ Parent[c] \in Stacks
      /\ Path[c] = Path[Parent[c]] \cup {c}
  BY <1>1, NestedConsumer, PathOfNested, ResolvingKnown
<1>5. call' # Idle BY <1>3, <1>4, StacksAssumption DEF Idle, Activation
<1>6. /\ Len(<<c>> \o w) = Len(w) + 1 /\ (<<c>> \o w)[1] = c
      /\ \A i \in 1..Len(w) : (<<c>> \o w)[i + 1] = w[i]
  <2>1. w \in Seq(Nested) BY <1>1, ResolvingKnown
  <2> QED BY <2>1
<1>7. \A i \in 1..(Len(<<c>> \o w) - 1) : Parent[(<<c>> \o w)[i + 1]] = (<<c>> \o w)[i]
  <2> SUFFICES ASSUME NEW i \in 1..Len(w) PROVE Parent[w[i]] = (<<c>> \o w)[i]
    <3>1. Len(w) \in Nat BY <1>1, ResolvingKnown
    <3> QED BY <1>6, <3>1
  <2>0. w \in Seq(Nested) BY <1>1, ResolvingKnown
  <2>1. CASE i = 1
    <3>1. w # <<>> BY <2>0, <2>1
    <3> QED BY <1>1, <1>6, <2>1, <3>1, ResolvingKnown
  <2>2. CASE i # 1
    <3>1. PICK j \in 1..(Len(w) - 1) : i = j + 1
      <4>1. i - 1 \in 1..(Len(w) - 1) /\ i = (i - 1) + 1 BY <2>0, <2>2
      <4> QED BY <4>1
    <3>2. Parent[w[j + 1]] = w[j] BY <1>1, <3>1, ResolvingKnown
    <3>3. (<<c>> \o w)[j + 1] = w[j] BY <1>6, <2>0, <3>1
    <3> QED BY <3>1, <3>2, <3>3
  <2> QED BY <2>1, <2>2
<1>8. phase = "resolveAgain" => call.ref.in \in Path[Parent[c]]
  BY <1>1, <1>4, ResolvingKnown DEF Producer
<1>9. /\ HasOrigin(use) /\ call.ref.in \in Stacks /\ TopOf(call.ref.in) = TopOf(use.value.in)
  BY <1>1, <1>2, ResolvingKnown DEF Producer
<1>10. CallInv'
  <2> HIDE DEF c, w
  <2>1. HasOrigin(use)' BY <1>1, <1>9, OriginStays
  <2>2. (<<c>> \o w)[1] = c /\ phase' = phase BY <1>1, <1>6
  <2>3. call'.value = NoToken =>
          /\ call'.ref.in \in Stacks /\ TopOf(call'.ref.in) = TopOf(call'.use.value.in)
          /\ call'.waiting # <<>> => Parent[call'.waiting[1]] = call'.consumer
          /\ phase' = "resolveAgain" => call'.ref.in \in Path[call'.consumer]
    BY <1>3, <1>8, <1>9, <2>2
  <2>4. \A i \in 1..(Len(call'.waiting) - 1) : Parent[call'.waiting[i + 1]] = call'.waiting[i]
    BY <1>3, <1>7
  <2> QED BY <1>3, <2>1, <2>3, <2>4 DEF CallInv, TopOf, Tops
<1>11. WiresInv' BY <1>1, WiresStay DEF PInv, PreparationInv
<1>12. ProgressInv'
  <2>1. deps' \subseteq Implied BY <1>1 DEF PInv, PreparationInv, ProgressInv
  <2> QED BY <1>1, <1>2, <1>3, <1>5, <2>1, ResolvingKnown, ActivationProgress
<1>13. HashInv' /\ RefusedForCause' BY <1>1, SamePhase
<1> QED BY <1>10, <1>11, <1>12, <1>13 DEF PreparationInv

\* A reference that leaves the stack of its target is resolved in the first
\* round, before any template is hashed.
LEMMA FirstRound ==
  ASSUME PInv, Resolving, Producer # call.consumer, ~IsNested(call.consumer, Producer)
  PROVE  phase = "resolve" /\ DOMAIN hashed = {}
<1>1. phase # "resolveAgain" BY ResolvingKnown DEF IsNested
<1>2. phase = "resolve"
  BY <1>1, ResolvingKnown DEF PInv, PreparationInv, ProgressInv, IInv, AssemblyInv, TypeOK
<1> QED BY <1>2 DEF PInv, PreparationInv, HashInv

LEMMA ResolveOutputPrepares == ASSUME PInv, ResolveOutput PROVE PreparationInv'
<1>1. /\ UNCHANGED <<app, phase, asks, deps, dependsOn, uses, edges, params, exports, assigned, hashed>>
      /\ Resolving /\ Producer # call.consumer /\ ~IsNested(call.consumer, Producer)
      /\ Producer \in Nested
      /\ outs' = outs \cup {[stack |-> Producer, ref |-> call.ref]}
      /\ call' = Activation(call.use, call.consumer, OutputOf(Producer, call.ref), call.waiting, NoToken)
  BY DEF ResolveOutput, InReach, ordering
<1>2. PICK use, p : use = call.use /\ p = Producer OBVIOUS
<1>3. /\ call'.use = use /\ call'.consumer = call.consumer
      /\ call'.ref.in = Parent[p] /\ call'.waiting = call.waiting /\ call'.value = NoToken
  BY <1>1, <1>2 DEF Activation, OutputOf
<1>4. call' # Idle BY <1>1, <1>3, ResolvingKnown, StacksAssumption DEF Idle, Activation
<1>5. phase = "resolve" /\ DOMAIN hashed = {} BY <1>1, FirstRound
<1>6. Parent[p] \in Stacks /\ TopOf(Parent[p]) = TopOf(use.value.in)
  BY <1>1, <1>2, PathOfNested, TopOfNested, ResolvingKnown
<1>7. CallInv'
  <2>1. HasOrigin(use)' BY <1>1, <1>2, OriginStays, ResolvingKnown
  <2>2. phase' # "resolveAgain" BY <1>1, <1>5
  <2>3. call.waiting # <<>> => Parent[call.waiting[1]] = call.consumer BY <1>1, ResolvingKnown
  <2>4. \A i \in 1..(Len(call.waiting) - 1) : Parent[call.waiting[i + 1]] = call.waiting[i]
    BY <1>1, ResolvingKnown
  <2> QED BY <1>3, <1>6, <2>1, <2>2, <2>3, <2>4 DEF CallInv, TopOf, Tops
<1>8. WiresInv'
  <2>1. \A o \in (outs \cup exports)' : o.ref.in = o.stack
    BY <1>1 DEF PInv, PreparationInv, WiresInv, Producer
  <2>2. \A e \in (uses \cup edges)' : HasOrigin(e)'
    BY <1>1, OriginStays DEF PInv, PreparationInv, WiresInv
  <2>3. \A a \in assigned' : a.ref.in \in Stacks /\ Ordered(a.stack, a.ref.in)'
    BY <1>1, OrderedStays DEF PInv, PreparationInv, WiresInv
  <2> QED BY <1>1, <2>1, <2>2, <2>3 DEF PInv, PreparationInv, WiresInv
<1>9. ProgressInv'
  <2>1. deps' \subseteq Implied BY <1>1 DEF PInv, PreparationInv, ProgressInv
  <2> QED BY <1>1, <1>2, <1>3, <1>4, <2>1, ResolvingKnown, ActivationProgress
<1>10. HashInv' BY <1>1, <1>5 DEF HashInv
<1>11. RefusedForCause' BY <1>1, <1>5 DEF RefusedForCause
<1> QED BY <1>7, <1>8, <1>9, <1>10, <1>11 DEF PreparationInv

\* An import leaves the tree of its consumer.
LEMMA ImportCrosses ==
  ASSUME PInv, NeedsImport
  PROVE  /\ Resolving /\ Producer # call.consumer /\ ~IsNested(call.consumer, Producer)
         /\ Producer \in Tops /\ TopOf(Producer) = Producer /\ TopOf(call.consumer) # Producer
         /\ <<call.use.source, call.use.value.in>> \in app.uses
<1>1. /\ Resolving /\ Producer # call.consumer /\ ~IsNested(call.consumer, Producer)
      /\ Producer \in Tops /\ TopOf(Producer) = Producer
  BY TopOfTop DEF NeedsImport, InReach
<1>2. TopOf(call.consumer) # Producer BY <1>1, ResolvingKnown, TopOfStack DEF IsNested
<1> QED BY <1>1, <1>2, ResolvingCrosses

LEMMA ResolveImportPrepares == ASSUME PInv, ResolveImport PROVE PreparationInv'
<1>1. /\ UNCHANGED <<app, phase, asks, dependsOn, uses, edges, params, outs, assigned, hashed>>
      /\ NeedsImport /\ exports' = exports \cup {[stack |-> Producer, ref |-> call.ref]}
      /\ deps' = deps \cup AssemblyDependency(StackOf(call.consumer), StackOf(Producer))
      /\ call' = Activation(call.use, call.consumer, call.ref, call.waiting,
                            ImportOf(Producer, call.ref))
  BY DEF ResolveImport, Return
<1>2. PICK use, p : use = call.use /\ p = Producer OBVIOUS
<1>3. /\ Resolving /\ p # call.consumer /\ ~IsNested(call.consumer, p)
      /\ p \in Tops /\ TopOf(p) = p /\ <<use.source, use.value.in>> \in app.uses
  BY <1>1, <1>2, ImportCrosses
<1>4. /\ HasOrigin(use) /\ call.consumer \in Stacks /\ TopOf(call.consumer) = TopOf(use.source)
      /\ TopOf(p) = TopOf(use.value.in)
  BY <1>2, <1>3, ResolvingKnown
<1>5. deps' = deps \cup {<<TopOf(use.source), TopOf(use.value.in)>>}
  BY <1>1, <1>2, <1>3, <1>4, ImportDependency
<1>6. /\ call'.use = use /\ call'.consumer = call.consumer /\ call'.waiting = call.waiting
      /\ call'.value.kind = "import"
  BY <1>1, <1>2 DEF Activation, ImportOf
<1>7. call' # Idle /\ call'.value # NoToken
  BY <1>4, <1>6, StacksAssumption DEF Idle, Activation, NoToken
<1>8. CallInv'
  <2>1. HasOrigin(use)' BY <1>1, <1>4, OriginStays
  <2>2. Ordered(use.source, use.value.in)' BY <1>5 DEF Ordered, TopOf, Tops
  <2>3. \A i \in 1..(Len(call.waiting) - 1) : Parent[call.waiting[i + 1]] = call.waiting[i]
    BY <1>3, ResolvingKnown
  <2> QED BY <1>6, <1>7, <2>1, <2>2, <2>3 DEF CallInv
<1>9. WiresInv'
  <2>1. \A o \in (outs \cup exports)' : o.ref.in = o.stack
    BY <1>1 DEF PInv, PreparationInv, WiresInv, Producer
  <2>2. \A e \in (uses \cup edges)' : HasOrigin(e)'
    BY <1>1, OriginStays DEF PInv, PreparationInv, WiresInv
  <2>3. \A a \in assigned' : a.ref.in \in Stacks /\ Ordered(a.stack, a.ref.in)'
    BY <1>1, OrderedStays DEF PInv, PreparationInv, WiresInv
  <2> QED BY <1>1, <2>1, <2>2, <2>3 DEF PInv, PreparationInv, WiresInv
<1>10. ProgressInv'
  <2>1. <<TopOf(use.source), TopOf(use.value.in)>> \in Implied BY <1>3 DEF Implied
  <2>2. deps' \subseteq Implied BY <1>5, <2>1 DEF PInv, PreparationInv, ProgressInv
  <2> QED BY <1>1, <1>2, <1>3, <1>5, <1>6, <1>7, <2>2, ResolvingKnown, ActivationProgress
<1>11. HashInv' /\ RefusedForCause' BY <1>1, SamePhase
<1> QED BY <1>8, <1>9, <1>10, <1>11 DEF PreparationInv

\* An import is refused for the stages, or for a circle.
LEMMA ImportRefusedPrepares == ASSUME PInv, ImportRefused PROVE PreparationInv'
<1>1. NeedsImport /\ Refused(StackOf(call.consumer), StackOf(Producer)) /\ Throw /\ app' = app
  BY DEF ImportRefused, Throw
<1>2. PICK use, c, p : use = call.use /\ c = call.consumer /\ p = Producer OBVIOUS
<1>3. /\ Resolving /\ p # c /\ ~IsNested(c, p) /\ p \in Tops /\ p \in Stacks /\ TopOf(p) = p
      /\ TopOf(c) # p /\ <<use.source, use.value.in>> \in app.uses
  BY <1>1, <1>2, ImportCrosses DEF Tops
<1>4. /\ HasOrigin(use) /\ c \in Stacks /\ TopOf(c) = TopOf(use.source) /\ p = TopOf(use.value.in)
      /\ use.source \in Stacks /\ use.value.in \in Stacks
  BY <1>2, <1>3, ResolvingKnown
<1>5. StackOf(c).stack = c /\ StackOf(p).stack = p BY DEF StackOf
<1>6. ASSUME Stage[c] # Stage[p] PROVE Cause
  <2>1. Stage[use.source] # Stage[use.value.in] BY <1>3, <1>4, <1>6, OneEnvironment
  <2> QED BY <1>3, <2>1 DEF Cause, LeavesEnvironment
<1>7. ASSUME Cycle(StackOf(c), StackOf(p)) PROVE Cause
  <2>1. Reaches(p, TopOf(c)) BY <1>3, <1>5, <1>7 DEF Cycle
  <2>2. TopOf(c) \in Tops BY <1>4, TopOfStack
  <2>3. <<TopOf(c), p>> \in Implied BY <1>3, <1>4 DEF Implied
  <2>4. AssemblyIsAcyclic /\ deps \subseteq Tops \X Tops /\ deps \subseteq Implied
    BY DEF PInv, IInv, AssemblyInv, TypeOK, PreparationInv, ProgressInv
  <2>5. CircleOfTrees
    BY <1>3, <2>1, <2>2, <2>3, <2>4, ClosedPathIsCircle DEF CircleOfTrees
  <2> QED BY <2>5 DEF Cause
<1>8. Disjoint(StackOf(c), StackOf(p))
  <2>1. Path[p] = {p} /\ p \notin Path[c] BY <1>3, PathOfTop DEF IsNested
  <2> QED BY <1>5, <2>1 DEF Disjoint, Shared
<1>9. Stage[c] # Stage[p] \/ Cycle(StackOf(c), StackOf(p))
  BY <1>1, <1>2, <1>5, <1>8 DEF Refused
<1> QED BY <1>1, <1>6, <1>7, <1>9, CauseStands, ThrowPrepares

\* What is known of an activation with a value.
LEMMA ReturningKnown ==
  ASSUME PInv, Returning
  PROVE  /\ call # Idle /\ call.value # NoToken /\ HasOrigin(call.use)
         /\ Ordered(call.use.source, call.use.value.in)
         /\ call.consumer \in Stacks /\ call.waiting \in Seq(Nested)
         /\ \A i \in 1..(Len(call.waiting) - 1) : Parent[call.waiting[i + 1]] = call.waiting[i]
         /\ call.value.kind # "import" /\ call.waiting # <<>> =>
              call.value.in = Parent[call.waiting[1]]
<1>1. CallOK /\ CallInv /\ call # Idle /\ call.value # NoToken
  BY DEF PInv, IInv, AssemblyInv, TypeOK, PreparationInv, Returning
<1>2. call.waiting \in Seq(Nested) BY <1>1 DEF CallOK
<1> QED BY <1>1, <1>2 DEF CallOK, CallInv

LEMMA PassParameterPrepares == ASSUME PInv, PassParameter PROVE PreparationInv'
<1>1. /\ UNCHANGED <<app, phase, asks, deps, dependsOn, uses, edges, outs, exports, assigned, hashed>>
      /\ Returning /\ call.waiting # <<>>
      /\ \A q \in params' : q \in params \/
           q = [stack |-> Head(call.waiting), ref |-> call.ref, value |-> call.value]
      /\ call' = Activation(call.use, call.consumer, call.ref, Tail(call.waiting),
                            ParameterOf(Head(call.waiting), call.ref))
  BY DEF PassParameter, ordering
<1>2. PICK use, w : use = call.use /\ w = call.waiting OBVIOUS
<1>3. w \in Seq(Nested) /\ w # <<>> /\ Head(w) = w[1] BY <1>1, <1>2, ReturningKnown
<1>4. /\ call'.use = use /\ call'.consumer = call.consumer /\ call'.waiting = Tail(w)
      /\ call'.value.kind = "parameter" /\ call'.value.in = w[1]
  BY <1>1, <1>2, <1>3 DEF Activation, ParameterOf
<1>5. call' # Idle /\ call'.value # NoToken
  BY <1>1, <1>4, ReturningKnown, StacksAssumption DEF Idle, Activation, NoToken
<1>6. \A i \in 1..(Len(w) - 1) : Parent[w[i + 1]] = w[i] BY <1>1, <1>2, ReturningKnown
<1>7. Len(Tail(w)) = Len(w) - 1 /\ \A i \in 1..(Len(w) - 1) : Tail(w)[i] = w[i + 1]
  BY <1>3
<1>8. CallInv'
  <2>1. HasOrigin(use)' BY <1>1, <1>2, OriginStays, ReturningKnown
  <2>2. Ordered(use.source, use.value.in)' BY <1>1, <1>2, OrderedStays, ReturningKnown
  <2>3. \A i \in 1..(Len(Tail(w)) - 1) : Parent[Tail(w)[i + 1]] = Tail(w)[i]
    <3> SUFFICES ASSUME NEW i \in 1..(Len(Tail(w)) - 1) PROVE Parent[Tail(w)[i + 1]] = Tail(w)[i]
      OBVIOUS
    <3>1. Len(w) \in Nat BY <1>3
    <3>2. i \in 1..(Len(w) - 1) /\ i + 1 \in 1..(Len(w) - 1) BY <1>7, <3>1
    <3>3. Tail(w)[i] = w[i + 1] /\ Tail(w)[i + 1] = w[i + 1 + 1] BY <1>7, <3>2
    <3> QED BY <1>6, <3>2, <3>3
  <2>4. Tail(w) # <<>> => w[1] = Parent[Tail(w)[1]]
    <3> SUFFICES ASSUME Tail(w) # <<>> PROVE w[1] = Parent[Tail(w)[1]]
      OBVIOUS
    <3>1. Len(w) \in Nat /\ 1 \in 1..(Len(w) - 1) BY <1>3
    <3> QED BY <1>6, <1>7, <3>1
  <2> QED BY <1>4, <1>5, <2>1, <2>2, <2>3, <2>4 DEF CallInv
<1>9. WiresInv'
  <2>1. \A q \in params' : q.value.kind # "import" => q.value.in = Parent[q.stack]
    BY <1>1, <1>2, <1>3, ReturningKnown DEF PInv, PreparationInv, WiresInv
  <2>2. \A e \in (uses \cup edges)' : HasOrigin(e)'
    BY <1>1, OriginStays DEF PInv, PreparationInv, WiresInv
  <2>3. \A a \in assigned' : a.ref.in \in Stacks /\ Ordered(a.stack, a.ref.in)'
    BY <1>1, OrderedStays DEF PInv, PreparationInv, WiresInv
  <2> QED BY <1>1, <2>1, <2>2, <2>3 DEF PInv, PreparationInv, WiresInv
<1>10. ProgressInv'
  <2>1. deps' \subseteq Implied BY <1>1 DEF PInv, PreparationInv, ProgressInv
  <2> QED BY <1>1, <1>2, <1>4, <1>5, <2>1, ReturningKnown, ActivationProgress
<1>11. HashInv' /\ RefusedForCause' BY <1>1, SamePhase
<1> QED BY <1>8, <1>9, <1>10, <1>11 DEF PreparationInv

LEMMA AssignPrepares == ASSUME PInv, AssignValue PROVE PreparationInv'
<1>1. /\ UNCHANGED <<app, phase, asks, deps, dependsOn, uses, edges, params, outs, exports, hashed>>
      /\ Returning /\ call' = Idle
      /\ assigned' = assigned \cup
           {[ref |-> call.use.value, stack |-> call.use.source, value |-> call.value]}
  BY DEF AssignValue, ordering, wiring
<1>2. PICK use : use = call.use OBVIOUS
<1>3. HasOrigin(use) /\ Ordered(use.source, use.value.in) BY <1>1, <1>2, ReturningKnown
<1>4. CallInv' BY <1>1 DEF CallInv
<1>5. WiresInv'
  <2>1. \A e \in (uses \cup edges)' : HasOrigin(e)'
    BY <1>1, OriginStays DEF PInv, PreparationInv, WiresInv
  <2>2. \A a \in assigned' : a.ref.in \in Stacks /\ Ordered(a.stack, a.ref.in)
    BY <1>1, <1>2, <1>3 DEF PInv, PreparationInv, WiresInv, HasOrigin
  <2>3. \A a \in assigned' : a.ref.in \in Stacks /\ Ordered(a.stack, a.ref.in)'
    BY <1>1, <2>2, OrderedStays
  <2> QED BY <1>1, <2>1, <2>3 DEF PInv, PreparationInv, WiresInv
<1>6. ProgressInv'
  <2>1. call # Idle /\ phase \in {"resolve", "resolveAgain"}
    BY <1>1, ReturningKnown DEF PInv, PreparationInv, ProgressInv, IInv, AssemblyInv, TypeOK
  <2>2. Settled(use)'
    <3>1. [ref |-> use.value, stack |-> use.source, value |-> call.value] \in assigned'
      BY <1>1, <1>2
    <3> QED BY <3>1 DEF Settled, HasValueForStack
  <2>3. \A u \in uses' : u \in edges' \/ Settled(u)'
    BY <1>1, <1>2, <2>1, <2>2, SettledStays DEF PInv, PreparationInv, ProgressInv
  <2>4. phase' = "resolveAgain" => \A u \in edges' : Settled(u)'
    BY <1>1, SettledStays DEF PInv, PreparationInv, ProgressInv
  <2>5. \A d \in app'.asks \ asks' : ComesAfter(d[1], d[2])'
    BY <1>1, KeptStays DEF PInv, PreparationInv
  <2>6. (deps \subseteq Implied)' BY <1>1 DEF PInv, PreparationInv, ProgressInv, Implied, TopOf, Tops
  <2>7. asks' = {} BY <1>1, <2>1 DEF PInv, PreparationInv, ProgressInv
  <2> QED BY <1>1, <2>1, <2>3, <2>4, <2>5, <2>6, <2>7 DEF ProgressInv
<1>7. HashInv' /\ RefusedForCause' BY <1>1, SamePhase
<1> QED BY <1>4, <1>5, <1>6, <1>7 DEF PreparationInv

-----------------------------------------------------------------------------
(* Assets                                                                  *)

\* When a round is over, every reference in a property is settled.
LEMMA AllSettled ==
  ASSUME PInv, Resolved PROVE asks = {} /\ \A u \in uses : Settled(u)
BY DEF PInv, PreparationInv, ProgressInv, Resolved

LEMMA RoundOverPrepares == ASSUME PInv, DefineAssets \/ Prepared PROVE PreparationInv'
<1>1. /\ UNCHANGED <<app, asks, deps, dependsOn, uses, edges, call, params, outs, exports, assigned, hashed>>
      /\ Resolved /\ call = Idle /\ edges = {} /\ phase' \in {"assets", "done"}
      /\ phase' = "done" => (phase = "resolve" /\ Nested = {}) \/ phase = "resolveAgain"
  BY DEF DefineAssets, Prepared, Resolved, ordering, wiring
<1>2. WiresInv' BY <1>1, WiresStay DEF PInv, PreparationInv
<1>3. CallInv' BY <1>1 DEF CallInv
<1>4. ProgressInv'
  <2>1. asks' = {} /\ \A u \in uses' : Settled(u)' BY <1>1, AllSettled, SettledStays
  <2>2. \A d \in app'.asks \ asks' : ComesAfter(d[1], d[2])'
    BY <1>1, KeptStays DEF PInv, PreparationInv
  <2>3. (deps \subseteq Implied)' BY <1>1 DEF PInv, PreparationInv, ProgressInv, Implied, TopOf, Tops
  <2> QED BY <1>1, <2>1, <2>2, <2>3 DEF ProgressInv
<1>5. HashInv'
  <2>1. phase' = "done" => DOMAIN hashed' = Nested BY <1>1 DEF PInv, PreparationInv, HashInv
  <2>2. \A n \in DOMAIN hashed' : Children(n)' \subseteq DOMAIN hashed'
    BY <1>1, HashesStay DEF PInv, PreparationInv
  <2> QED BY <1>1, <2>1, <2>2 DEF HashInv, Nested, Tops
<1>6. RefusedForCause' BY <1>1 DEF RefusedForCause
<1> QED BY <1>2, <1>3, <1>4, <1>5, <1>6 DEF PreparationInv

LEMMA ResolveAgainPrepares == ASSUME PInv, ResolveAgain PROVE PreparationInv'
<1>1. /\ UNCHANGED <<app, asks, deps, dependsOn, uses, call, params, outs, exports, assigned, hashed>>
      /\ phase = "assets" /\ phase' = "resolveAgain" /\ DOMAIN hashed = Nested /\ edges' = References
  BY DEF ResolveAgain, ordering, wiring
<1>2. call = Idle /\ asks = {} /\ \A u \in uses : Settled(u)
  BY <1>1 DEF PInv, PreparationInv, ProgressInv
<1>3. WiresInv'
  <2>1. \A e \in (uses \cup edges)' : HasOrigin(e)'
    BY <1>1, ReferencesHaveOrigin, OriginStays DEF PInv, PreparationInv, WiresInv
  <2>2. \A a \in assigned' : a.ref.in \in Stacks /\ Ordered(a.stack, a.ref.in)'
    BY <1>1, OrderedStays DEF PInv, PreparationInv, WiresInv
  <2> QED BY <1>1, <2>1, <2>2 DEF PInv, PreparationInv, WiresInv
<1>4. CallInv' BY <1>1, <1>2 DEF CallInv
<1>5. ProgressInv'
  <2>1. \A u \in uses' : Settled(u)' BY <1>1, <1>2, SettledStays
  <2>2. \A e \in edges' : Settled(e)' BY <1>1, <1>2, ReferencesSettled, SettledStays
  <2>3. \A d \in app'.asks \ asks' : ComesAfter(d[1], d[2])'
    BY <1>1, KeptStays DEF PInv, PreparationInv
  <2>4. (deps \subseteq Implied)' BY <1>1 DEF PInv, PreparationInv, ProgressInv, Implied, TopOf, Tops
  <2> QED BY <1>1, <1>2, <2>1, <2>2, <2>3, <2>4 DEF ProgressInv
<1>6. HashInv'
  <2>1. \A n \in DOMAIN hashed' : Children(n)' \subseteq DOMAIN hashed'
    BY <1>1, HashesStay DEF PInv, PreparationInv
  <2> QED BY <1>1, <2>1 DEF HashInv, Nested, Tops
<1>7. RefusedForCause' BY <1>1 DEF RefusedForCause
<1> QED BY <1>3, <1>4, <1>5, <1>6, <1>7 DEF PreparationInv

\* The reference to the asset is in the parent, which is hashed later, and what it
\* refers to is a parameter of the stack at the top of the parent's path.
LEMMA AssetPrepares == ASSUME PInv, NEW n \in Nested, PrepareTemplateAsset(n) PROVE PreparationInv'
<1> DEFINE e == [source |-> Parent[n], value |-> AssetParameter(n)]
<1>1. /\ UNCHANGED <<app, phase, asks, deps, dependsOn, edges, call, params, outs, exports, assigned>>
      /\ phase = "assets" /\ n \notin DOMAIN hashed /\ Children(n) \subseteq DOMAIN hashed
      /\ hashed' = [m \in DOMAIN hashed \cup {n} |-> IF m = n THEN Content(n) ELSE hashed[m]]
      /\ \A u \in uses' : u \in uses \/ u = e
      /\ uses \subseteq uses'
  BY DEF PrepareTemplateAsset, IsNextAsset, ordering, wiring
<1>2. n \in Stacks /\ Parent[n] \in Stacks /\ Parent[n] # n
  BY PathOfNested, ParentIsAnother DEF Nested
<1>3. e.source = Parent[n] /\ e.value.in = TopOf(n) BY DEF AssetParameter
<1>4. TopOf(n) = TopOf(Parent[n]) /\ TopOf(n) \in Tops /\ TopOf(n) \in Path[Parent[n]]
  BY <1>2, TopOfNested, TopOfStack
<1>5. HasOrigin(e) /\ Settled(e)
  <2>1. TopOf(TopOf(n)) = TopOf(n) /\ TopOf(n) \in Stacks BY <1>4, TopOfTop DEF Tops
  <2> QED BY <1>3, <1>4, <2>1 DEF HasOrigin, Crosses, Settled
<1> HIDE DEF e
<1>6. WiresInv'
  <2>1. \A u \in (uses \cup edges)' : HasOrigin(u)'
    BY <1>1, <1>5, OriginStays DEF PInv, PreparationInv, WiresInv
  <2>2. \A a \in assigned' : a.ref.in \in Stacks /\ Ordered(a.stack, a.ref.in)'
    BY <1>1, OrderedStays DEF PInv, PreparationInv, WiresInv
  <2> QED BY <1>1, <2>1, <2>2 DEF PInv, PreparationInv, WiresInv
<1>7. call = Idle /\ asks = {} /\ edges = {} /\ \A u \in uses : Settled(u)
  BY <1>1 DEF PInv, PreparationInv, ProgressInv
<1>8. CallInv' BY <1>1, <1>7 DEF CallInv
<1>9. ProgressInv'
  <2>1. \A u \in uses' : Settled(u)' BY <1>1, <1>5, <1>7, SettledStays
  <2>2. \A d \in app'.asks \ asks' : ComesAfter(d[1], d[2])'
    BY <1>1, KeptStays DEF PInv, PreparationInv
  <2>3. (deps \subseteq Implied)' BY <1>1 DEF PInv, PreparationInv, ProgressInv, Implied, TopOf, Tops
  <2> QED BY <1>1, <1>7, <2>1, <2>2, <2>3 DEF ProgressInv
<1>10. HashInv'
  <2>1. DOMAIN hashed' = DOMAIN hashed \cup {n} BY <1>1
  <2>2. \A m \in DOMAIN hashed' : Children(m) \subseteq DOMAIN hashed'
    BY <1>1, <2>1 DEF PInv, PreparationInv, HashInv
  <2> QED BY <1>1, <2>2 DEF HashInv, Children, Nested, Tops
<1>11. RefusedForCause' BY <1>1 DEF RefusedForCause
<1> QED BY <1>6, <1>8, <1>9, <1>10, <1>11 DEF PreparationInv

-----------------------------------------------------------------------------
(* The preparation stays in order                                          *)

LEMMA InitPInv == Init => PInv
<1> SUFFICES ASSUME Init PROVE PInv
  OBVIOUS
<1>1. /\ app \in App /\ phase = "declare" /\ asks = app.asks /\ deps = {}
      /\ uses = {[source |-> u[1], value |-> Attribute(u[2])] : u \in app.uses}
      /\ edges = {} /\ call = Idle /\ params = {} /\ outs = {} /\ exports = {}
      /\ assigned = {} /\ DOMAIN hashed = {}
  BY AppsAssumption DEF Init
<1>2. ASSUME NEW e \in uses PROVE HasOrigin(e)
  <2>1. PICK u \in app.uses : e = [source |-> u[1], value |-> Attribute(u[2])]
    BY <1>1, <1>2
  <2>2. u = <<u[1], u[2]>> /\ u[2] \in Stacks BY <1>1 DEF App
  <2> QED BY <2>1, <2>2 DEF HasOrigin, Attribute
<1>3. WiresInv BY <1>1, <1>2 DEF WiresInv
<1>4. CallInv BY <1>1 DEF CallInv
<1>5. ProgressInv BY <1>1 DEF ProgressInv
<1>6. HashInv BY <1>1 DEF HashInv
<1>7. RefusedForCause BY <1>1 DEF RefusedForCause
<1> QED BY <1>3, <1>4, <1>5, <1>6, <1>7, InitIInv DEF PInv, PreparationInv

\* Every step keeps the invariant of the preparation.
LEMMA PInvKept == PInv /\ [Next]_vars => PInv'
<1> SUFFICES ASSUME PInv, [Next]_vars PROVE PreparationInv'
  BY IInvKept DEF PInv
<1>1. IInv' BY IInvKept DEF PInv
<1>2. CASE DeclareStep
  BY <1>1, <1>2, AddPrepares, DependencyRefusedPrepares DEF DeclareStep
<1>3. CASE FindReferences
  BY <1>3, FindPrepares
<1>4. CASE ResolveStep
  BY <1>4, NextPrepares, InSameStackPrepares, OtherEnvironmentPrepares, ResolveInParentPrepares,
     ResolveOutputPrepares, ResolveImportPrepares, ImportRefusedPrepares, PassParameterPrepares,
     AssignPrepares DEF ResolveStep
<1>5. CASE AssetStep \/ Prepared
  BY <1>5, RoundOverPrepares, ResolveAgainPrepares, AssetPrepares DEF AssetStep
<1>6. CASE UNCHANGED vars
  <2>1. UNCHANGED <<app, phase, asks, deps, dependsOn, uses, edges, call, params, outs,
                    exports, assigned, hashed>>
    BY <1>6 DEF vars, ordering, wiring
  <2>2. WiresInv' BY <2>1, WiresStay DEF PInv, PreparationInv
  <2>3. CallInv' BY <2>1 DEF PInv, PreparationInv, CallInv, HasOrigin, Crosses, Ordered, TopOf, Tops
  <2>4. ProgressInv'
    <3>1. \A u \in uses' : Settled(u) => Settled(u)' BY <2>1, SettledStays
    <3>2. \A e \in edges' : Settled(e) => Settled(e)' BY <2>1, SettledStays
    <3>3. \A d \in app'.asks \ asks' : ComesAfter(d[1], d[2])'
      BY <2>1, KeptStays DEF PInv, PreparationInv
    <3>4. (deps \subseteq Implied)' BY <2>1 DEF PInv, PreparationInv, ProgressInv, Implied, TopOf, Tops
    <3> QED BY <2>1, <3>1, <3>2, <3>3, <3>4 DEF PInv, PreparationInv, ProgressInv
  <2>5. HashInv' /\ RefusedForCause' BY <2>1, SamePhase
  <2> QED BY <2>2, <2>3, <2>4, <2>5 DEF PreparationInv
<1> QED BY <1>2, <1>3, <1>4, <1>5, <1>6 DEF Next

\* The invariant of the preparation holds throughout.
THEOREM PreparationKept == Spec => []PInv
BY InitPInv, PInvKept, PTL DEF Spec

\* In a prepared app every dependency asked for is kept, by the order of the
\* assembly or a DependsOn, and a stack that uses a value of another tree comes
\* after it (addDependency, resolveValue).
THEOREM AskedIsKept == Spec => []DependenciesAreKept
<1>1. PInv => DependenciesAreKept
  <2> SUFFICES ASSUME PInv, phase = "done" PROVE DependenciesAreKept
    BY DEF DependenciesAreKept
  <2>1. /\ asks = {} /\ call = Idle /\ edges = {} /\ \A u \in uses : Settled(u)
        /\ \A d \in app.asks \ asks : ComesAfter(d[1], d[2])
    BY DEF PInv, PreparationInv, ProgressInv
  <2>2. ASSUME NEW u \in uses, TopOf(u.source) # TopOf(u.value.in)
        PROVE  ComesAfter(StackOf(u.source), StackOf(u.value.in))
    <3>1. u.source \in Stacks /\ u.value.in \in Stacks
      BY DEF PInv, IInv, AssemblyInv, TypeOK, PreparationInv, WiresInv, HasOrigin
    <3>2. u.value.in \notin Path[u.source] BY <2>2, <3>1, OneTree
    <3>3. \E a \in assigned : a.ref = u.value /\ a.stack = u.source
      BY <2>1, <2>2, <3>2 DEF Settled, HasValueForStack
    <3>4. Ordered(u.source, u.value.in) BY <3>3 DEF PInv, PreparationInv, WiresInv
    <3>5. Reaches(TopOf(u.source), TopOf(u.value.in))
      BY <2>2, <3>1, <3>4, TopOfStack, DependencyReaches DEF Ordered
    <3>6. StackOf(u.source).stack = u.source /\ StackOf(u.value.in).stack = u.value.in
      BY DEF StackOf
    <3> QED BY <2>2, <3>5, <3>6 DEF ComesAfter
  <2> QED BY <2>1, <2>2 DEF DependenciesAreKept
<1> QED BY <1>1, PreparationKept, PTL

\* An app is refused only for a reference or dependency that leaves its
\* environment or stage, a nested stack that is to come after a stack it is a
\* part of, or a circle of trees, all of which the app itself has
\* (_addAssemblyDependency, addDependency, resolveValue).
THEOREM NoAppRefusedInVain == Spec => []RefusedForCause
BY PreparationKept, PTL DEF PInv, PreparationInv

-----------------------------------------------------------------------------
(* What references come to                                                 *)

Outputs == {OutputOf(o.stack, o.ref) : o \in outs}

\* The token r stands for t: it is t, or the output of a nested stack that has a
\* token standing for t.
StandsFor(r, t) ==
  \E X \in SUBSET ({t} \cup Outputs) :
    /\ r \in X
    /\ \A x \in X :
         /\ x.in \in Path[t.in]
         /\ x = t \/ \E y \in X : [stack |-> y.in, ref |-> y] \in outs /\ x = OutputOf(y.in, y)

\* The value w in the template of s is the token r, or takes over what r is where
\* it is defined: by an import, or by a parameter that is passed.
Takes(s, w, r) ==
  \/ w = r /\ r.in = s
  \/ w = ImportOf(r.in, r) /\ [stack |-> r.in, ref |-> r] \in exports
  \/ w = ParameterOf(s, r) /\ HasParameter(s, r)

\* The stack that is to have the value which resolveValue returns.
Taker == IF call.waiting = <<>> THEN call.use.source ELSE Parent[call.waiting[1]]

PassedInv == \A p \in params : Takes(Parent[p.stack], p.value, p.ref)

AssignedInv ==
  \A a \in assigned : \E r \in {a.ref} \cup Outputs :
    StandsFor(r, a.ref) /\ Takes(a.stack, a.value, r)

CallMeans ==
  call # Idle =>
    /\ call.use \in uses /\ StandsFor(call.ref, call.use.value)
    /\ call.waiting # <<>> => call.waiting[Len(call.waiting)] = call.use.source
    /\ call.value = NoToken => call.consumer = Taker
    /\ call.value # NoToken => Takes(Taker, call.value, call.ref)

UsesInv ==
  /\ \A u \in uses : u.value.kind \in {"attribute", "asset"}
  /\ \A e \in edges : e \in uses \/ e.value.in = e.source
  /\ phase \in {"resolve", "resolveAgain", "done"} =>
       \A u \in uses : u \in edges \/ (call # Idle /\ call.use = u) \/ HasValueForStack(u.value, u.source)

MeaningInv == PassedInv /\ AssignedInv /\ CallMeans /\ UsesInv
MInv == PInv /\ MeaningInv

LEMMA StandsForItself == ASSUME NEW t, t.in \in Stacks PROVE StandsFor(t, t)
<1>1. {t} \in SUBSET ({t} \cup Outputs) /\ t.in \in Path[t.in] BY OnOwnPath
<1>2. \A x \in {t} : x.in \in Path[t.in] /\ x = t BY <1>1
<1> QED BY <1>1, <1>2 DEF StandsFor

\* What stands for a token is on the path of the stack that has it.
LEMMA StandsForWhat ==
  ASSUME NEW r, NEW t, StandsFor(r, t)
  PROVE  /\ r.in \in Path[t.in] /\ r \in {t} \cup Outputs
         /\ \/ r = t
            \/ \E y : StandsFor(y, t) /\ [stack |-> y.in, ref |-> y] \in outs /\ r = OutputOf(y.in, y)
<1>1. PICK X \in SUBSET ({t} \cup Outputs) :
        /\ r \in X
        /\ \A x \in X :
             /\ x.in \in Path[t.in]
             /\ x = t \/ \E y \in X : [stack |-> y.in, ref |-> y] \in outs /\ x = OutputOf(y.in, y)
  BY DEF StandsFor
<1>2. ASSUME NEW y \in X PROVE StandsFor(y, t) BY <1>1 DEF StandsFor
<1> QED BY <1>1, <1>2

\* A new output of a stack on the path stands for what its value stands for.
LEMMA OutputStandsFor ==
  ASSUME NEW r, NEW t, t.in \in Stacks, StandsFor(r, t), r.in \in Nested,
         outs \subseteq outs', [stack |-> r.in, ref |-> r] \in outs'
  PROVE  StandsFor(OutputOf(r.in, r), t)'
<1>1. PICK X \in SUBSET ({t} \cup Outputs) :
        /\ r \in X
        /\ \A x \in X :
             /\ x.in \in Path[t.in]
             /\ x = t \/ \E y \in X : [stack |-> y.in, ref |-> y] \in outs /\ x = OutputOf(y.in, y)
  BY DEF StandsFor
<1> DEFINE w == OutputOf(r.in, r)
           Y == X \cup {w}
<1>2. w \in Outputs'
  <2> DEFINE o == [stack |-> r.in, ref |-> r]
  <2>1. o \in outs' /\ w = OutputOf(o.stack, o.ref) OBVIOUS
  <2> QED BY <2>1 DEF Outputs
<1>3. w.in \in Path[t.in]
  <2>1. w.in = Parent[r.in] BY DEF OutputOf
  <2>2. Parent[r.in] \in Path[r.in] BY ParentIsAnother
  <2>3. Path[r.in] \subseteq Path[t.in] BY <1>1, PathTransitive
  <2> QED BY <2>1, <2>2, <2>3
<1> HIDE DEF w
<1>4. Y \in SUBSET ({t} \cup Outputs') /\ w \in Y BY <1>1, <1>2 DEF Outputs
<1>5. ASSUME NEW x \in Y
      PROVE  /\ x.in \in Path[t.in]
             /\ x = t \/ \E y \in Y : [stack |-> y.in, ref |-> y] \in outs' /\ x = OutputOf(y.in, y)
  <2>1. CASE x \in X BY <1>1, <2>1
  <2>2. CASE x = w BY <1>1, <1>3, <2>2 DEF w
  <2> QED BY <2>1, <2>2
<1> HIDE DEF Y
<1>6. \E Z \in SUBSET ({t} \cup Outputs') :
        /\ w \in Z
        /\ \A x \in Z :
             /\ x.in \in Path[t.in]
             /\ x = t \/ \E y \in Z : [stack |-> y.in, ref |-> y] \in outs' /\ x = OutputOf(y.in, y)
  BY <1>4, <1>5
<1> QED BY <1>6 DEF w, StandsFor

LEMMA StandsForStays ==
  ASSUME NEW r, NEW t, StandsFor(r, t), outs \subseteq outs' PROVE StandsFor(r, t)'
<1>1. PICK X \in SUBSET ({t} \cup Outputs) :
        /\ r \in X
        /\ \A x \in X :
             /\ x.in \in Path[t.in]
             /\ x = t \/ \E y \in X : [stack |-> y.in, ref |-> y] \in outs /\ x = OutputOf(y.in, y)
  BY DEF StandsFor
<1>2. X \in SUBSET ({t} \cup Outputs') BY <1>1 DEF Outputs
<1>3. ASSUME NEW x \in X
      PROVE  /\ x.in \in Path[t.in]
             /\ x = t \/ \E y \in X : [stack |-> y.in, ref |-> y] \in outs' /\ x = OutputOf(y.in, y)
  BY <1>1
<1> QED BY <1>1, <1>2, <1>3 DEF StandsFor

LEMMA TakesStays ==
  ASSUME NEW s, NEW w, NEW r, Takes(s, w, r), exports \subseteq exports', params \subseteq params'
  PROVE  Takes(s, w, r)'
BY DEF Takes, HasParameter

\* Wiring that is only added to keeps the meaning of what is passed and assigned.
LEMMA PassedStays ==
  ASSUME PassedInv, exports \subseteq exports', UNCHANGED params PROVE PassedInv'
BY TakesStays DEF PassedInv

LEMMA AssignedStays ==
  ASSUME AssignedInv, UNCHANGED assigned,
         outs \subseteq outs', exports \subseteq exports', params \subseteq params'
  PROVE  AssignedInv'
<1> SUFFICES ASSUME NEW a \in assigned
             PROVE  \E r \in {a.ref} \cup Outputs' : StandsFor(r, a.ref)' /\ Takes(a.stack, a.value, r)'
  BY DEF AssignedInv
<1>1. PICK r \in {a.ref} \cup Outputs : StandsFor(r, a.ref) /\ Takes(a.stack, a.value, r)
  BY DEF AssignedInv
<1>2. StandsFor(r, a.ref)' BY <1>1, StandsForStays
<1>3. Takes(a.stack, a.value, r)' BY <1>1, TakesStays
<1> QED BY <1>1, <1>2, <1>3 DEF Outputs

\* Nothing of the wiring has changed.
LEMMA SameWiring ==
  ASSUME MInv, UNCHANGED <<params, outs, exports, assigned>> PROVE PassedInv' /\ AssignedInv'
BY PassedStays, AssignedStays DEF MInv, MeaningInv

\* What an activation knows of what it resolves.
LEMMA ActivationKnown ==
  ASSUME MInv, call # Idle
  PROVE  /\ phase \in {"resolve", "resolveAgain"}
         /\ call.use.value.in \in Stacks /\ call.use.source \in Stacks
         /\ call.waiting \in Seq(Nested)
<1>1. phase \in {"resolve", "resolveAgain"}
  BY DEF MInv, PInv, PreparationInv, ProgressInv, IInv, AssemblyInv, TypeOK
<1>2. call.use.value.in \in Stacks BY DEF MInv, PInv, PreparationInv, CallInv, HasOrigin
<1>3. /\ call.use.source \in Stacks
      /\ call.waiting \in Seq({n \in Nested : TopOf(n) = TopOf(call.use.source)})
  BY DEF MInv, PInv, IInv, AssemblyInv, TypeOK, CallOK
<1>4. call.waiting \in Seq(Nested) BY <1>3
<1> QED BY <1>1, <1>2, <1>3, <1>4

\* A step of an activation leaves every use where it was.
LEMMA UsesStay ==
  ASSUME UsesInv, UNCHANGED <<uses, phase, edges>>, call # Idle, call' # Idle, call'.use = call.use,
         assigned \subseteq assigned'
  PROVE  UsesInv'
BY DEF UsesInv, HasValueForStack

\* Outside the rounds no use has to be accounted for.
LEMMA QuietMeans ==
  ASSUME MInv, UNCHANGED <<params, outs, exports, assigned, uses>>, edges' \subseteq edges,
         call' = Idle, phase' \in {"declare", "assets", "failed"}
  PROVE  MeaningInv'
<1>1. PassedInv' /\ AssignedInv' BY SameWiring
<1>2. CallMeans' BY DEF CallMeans
<1>3. UsesInv' BY DEF MInv, MeaningInv, UsesInv
<1> QED BY <1>1, <1>2, <1>3 DEF MeaningInv

LEMMA DeclareMeans == ASSUME MInv, DeclareStep PROVE MeaningInv'
<1>1. phase = "declare" => call = Idle BY DEF MInv, PInv, PreparationInv, ProgressInv
<1>2. ASSUME NEW d \in asks, AddDependency(d[1], d[2]) PROVE MeaningInv'
  BY <1>1, <1>2, QuietMeans DEF AddDependency, wiring
<1>3. ASSUME Throw PROVE MeaningInv'
  BY <1>3, QuietMeans DEF Throw, wiring
<1> QED BY <1>2, <1>3 DEF DeclareStep, DependencyRefused

LEMMA RefusalMeans == ASSUME MInv, OtherEnvironment \/ ImportRefused PROVE MeaningInv'
<1>1. Throw BY DEF OtherEnvironment, ImportRefused
<1> QED BY <1>1, QuietMeans DEF Throw, wiring

\* Both rounds look at every use, and apart from uses only at what is defined
\* where it is needed.
LEMMA FindMeans == ASSUME MInv, FindReferences \/ ResolveAgain PROVE MeaningInv'
<1>1. /\ UNCHANGED <<uses, call, params, outs, exports, assigned>>
      /\ edges' = References /\ phase \in {"declare", "assets"}
  BY DEF FindReferences, ResolveAgain, wiring
<1>2. call = Idle BY <1>1 DEF MInv, PInv, PreparationInv, ProgressInv
<1>3. PassedInv' /\ AssignedInv' BY <1>1, SameWiring
<1>4. CallMeans' BY <1>1, <1>2 DEF CallMeans
<1>5. ASSUME NEW e \in References PROVE e \in uses \/ e.value.in = e.source
  BY DEF References, MInv, PInv, PreparationInv, WiresInv
<1>6. uses \subseteq References BY DEF References
<1>7. UsesInv' BY <1>1, <1>5, <1>6 DEF MInv, MeaningInv, UsesInv
<1> QED BY <1>3, <1>4, <1>7 DEF MeaningInv

LEMMA RoundOverMeans == ASSUME MInv, DefineAssets \/ Prepared PROVE MeaningInv'
<1>1. /\ UNCHANGED <<uses, edges, call, params, outs, exports, assigned>>
      /\ edges = {} /\ call = Idle /\ phase \in {"resolve", "resolveAgain"}
  BY DEF DefineAssets, Prepared, Resolved, wiring
<1>2. PassedInv' /\ AssignedInv' BY <1>1, SameWiring
<1>3. CallMeans' BY <1>1 DEF CallMeans
<1>4. \A u \in uses : HasValueForStack(u.value, u.source)
  BY <1>1 DEF MInv, MeaningInv, UsesInv
<1>5. UsesInv' BY <1>1, <1>4 DEF MInv, MeaningInv, UsesInv, HasValueForStack
<1> QED BY <1>2, <1>3, <1>5 DEF MeaningInv

LEMMA AssetMeans == ASSUME MInv, NEW n \in Nested, PrepareTemplateAsset(n) PROVE MeaningInv'
<1>1. /\ UNCHANGED <<edges, call, params, outs, exports, assigned>>
      /\ phase = "assets" /\ phase' = "assets"
      /\ \A u \in uses' : u \in uses \/ u = [source |-> Parent[n], value |-> AssetParameter(n)]
      /\ uses \subseteq uses'
  BY DEF PrepareTemplateAsset, wiring
<1>2. call = Idle BY <1>1 DEF MInv, PInv, PreparationInv, ProgressInv
<1>3. PassedInv' /\ AssignedInv' BY <1>1, SameWiring
<1>4. CallMeans' BY <1>1, <1>2 DEF CallMeans
<1>5. UsesInv' BY <1>1 DEF MInv, MeaningInv, UsesInv, AssetParameter
<1> QED BY <1>3, <1>4, <1>5 DEF MeaningInv

LEMMA NextMeans == ASSUME MInv, NEW e \in edges, NextReference(e) PROVE MeaningInv'
<1>1. /\ UNCHANGED <<phase, uses, params, outs, exports, assigned>>
      /\ call = Idle /\ edges' = edges \ {e}
      /\ call' = IF HasValueForStack(e.value, e.source) THEN Idle
                 ELSE Activation(e, e.source, e.value, <<>>, NoToken)
  BY DEF NextReference, wiring
<1>2. PassedInv' /\ AssignedInv' BY <1>1, SameWiring
<1>3. \A u \in uses : u \in edges' \/ u = e \/ (phase \in {"resolve", "resolveAgain", "done"} =>
                                               HasValueForStack(u.value, u.source))
  BY <1>1 DEF MInv, MeaningInv, UsesInv
<1>4. CASE HasValueForStack(e.value, e.source)
  <2>1. CallMeans' BY <1>1, <1>4 DEF CallMeans
  <2>2. UsesInv' BY <1>1, <1>3, <1>4 DEF MInv, MeaningInv, UsesInv, HasValueForStack
  <2> QED BY <1>2, <2>1, <2>2 DEF MeaningInv
<1>5. CASE ~HasValueForStack(e.value, e.source)
  <2>1. call' = Activation(e, e.source, e.value, <<>>, NoToken) BY <1>1, <1>5
  <2>2. /\ call'.use = e /\ call'.consumer = e.source /\ call'.ref = e.value
        /\ call'.waiting = <<>> /\ call'.value = NoToken
    BY <2>1 DEF Activation
  <2>3. e \in uses BY <1>5 DEF MInv, MeaningInv, UsesInv, HasValueForStack
  <2>4. e.value.in \in Stacks BY DEF MInv, PInv, PreparationInv, WiresInv, HasOrigin
  <2>5. StandsFor(e.value, e.value)' BY <1>1, <2>4, StandsForItself, StandsForStays
  <2>6. Taker' = e.source BY <2>2 DEF Taker
  <2>7. call'.use.value = e.value BY <2>2
  <2>8. CallMeans' BY <1>1, <2>2, <2>3, <2>5, <2>6, <2>7 DEF CallMeans
  <2>9. call' # Idle
    <3>1. e.source \in Stacks BY DEF MInv, PInv, IInv, AssemblyInv, TypeOK
    <3>2. Idle.consumer = None BY DEF Idle, Activation
    <3> QED BY <2>2, <3>1, <3>2, StacksAssumption
  <2>10. UsesInv' BY <1>1, <1>3, <2>2, <2>9 DEF MInv, MeaningInv, UsesInv, HasValueForStack
  <2> QED BY <1>2, <2>8, <2>10 DEF MeaningInv
<1> QED BY <1>4, <1>5

LEMMA InSameStackMeans == ASSUME MInv, InSameStack PROVE MeaningInv'
<1>1. /\ UNCHANGED <<phase, uses, edges, params, outs, exports, assigned>>
      /\ Resolving /\ Producer = call.consumer
      /\ call' = Activation(call.use, call.consumer, call.ref, call.waiting, call.ref)
  BY DEF InSameStack, Return, wiring
<1>2. PICK use, ref, w, c : use = call.use /\ ref = call.ref /\ w = call.waiting /\ c = call.consumer
  OBVIOUS
<1>3. /\ call'.use = use /\ call'.consumer = c /\ call'.ref = ref
      /\ call'.waiting = w /\ call'.value = ref
  BY <1>1, <1>2 DEF Activation
<1>4. call # Idle /\ call' # Idle
  BY <1>1, <1>2, <1>3, ResolvingKnown, StacksAssumption DEF MInv, Idle, Activation
<1>5. /\ use \in uses /\ StandsFor(ref, use.value) /\ c = Taker
      /\ w # <<>> => w[Len(w)] = use.source
  BY <1>1, <1>2, <1>4 DEF MInv, MeaningInv, CallMeans, Resolving
<1>6. PassedInv' /\ AssignedInv' BY <1>1, SameWiring
<1>7. CallMeans'
  <2>1. StandsFor(ref, use.value)' BY <1>1, <1>5, StandsForStays
  <2>2. Taker' = c BY <1>2, <1>3, <1>5 DEF Taker
  <2>3. Takes(c, ref, ref)' BY <1>1, <1>2 DEF Takes, Producer
  <2>4. Takes(Taker, call.value, call.ref)' BY <1>3, <2>2, <2>3 DEF Takes, HasParameter
  <2>5. StandsFor(call.ref, call.use.value)' BY <1>3, <2>1 DEF StandsFor, Outputs
  <2> QED BY <1>1, <1>3, <1>5, <2>2, <2>4, <2>5 DEF CallMeans
<1>8. UsesInv' BY <1>1, <1>2, <1>3, <1>4, UsesStay DEF MInv, MeaningInv
<1> QED BY <1>6, <1>7, <1>8 DEF MeaningInv

LEMMA ResolveInParentMeans == ASSUME MInv, ResolveInParent PROVE MeaningInv'
<1>1. /\ UNCHANGED <<phase, uses, edges, params, outs, exports, assigned>>
      /\ Resolving /\ IsNested(call.consumer, Producer)
      /\ call' = Activation(call.use, Parent[call.consumer], call.ref,
                            <<call.consumer>> \o call.waiting, NoToken)
  BY DEF ResolveInParent, InReach, wiring
<1>2. PICK use, ref, w, c : use = call.use /\ ref = call.ref /\ w = call.waiting /\ c = call.consumer
  OBVIOUS
<1>3. /\ call'.use = use /\ call'.consumer = Parent[c] /\ call'.ref = ref
      /\ call'.waiting = <<c>> \o w /\ call'.value = NoToken
  BY <1>1, <1>2 DEF Activation
<1>4. w \in Seq(Nested) /\ c \in Nested /\ Parent[c] \in Stacks
  BY <1>1, <1>2, NestedConsumer, PathOfNested, ResolvingKnown DEF MInv
<1>5. call # Idle /\ call' # Idle
  BY <1>1, <1>3, <1>4, ResolvingKnown, StacksAssumption DEF MInv, Idle, Activation
<1>6. /\ use \in uses /\ StandsFor(ref, use.value) /\ c = Taker
      /\ w # <<>> => w[Len(w)] = use.source
  BY <1>1, <1>2, <1>5 DEF MInv, MeaningInv, CallMeans, Resolving
<1>7. (<<c>> \o w)[1] = c /\ <<c>> \o w # <<>> /\ (<<c>> \o w)[Len(<<c>> \o w)] = use.source
  <2>1. Len(<<c>> \o w) = Len(w) + 1 /\ (<<c>> \o w)[1] = c BY <1>4
  <2>2. CASE w = <<>>
    <3>1. c = use.source BY <1>2, <1>6, <2>2 DEF Taker
    <3> QED BY <2>1, <2>2, <3>1
  <2>3. CASE w # <<>>
    <3>1. (<<c>> \o w)[Len(w) + 1] = w[Len(w)] BY <1>4, <2>3
    <3> QED BY <1>4, <1>6, <2>1, <2>3, <3>1
  <2> QED BY <2>2, <2>3
<1>8. PassedInv' /\ AssignedInv' BY <1>1, SameWiring
<1>9. CallMeans'
  <2>1. StandsFor(ref, use.value)' BY <1>1, <1>6, StandsForStays
  <2>2. Taker' = Parent[c] BY <1>3, <1>7 DEF Taker
  <2>3. StandsFor(call.ref, call.use.value)' BY <1>3, <2>1 DEF StandsFor, Outputs
  <2> QED BY <1>1, <1>3, <1>6, <1>7, <2>2, <2>3 DEF CallMeans
<1>10. UsesInv' BY <1>1, <1>2, <1>3, <1>5, UsesStay DEF MInv, MeaningInv
<1> QED BY <1>8, <1>9, <1>10 DEF MeaningInv

LEMMA ResolveOutputMeans == ASSUME MInv, ResolveOutput PROVE MeaningInv'
<1>1. /\ UNCHANGED <<phase, uses, edges, params, exports, assigned>>
      /\ Resolving /\ Producer \in Nested
      /\ outs' = outs \cup {[stack |-> Producer, ref |-> call.ref]}
      /\ call' = Activation(call.use, call.consumer, OutputOf(Producer, call.ref), call.waiting, NoToken)
  BY DEF ResolveOutput, InReach
<1>2. PICK use, ref, w, c, p : /\ use = call.use /\ ref = call.ref /\ w = call.waiting
                               /\ c = call.consumer /\ p = ref.in
  OBVIOUS
<1>3. /\ call'.use = use /\ call'.consumer = c /\ call'.ref = OutputOf(p, ref)
      /\ call'.waiting = w /\ call'.value = NoToken /\ p \in Nested
      /\ [stack |-> p, ref |-> ref] \in outs' /\ outs \subseteq outs'
  BY <1>1, <1>2 DEF Activation, Producer
<1>4. /\ call # Idle /\ c \in Stacks /\ use.value.in \in Stacks
  BY <1>1, <1>2, ResolvingKnown DEF MInv
<1>5. call' # Idle BY <1>3, <1>4, StacksAssumption DEF Idle, Activation
<1>6. /\ use \in uses /\ StandsFor(ref, use.value) /\ c = Taker
      /\ w # <<>> => w[Len(w)] = use.source
  BY <1>1, <1>2, <1>4 DEF MInv, MeaningInv, CallMeans, Resolving
<1>7. PassedInv' /\ AssignedInv'
  BY <1>1, <1>3, PassedStays, AssignedStays DEF MInv, MeaningInv
<1>8. CallMeans'
  <2>2. StandsFor(OutputOf(p, ref), use.value)' BY <1>2, <1>3, <1>4, <1>6, OutputStandsFor
  <2>3. Taker' = c BY <1>2, <1>3, <1>6 DEF Taker
  <2>4. StandsFor(call.ref, call.use.value)' BY <1>3, <2>2 DEF StandsFor, Outputs
  <2> QED BY <1>1, <1>3, <1>6, <2>3, <2>4 DEF CallMeans
<1>9. UsesInv' BY <1>1, <1>2, <1>3, <1>4, <1>5, UsesStay DEF MInv, MeaningInv
<1> QED BY <1>7, <1>8, <1>9 DEF MeaningInv

LEMMA ResolveImportMeans == ASSUME MInv, ResolveImport PROVE MeaningInv'
<1>1. /\ UNCHANGED <<phase, uses, edges, params, outs, assigned>>
      /\ Resolving /\ exports' = exports \cup {[stack |-> Producer, ref |-> call.ref]}
      /\ call' = Activation(call.use, call.consumer, call.ref, call.waiting, ImportOf(Producer, call.ref))
  BY DEF ResolveImport, NeedsImport, InReach, Return
<1>2. PICK use, ref, w, c, p : /\ use = call.use /\ ref = call.ref /\ w = call.waiting
                               /\ c = call.consumer /\ p = ref.in
  OBVIOUS
<1>3. /\ call'.use = use /\ call'.consumer = c /\ call'.ref = ref
      /\ call'.waiting = w /\ call'.value = ImportOf(p, ref)
      /\ [stack |-> p, ref |-> ref] \in exports' /\ exports \subseteq exports'
  BY <1>1, <1>2 DEF Activation, Producer
<1>4. /\ call # Idle /\ c \in Stacks
  BY <1>1, <1>2, ResolvingKnown DEF MInv
<1>5. call' # Idle BY <1>3, <1>4, StacksAssumption DEF Idle, Activation
<1>6. /\ use \in uses /\ StandsFor(ref, use.value) /\ c = Taker
      /\ w # <<>> => w[Len(w)] = use.source
  BY <1>1, <1>2, <1>4 DEF MInv, MeaningInv, CallMeans, Resolving
<1>7. PassedInv' /\ AssignedInv'
  BY <1>1, <1>3, PassedStays, AssignedStays DEF MInv, MeaningInv
<1>8. CallMeans'
  <2>1. StandsFor(ref, use.value)' BY <1>1, <1>6, StandsForStays
  <2>2. Taker' = c BY <1>2, <1>3, <1>6 DEF Taker
  <2>3. Takes(Taker, call.value, call.ref)' BY <1>2, <1>3 DEF Takes
  <2>4. StandsFor(call.ref, call.use.value)' BY <1>3, <2>1 DEF StandsFor, Outputs
  <2>5. call'.value # NoToken BY <1>3 DEF ImportOf, NoToken
  <2> QED BY <1>1, <1>3, <1>6, <2>2, <2>3, <2>4, <2>5 DEF CallMeans
<1>9. UsesInv' BY <1>1, <1>2, <1>3, <1>4, <1>5, UsesStay DEF MInv, MeaningInv
<1> QED BY <1>7, <1>8, <1>9 DEF MeaningInv

LEMMA PassParameterMeans == ASSUME MInv, PassParameter PROVE MeaningInv'
<1>1. /\ UNCHANGED <<phase, uses, edges, outs, exports, assigned>>
      /\ Returning /\ call.waiting # <<>>
      /\ params' = IF HasParameter(Head(call.waiting), call.ref) THEN params
                   ELSE params \cup {[stack |-> Head(call.waiting), ref |-> call.ref, value |-> call.value]}
      /\ call' = Activation(call.use, call.consumer, call.ref, Tail(call.waiting),
                            ParameterOf(Head(call.waiting), call.ref))
  BY DEF PassParameter
<1>2. PICK use, ref, w, n, v : /\ use = call.use /\ ref = call.ref /\ w = call.waiting
                               /\ n = Head(w) /\ v = call.value
  OBVIOUS
<1>3. /\ call'.use = use /\ call'.consumer = call.consumer /\ call'.ref = ref
      /\ call'.waiting = Tail(w) /\ call'.value = ParameterOf(n, ref)
  BY <1>1, <1>2 DEF Activation
<1>4. /\ w \in Seq(Nested) /\ w # <<>> /\ n = w[1] /\ call # Idle /\ v # NoToken
      /\ \A i \in 1..(Len(w) - 1) : Parent[w[i + 1]] = w[i]
  BY <1>1, <1>2, ReturningKnown DEF MInv
<1>5. call' # Idle /\ call'.value # NoToken
  BY <1>1, <1>3, ReturningKnown, StacksAssumption DEF MInv, Idle, Activation, NoToken, ParameterOf
<1>6. /\ use \in uses /\ StandsFor(ref, use.value) /\ Takes(Taker, v, ref)
      /\ w[Len(w)] = use.source
  BY <1>2, <1>4 DEF MInv, MeaningInv, CallMeans
<1>7. Taker = Parent[n] BY <1>2, <1>4 DEF Taker
<1>8. params \subseteq params' /\ HasParameter(n, ref)'
  <2>1. CASE HasParameter(n, ref)
    <3>1. params' = params BY <1>1, <1>2, <2>1
    <3> QED BY <2>1, <3>1 DEF HasParameter
  <2>2. CASE ~HasParameter(n, ref)
    <3> DEFINE p == [stack |-> n, ref |-> ref, value |-> v]
    <3>1. params' = params \cup {p} BY <1>1, <1>2, <2>2
    <3>2. p \in params' /\ p.stack = n /\ p.ref = ref BY <3>1
    <3> QED BY <3>1, <3>2 DEF HasParameter
  <2> QED BY <2>1, <2>2
<1>9. PassedInv'
  <2> SUFFICES ASSUME NEW p \in params' PROVE Takes(Parent[p.stack], p.value, p.ref)'
    BY DEF PassedInv
  <2>1. CASE p \in params
    <3>1. Takes(Parent[p.stack], p.value, p.ref) BY <2>1 DEF MInv, MeaningInv, PassedInv
    <3> QED BY <1>1, <1>8, <3>1, TakesStays
  <2>2. CASE p \notin params
    <3>1. p.stack = n /\ p.value = v /\ p.ref = ref BY <1>1, <1>2, <2>2
    <3>2. Takes(Parent[n], v, ref)' BY <1>1, <1>6, <1>7, <1>8, TakesStays
    <3> QED BY <3>1, <3>2
  <2> QED BY <2>1, <2>2
<1>10. AssignedInv' BY <1>1, <1>8, AssignedStays DEF MInv, MeaningInv
<1>11. Taker' = n /\ (Tail(w) # <<>> => Tail(w)[Len(Tail(w))] = use.source)
  <2>1. /\ Len(w) \in Nat /\ Len(Tail(w)) = Len(w) - 1
        /\ \A i \in 1..(Len(w) - 1) : Tail(w)[i] = w[i + 1]
    BY <1>4
  <2>2. CASE Tail(w) = <<>>
    <3>0. Len(Tail(w)) = 0 BY <2>2
    <3>1. Len(w) = 1 BY <2>1, <3>0
    <3>2. use.source = n BY <1>4, <1>6, <3>1
    <3> QED BY <1>3, <2>2, <3>2 DEF Taker
  <2>3. CASE Tail(w) # <<>>
    <3>1. 1 \in 1..(Len(w) - 1) /\ Len(w) - 1 \in 1..(Len(w) - 1) BY <1>4, <2>1, <2>3
    <3>2. Tail(w)[1] = w[2] /\ Tail(w)[Len(w) - 1] = w[Len(w)] BY <2>1, <3>1
    <3>3. Parent[w[2]] = w[1] BY <1>4, <3>1
    <3>4. Taker' = Parent[Tail(w)[1]] BY <1>3, <2>3 DEF Taker
    <3> QED BY <1>4, <1>6, <2>1, <3>2, <3>3, <3>4
  <2> QED BY <2>2, <2>3
<1>12. CallMeans'
  <2>1. StandsFor(ref, use.value)' BY <1>1, <1>6, StandsForStays
  <2>2. Takes(n, ParameterOf(n, ref), ref)' BY <1>8 DEF Takes, HasParameter
  <2>3. Takes(Taker, call.value, call.ref)' BY <1>3, <1>11, <2>2 DEF Takes, HasParameter
  <2>4. StandsFor(call.ref, call.use.value)' BY <1>3, <2>1 DEF StandsFor, Outputs
  <2> QED BY <1>1, <1>3, <1>5, <1>6, <1>11, <2>3, <2>4 DEF CallMeans
<1>13. UsesInv' BY <1>1, <1>2, <1>3, <1>4, <1>5, UsesStay DEF MInv, MeaningInv
<1> QED BY <1>9, <1>10, <1>12, <1>13 DEF MeaningInv

LEMMA AssignMeans == ASSUME MInv, AssignValue PROVE MeaningInv'
<1>1. /\ UNCHANGED <<phase, uses, edges, params, outs, exports>>
      /\ Returning /\ call.waiting = <<>> /\ call' = Idle
      /\ assigned' = assigned \cup
           {[ref |-> call.use.value, stack |-> call.use.source, value |-> call.value]}
  BY DEF AssignValue, wiring
<1>2. PICK use, ref, v : use = call.use /\ ref = call.ref /\ v = call.value OBVIOUS
<1>3. call # Idle /\ v # NoToken BY <1>1, <1>2, ReturningKnown DEF MInv
<1>4. use \in uses /\ StandsFor(ref, use.value) /\ Takes(use.source, v, ref)
  BY <1>1, <1>2, <1>3 DEF MInv, MeaningInv, CallMeans, Taker
<1>5. PassedInv' BY <1>1, PassedStays DEF MInv, MeaningInv
<1>6. AssignedInv'
  <2> SUFFICES ASSUME NEW a \in assigned'
               PROVE  \E r \in {a.ref} \cup Outputs : StandsFor(r, a.ref)' /\ Takes(a.stack, a.value, r)'
    BY <1>1 DEF AssignedInv, Outputs
  <2>1. PICK r \in {a.ref} \cup Outputs : StandsFor(r, a.ref) /\ Takes(a.stack, a.value, r)
    <3>1. CASE a \in assigned BY <3>1 DEF MInv, MeaningInv, AssignedInv
    <3>2. CASE a \notin assigned
      <4>1. a.ref = use.value /\ a.stack = use.source /\ a.value = v BY <1>1, <1>2, <3>2
      <4>2. ref \in {use.value} \cup Outputs BY <1>4, StandsForWhat
      <4> QED BY <1>4, <4>1, <4>2
    <3> QED BY <3>1, <3>2
  <2>2. StandsFor(r, a.ref)' BY <1>1, <2>1, StandsForStays
  <2>3. Takes(a.stack, a.value, r)' BY <1>1, <2>1, TakesStays
  <2> QED BY <2>1, <2>2, <2>3
<1>7. CallMeans' BY <1>1 DEF CallMeans
<1>8. UsesInv'
  <2> DEFINE new == [ref |-> use.value, stack |-> use.source, value |-> v]
  <2>1. assigned' = assigned \cup {new} BY <1>1, <1>2
  <2>2. new \in assigned' /\ new.ref = use.value /\ new.stack = use.source BY <2>1
  <2>3. HasValueForStack(use.value, use.source)' BY <2>2 DEF HasValueForStack
  <2>4. \A u \in uses : HasValueForStack(u.value, u.source) => HasValueForStack(u.value, u.source)'
    BY <2>1 DEF HasValueForStack
  <2> HIDE DEF new
  <2>5. phase \in {"resolve", "resolveAgain", "done"} =>
          \A u \in uses : u \in edges \/ HasValueForStack(u.value, u.source)'
    BY <1>2, <2>3, <2>4 DEF MInv, MeaningInv, UsesInv
  <2> QED BY <1>1, <2>5 DEF MInv, MeaningInv, UsesInv
<1> QED BY <1>5, <1>6, <1>7, <1>8 DEF MeaningInv

\* Whatever stands for a reference leads to its target, in every state.
LEMMA MInvKept == MInv /\ [Next]_vars => MInv'
<1> SUFFICES ASSUME MInv, [Next]_vars PROVE MeaningInv'
  BY PInvKept DEF MInv
<1>1. CASE DeclareStep BY <1>1, DeclareMeans
<1>2. CASE FindReferences BY <1>2, FindMeans
<1>3. CASE ResolveStep
  BY <1>3, NextMeans, InSameStackMeans, RefusalMeans, ResolveInParentMeans, ResolveOutputMeans,
     ResolveImportMeans, PassParameterMeans, AssignMeans DEF ResolveStep
<1>4. CASE AssetStep \/ Prepared
  BY <1>4, RoundOverMeans, FindMeans, AssetMeans DEF AssetStep
<1>5. CASE UNCHANGED vars
  <2>1. UNCHANGED <<phase, uses, edges, call, params, outs, exports, assigned>>
    BY <1>5 DEF vars, wiring
  <2>2. PassedInv' /\ AssignedInv' BY <2>1, SameWiring
  <2>3. CallMeans' BY <2>1 DEF MInv, MeaningInv, CallMeans, StandsFor, Outputs, Takes, HasParameter, Taker
  <2>4. UsesInv' BY <2>1 DEF MInv, MeaningInv, UsesInv, HasValueForStack
  <2> QED BY <2>2, <2>3, <2>4 DEF MeaningInv
<1> QED BY <1>1, <1>2, <1>3, <1>4, <1>5 DEF Next

LEMMA InitMInv == Init => MInv
<1> SUFFICES ASSUME Init PROVE MeaningInv
  BY InitPInv DEF MInv
<1>1. /\ phase = "declare" /\ edges = {} /\ call = Idle /\ params = {} /\ assigned = {}
      /\ uses = {[source |-> u[1], value |-> Attribute(u[2])] : u \in app.uses}
  BY DEF Init
<1>2. PassedInv /\ AssignedInv BY <1>1 DEF PassedInv, AssignedInv
<1>3. CallMeans BY <1>1 DEF CallMeans
<1>4. UsesInv BY <1>1 DEF UsesInv, Attribute
<1> QED BY <1>2, <1>3, <1>4 DEF MeaningInv

\* The meaning of what is passed, assigned and being resolved is kept throughout.
THEOREM MeaningKept == Spec => []MInv
BY InitMInv, MInvKept, PTL DEF Spec

-----------------------------------------------------------------------------
(* Where a token leads                                                     *)

\* The least of a set of numbers.
LEMMA LeastNumber ==
  ASSUME NEW T \in SUBSET Nat, T # {} PROVE \E m \in T : \A n \in T : m <= n
<1>1. PICK m \in T : \A n \in T : ~(<<n, m>> \in OpToRel(<, Nat))
  BY NatLessThanWellFounded, WFMin
<1>2. ASSUME NEW n \in T PROVE m <= n
  <2>1. <<n, m>> \in Nat \X Nat OBVIOUS
  <2>2. ~(n < m) BY <1>1, <2>1 DEF OpToRel
  <2> QED BY <2>2
<1> QED BY <1>2

Twice == 2 * Cardinality(Stacks)
LEMMA TwiceIsNatural == Twice \in Nat
  BY StacksAssumption, FS_CardinalityType DEF Twice

\* A trail starts at the reference, and every place but the first is looked up in the one before.
IsTrail(f, K, s, v) ==
  f = [n \in 0 .. K |-> IF n = 0 THEN <<s, v>> ELSE Lookup(f[n - 1][1], f[n - 1][2])]

LEMMA TrailsExist ==
  ASSUME NEW s, NEW v PROVE \A K \in Nat : \E f : IsTrail(f, K, s, v)
<1> DEFINE T == {K \in Nat : ~ \E f : IsTrail(f, K, s, v)}
<1> SUFFICES ASSUME T # {} PROVE FALSE
  OBVIOUS
<1>1. PICK K \in T : \A n \in T : K <= n BY LeastNumber
<1>2. K # 0
  <2> DEFINE f == [n \in 0 .. 0 |-> <<s, v>>]
  <2>1. f = [n \in 0 .. 0 |-> IF n = 0 THEN <<s, v>> ELSE Lookup(f[n - 1][1], f[n - 1][2])]
    OBVIOUS
  <2>2. IsTrail(f, 0, s, v) BY <2>1 DEF IsTrail
  <2> QED BY <1>1, <2>2
<1>3. K - 1 \in Nat /\ K - 1 \notin T BY <1>1, <1>2
<1>4. PICK f : IsTrail(f, K - 1, s, v) BY <1>3
<1> DEFINE g == [n \in 0 .. K |-> IF n = K THEN Lookup(f[K - 1][1], f[K - 1][2]) ELSE f[n]]
<1>5. ASSUME NEW n \in 0 .. K
      PROVE  g[n] = IF n = 0 THEN <<s, v>> ELSE Lookup(g[n - 1][1], g[n - 1][2])
  <2>1. CASE n = K
    <3>1. K - 1 \in 0 .. K /\ K - 1 # K BY <1>2, <1>3
    <3>2. g[K - 1] = f[K - 1] BY <3>1
    <3> QED BY <1>2, <2>1, <3>2
  <2>2. CASE n # K
    <3>1. n \in 0 .. (K - 1) /\ g[n] = f[n] BY <1>3, <2>2
    <3>2. f[n] = IF n = 0 THEN <<s, v>> ELSE Lookup(f[n - 1][1], f[n - 1][2])
      BY <1>4, <3>1 DEF IsTrail
    <3>3. n # 0 => n - 1 \in 0 .. K /\ n - 1 # K BY <3>1
    <3>4. n # 0 => g[n - 1] = f[n - 1] BY <3>3
    <3> QED BY <3>1, <3>2, <3>4
  <2> QED BY <2>1, <2>2
<1>6. IsTrail(g, K, s, v)
  <2>1. g = [n \in 0 .. K |-> g[n]] OBVIOUS
  <2> HIDE DEF g
  <2>2. [n \in 0 .. K |-> g[n]] = [n \in 0 .. K |-> IF n = 0 THEN <<s, v>> ELSE Lookup(g[n - 1][1], g[n - 1][2])]
    BY <1>5
  <2> QED BY <2>1, <2>2 DEF IsTrail
<1> QED BY <1>1, <1>6

LEMMA TrailIsTrail == ASSUME NEW s, NEW v PROVE IsTrail(Trail(s, v), Twice, s, v)
<1>1. \E f : IsTrail(f, Twice, s, v) BY TrailsExist, TwiceIsNatural
<1>2. Trail(s, v) = CHOOSE f : IsTrail(f, Twice, s, v) BY DEF Trail, IsTrail, Twice
<1> QED BY <1>1, <1>2

\* How deep a stack is nested.
Depth(s) == Cardinality(Path[s])

\* No stack is within itself.
LEMMA NotWithinItself == \A n \in Nested : n \notin Path[Parent[n]]
<1> DEFINE X == {s \in Stacks : s \in Nested => s \notin Path[Parent[s]]}
<1>1. Tops \subseteq X BY DEF Tops, Nested
<1>2. ASSUME NEW n \in Nested, Parent[n] \in X PROVE n \in X
  <2>1. n \in Stacks /\ Parent[n] \in Stacks /\ Parent[n] # n /\ Parent[n] \in Path[n]
    BY PathOfNested, ParentIsAnother DEF Nested
  <2>2. CASE Parent[n] \in Tops BY <2>1, <2>2, PathOfTop
  <2>3. CASE Parent[n] \in Nested
    <3> SUFFICES ASSUME n \in Path[Parent[n]] PROVE FALSE
      BY <2>1
    <3>1. Path[Parent[n]] = Path[Parent[Parent[n]]] \cup {Parent[n]} /\ Parent[Parent[n]] \in Stacks
      BY <2>3, PathOfNested
    <3>2. n \in Path[Parent[Parent[n]]] BY <2>1, <3>1
    <3>3. Parent[n] \in Path[Parent[Parent[n]]] BY <2>1, <3>1, <3>2, PathTransitive
    <3> QED BY <1>2, <2>3, <3>3
  <2> QED BY <2>1, <2>2, <2>3 DEF Nested
<1> HIDE DEF X
<1>3. X \in SUBSET Stacks BY DEF X
<1>4. X = Stacks BY <1>1, <1>2, <1>3, TreeInduction
<1> QED BY <1>4 DEF X, Nested

\* A stack on the path is no deeper, and a nested stack is one deeper than its parent.
LEMMA DepthOfStack ==
  /\ \A s \in Stacks : Depth(s) \in Nat /\ 1 <= Depth(s) /\ 2 * Depth(s) <= Twice
  /\ \A s \in Stacks : \A t \in Path[s] : Depth(t) <= Depth(s)
  /\ \A n \in Nested : Depth(n) = Depth(Parent[n]) + 1
<1>1. ASSUME NEW s \in Stacks
      PROVE  /\ IsFiniteSet(Path[s]) /\ Depth(s) \in Nat /\ 1 <= Depth(s) /\ 2 * Depth(s) <= Twice
             /\ \A t \in Path[s] : Depth(t) <= Depth(s)
  <2>1. IsFiniteSet(Path[s]) /\ Cardinality(Path[s]) <= Cardinality(Stacks)
    BY OnOwnPath, StacksAssumption, FS_Subset
  <2>2. Cardinality(Path[s]) \in Nat /\ Cardinality(Stacks) \in Nat
    BY <2>1, StacksAssumption, FS_CardinalityType
  <2>3. Cardinality(Path[s]) # 0 BY <2>1, OnOwnPath, FS_EmptySet
  <2>4. \A t \in Path[s] : Cardinality(Path[t]) <= Cardinality(Path[s])
    BY <2>1, PathTransitive, FS_Subset
  <2> QED BY <2>1, <2>2, <2>3, <2>4 DEF Depth, Twice
<1>2. ASSUME NEW n \in Nested PROVE Depth(n) = Depth(Parent[n]) + 1
  <2>1. Parent[n] \in Stacks /\ Path[n] = Path[Parent[n]] \cup {n} BY PathOfNested
  <2>2. IsFiniteSet(Path[Parent[n]]) BY <1>1, <2>1
  <2>3. n \notin Path[Parent[n]] BY NotWithinItself
  <2>4. Cardinality(Path[Parent[n]] \cup {n}) =
          IF n \in Path[Parent[n]] THEN Cardinality(Path[Parent[n]]) ELSE Cardinality(Path[Parent[n]]) + 1
    BY <2>2, FS_AddElement, Zenon
  <2> QED BY <2>1, <2>3, <2>4 DEF Depth
<1> QED BY <1>1, <1>2

\* Where the parts of the wiring lead.
LEMMA LookupAttribute ==
  ASSUME NEW s, NEW v, NEW r, Rendered(s, v) = r, r.kind \in {"attribute", "asset"}
  PROVE  Lookup(s, v) = <<s, r>>
BY DEF Lookup

LEMMA LookupOutput ==
  ASSUME NEW s, NEW v, NEW y, Rendered(s, v) = OutputOf(y.in, y), Parent[y.in] = s,
         [stack |-> y.in, ref |-> y] \in outs
  PROVE  Lookup(s, v) = <<y.in, y>>
<1>1. PICK r : r = Rendered(s, v) OBVIOUS
<1>2. r.kind = "output" /\ r.in = s /\ r.name = y.in /\ r.of[1] = y BY <1>1 DEF OutputOf
<1> QED BY <1>1, <1>2 DEF Lookup

LEMMA LookupImport ==
  ASSUME NEW s, NEW v, NEW y, Rendered(s, v) = ImportOf(y.in, y), [stack |-> y.in, ref |-> y] \in exports
  PROVE  Lookup(s, v) = <<y.in, y>>
<1>1. PICK r : r = Rendered(s, v) OBVIOUS
<1>2. r.kind = "import" /\ r.name = y.in /\ r.of[1] = y BY <1>1 DEF ImportOf
<1> QED BY <1>1, <1>2 DEF Lookup

LEMMA LookupParameter ==
  ASSUME NEW s, NEW v, NEW y, Rendered(s, v) = ParameterOf(s, y), HasParameter(s, y)
  PROVE  \E p \in params : p.stack = s /\ p.ref = y /\ Lookup(s, v) = <<Parent[s], p.value>>
<1>1. PICK r : r = Rendered(s, v) OBVIOUS
<1> DEFINE passed == {p \in params : p.stack = s /\ r = ParameterOf(s, p.ref)}
<1>2. r.kind = "parameter" BY <1>1 DEF ParameterOf
<1>3. passed # {} BY <1>1 DEF HasParameter
<1>4. PICK p : p = CHOOSE q \in passed : TRUE OBVIOUS
<1>5. p \in passed BY <1>3, <1>4
<1>6. p.ref = y BY <1>1, <1>5 DEF ParameterOf
<1>7. Lookup(s, v) = <<Parent[s], p.value>> BY <1>1, <1>2, <1>3, <1>4 DEF Lookup
<1> QED BY <1>5, <1>6, <1>7

LEMMA LookupIsPair ==
  ASSUME NEW s, NEW v PROVE Lookup(s, v) = <<Lookup(s, v)[1], Lookup(s, v)[2]>>
<1>1. \E x, y : Lookup(s, v) = <<x, y>> BY DEF Lookup
<1> QED BY <1>1

\* What is taken is not replaced once more.
LEMMA TakenIsRendered ==
  ASSUME NEW s, NEW w, NEW r, Takes(s, w, r) PROVE Rendered(s, w) = w
<1>1. w.kind = "import" \/ w.in = s BY DEF Takes, ImportOf, ParameterOf
<1> QED BY <1>1 DEF Rendered

\* The value w in stack s leads to t in k places at most: an output leads down a
\* stack, an import to the stack that has it, and a parameter up a stack.
Leads(s, w, t, k) ==
  \E r :
    /\ StandsFor(r, t)
    /\ \/ w = r /\ r.in = s /\ Depth(t.in) <= Depth(r.in) + k
       \/ w = ImportOf(r.in, r) /\ [stack |-> r.in, ref |-> r] \in exports
          /\ Depth(t.in) + 1 <= Depth(r.in) + k
       \/ w = ParameterOf(s, r) /\ HasParameter(s, r) /\ Depth(s) + Depth(t.in) <= Depth(r.in) + k

\* A target is an attribute or the parameter for an asset, in one of the stacks.
IsTarget(t) == t.kind \in {"attribute", "asset"} /\ t.in \in Stacks

\* What a stack takes leads to the target.
LEMMA TakenLeads ==
  ASSUME NEW s \in Stacks, NEW w, NEW r, NEW t, IsTarget(t), StandsFor(r, t), Takes(s, w, r),
         NEW k \in Nat, Depth(s) + Depth(t.in) <= k + 1
  PROVE  Leads(s, w, t, k)
<1>1. r.in \in Path[t.in] /\ r.in \in Stacks BY StandsForWhat, OnOwnPath DEF IsTarget
<1>2. Depth(s) \in Nat /\ Depth(t.in) \in Nat /\ Depth(r.in) \in Nat /\ 1 <= Depth(s) /\ 1 <= Depth(r.in)
  BY <1>1, DepthOfStack DEF IsTarget
<1>3. CASE w = r /\ r.in = s
  <2>1. Depth(t.in) <= Depth(r.in) + k BY <1>2, <1>3
  <2> QED BY <1>3, <2>1 DEF Leads
<1>4. CASE w = ImportOf(r.in, r) /\ [stack |-> r.in, ref |-> r] \in exports
  <2>1. Depth(t.in) + 1 <= Depth(r.in) + k BY <1>2
  <2> QED BY <1>4, <2>1 DEF Leads
<1>5. CASE w = ParameterOf(s, r) /\ HasParameter(s, r)
  <2>1. Depth(s) + Depth(t.in) <= Depth(r.in) + k BY <1>2
  <2> QED BY <1>5, <2>1 DEF Leads
<1> QED BY <1>3, <1>4, <1>5 DEF Takes

\* Every place on the way is one nearer to the target.
LEMMA LookupLeads ==
  ASSUME MInv, NEW s, NEW w, NEW t, IsTarget(t), NEW k \in Nat, Leads(s, w, t, k + 1)
  PROVE  Leads(Lookup(s, w)[1], Lookup(s, w)[2], t, k)
<1>1. PICK r :
    /\ StandsFor(r, t)
    /\ \/ w = r /\ r.in = s /\ Depth(t.in) <= Depth(r.in) + (k + 1)
       \/ w = ImportOf(r.in, r) /\ [stack |-> r.in, ref |-> r] \in exports
          /\ Depth(t.in) + 1 <= Depth(r.in) + (k + 1)
       \/ w = ParameterOf(s, r) /\ HasParameter(s, r) /\ Depth(s) + Depth(t.in) <= Depth(r.in) + (k + 1)
  BY DEF Leads
<1>2. Rendered(s, w) = w BY <1>1, TakenIsRendered DEF Takes
<1>3. r.in \in Path[t.in] /\ r.in \in Stacks BY <1>1, StandsForWhat, OnOwnPath DEF IsTarget
<1>4. Depth(t.in) \in Nat /\ Depth(r.in) \in Nat BY <1>3, DepthOfStack DEF IsTarget
<1>5. ASSUME w = r, r.in = s, Depth(t.in) <= Depth(r.in) + (k + 1)
      PROVE  Leads(Lookup(s, w)[1], Lookup(s, w)[2], t, k)
  <2>1. CASE r = t
    <3>1. Lookup(s, w) = <<s, t>> BY <1>2, <1>5, <2>1, LookupAttribute DEF IsTarget
    <3>2. StandsFor(t, t) BY StandsForItself DEF IsTarget
    <3>3. Depth(t.in) <= Depth(t.in) + k BY <1>4
    <3>4. Leads(s, t, t, k) BY <1>5, <2>1, <3>2, <3>3 DEF Leads
    <3> QED BY <3>1, <3>4
  <2>2. CASE r # t
    <3>1. PICK y : StandsFor(y, t) /\ [stack |-> y.in, ref |-> y] \in outs /\ r = OutputOf(y.in, y)
      BY <1>1, <2>2, StandsForWhat
    <3>2. y.in \in Stacks BY <3>1, StandsForWhat, OnOwnPath DEF IsTarget
    <3>3. Parent[y.in] = s BY <1>5, <3>1 DEF OutputOf
    <3>4. y.in \in Nested
      BY <1>3, <1>5, <3>2, <3>3, StacksAssumption DEF Nested, Tops
    <3>5. Lookup(s, w) = <<y.in, y>> BY <1>2, <1>5, <3>1, <3>3, LookupOutput
    <3>6. Depth(y.in) = Depth(r.in) + 1 BY <1>5, <3>3, <3>4, DepthOfStack
    <3>7. Depth(t.in) <= Depth(y.in) + k BY <1>4, <1>5, <3>6
    <3>8. Leads(y.in, y, t, k) BY <3>1, <3>7 DEF Leads
    <3> QED BY <3>5, <3>8
  <2> QED BY <2>1, <2>2
<1>6. ASSUME w = ImportOf(r.in, r), [stack |-> r.in, ref |-> r] \in exports,
             Depth(t.in) + 1 <= Depth(r.in) + (k + 1)
      PROVE  Leads(Lookup(s, w)[1], Lookup(s, w)[2], t, k)
  <2>1. Lookup(s, w) = <<r.in, r>> BY <1>2, <1>6, LookupImport
  <2>2. Depth(t.in) <= Depth(r.in) + k BY <1>4, <1>6
  <2>3. Leads(r.in, r, t, k) BY <1>1, <2>2 DEF Leads
  <2> QED BY <2>1, <2>3
<1>7. ASSUME w = ParameterOf(s, r), HasParameter(s, r), Depth(s) + Depth(t.in) <= Depth(r.in) + (k + 1)
      PROVE  Leads(Lookup(s, w)[1], Lookup(s, w)[2], t, k)
  <2>1. PICK p \in params : p.stack = s /\ p.ref = r /\ Lookup(s, w) = <<Parent[s], p.value>>
    BY <1>2, <1>7, LookupParameter
  <2>2. s \in Nested /\ s \in Stacks /\ Parent[s] \in Stacks
    BY <2>1, PathOfNested DEF MInv, PInv, IInv, AssemblyInv, TypeOK, Nested
  <2>3. Takes(Parent[s], p.value, r) BY <2>1 DEF MInv, MeaningInv, PassedInv
  <2>4. Depth(s) = Depth(Parent[s]) + 1 /\ Depth(Parent[s]) \in Nat /\ 1 <= Depth(Parent[s])
    BY <2>2, DepthOfStack
  <2>5. CASE p.value = r /\ r.in = Parent[s]
    <3>1. Depth(t.in) <= Depth(r.in) + k BY <1>4, <1>7, <2>4
    <3>2. Leads(Parent[s], p.value, t, k) BY <1>1, <2>5, <3>1 DEF Leads
    <3> QED BY <2>1, <3>2
  <2>6. CASE p.value = ImportOf(r.in, r) /\ [stack |-> r.in, ref |-> r] \in exports
    <3>1. Depth(t.in) + 1 <= Depth(r.in) + k BY <1>4, <1>7, <2>4
    <3>2. Leads(Parent[s], p.value, t, k) BY <1>1, <2>6, <3>1 DEF Leads
    <3> QED BY <2>1, <3>2
  <2>7. CASE p.value = ParameterOf(Parent[s], r) /\ HasParameter(Parent[s], r)
    <3>1. Depth(Parent[s]) + Depth(t.in) <= Depth(r.in) + k BY <1>4, <1>7, <2>4
    <3>2. Leads(Parent[s], p.value, t, k) BY <1>1, <2>7, <3>1 DEF Leads
    <3> QED BY <2>1, <3>2
  <2> QED BY <2>3, <2>5, <2>6, <2>7 DEF Takes
<1> QED BY <1>1, <1>5, <1>6, <1>7

\* What leads there in no further place is the target.
LEMMA LeadsNoFurther ==
  ASSUME NEW s, NEW w, NEW t, IsTarget(t), Leads(s, w, t, 0), TypeOK
  PROVE  s = t.in /\ w = t
<1>1. PICK r :
    /\ StandsFor(r, t)
    /\ \/ w = r /\ r.in = s /\ Depth(t.in) <= Depth(r.in) + 0
       \/ w = ImportOf(r.in, r) /\ Depth(t.in) + 1 <= Depth(r.in) + 0
       \/ w = ParameterOf(s, r) /\ s \in Stacks /\ Depth(s) + Depth(t.in) <= Depth(r.in) + 0
  BY DEF Leads, HasParameter, TypeOK, Nested
<1>2. r.in \in Path[t.in] /\ r.in \in Stacks BY <1>1, StandsForWhat, OnOwnPath DEF IsTarget
<1>3. /\ Depth(t.in) \in Nat /\ Depth(r.in) \in Nat /\ Depth(r.in) <= Depth(t.in)
      /\ s \in Stacks => Depth(s) \in Nat /\ 1 <= Depth(s)
  BY <1>2, DepthOfStack DEF IsTarget
<1>4. w = r /\ r.in = s /\ Depth(t.in) <= Depth(r.in) BY <1>1, <1>3
<1>5. r = t
  <2> SUFFICES ASSUME r # t PROVE FALSE
    OBVIOUS
  <2>1. PICK y : StandsFor(y, t) /\ [stack |-> y.in, ref |-> y] \in outs /\ r = OutputOf(y.in, y)
    BY <1>1, StandsForWhat
  <2>2. y.in \in Path[t.in] /\ y.in \in Stacks BY <2>1, StandsForWhat, OnOwnPath DEF IsTarget
  <2>3. Parent[y.in] = r.in BY <2>1 DEF OutputOf
  <2>4. y.in \in Nested BY <1>2, <2>2, <2>3, StacksAssumption DEF Nested, Tops
  <2>5. Depth(y.in) = Depth(r.in) + 1 /\ Depth(y.in) <= Depth(t.in)
    BY <2>2, <2>3, <2>4, DepthOfStack DEF IsTarget
  <2> QED BY <1>3, <1>4, <2>5
<1> QED BY <1>4, <1>5

\* The first look, at a reference in use, is the one at its value.
LEMMA FirstLookup ==
  ASSUME MInv, NEW u \in uses, HasValueForStack(u.value, u.source)
  PROVE  /\ IsTarget(u.value) /\ Twice - 1 \in Nat
         /\ Leads(Lookup(u.source, u.value)[1], Lookup(u.source, u.value)[2], u.value, Twice - 1)
<1> DEFINE s == u.source
           t == u.value
<1>1. IsTarget(t) /\ s \in Stacks
  BY DEF MInv, MeaningInv, UsesInv, PInv, PreparationInv, WiresInv, HasOrigin, IInv, AssemblyInv, TypeOK, IsTarget
<1>2. /\ Depth(s) \in Nat /\ Depth(t.in) \in Nat /\ Twice \in Nat /\ 1 <= Depth(s)
      /\ 2 * Depth(s) <= Twice /\ 2 * Depth(t.in) <= Twice
  BY <1>1, DepthOfStack, TwiceIsNatural DEF IsTarget
<1>3. Twice - 1 \in Nat /\ Depth(s) + Depth(t.in) <= Twice + 1 BY <1>2
<1> HIDE DEF s, t
<1>4. CASE t.in = s
  <2>1. Rendered(s, t) = t BY <1>4 DEF Rendered
  <2>2. Lookup(s, t) = <<s, t>> BY <1>1, <2>1, LookupAttribute DEF IsTarget
  <2>3. StandsFor(t, t) BY <1>1, StandsForItself DEF IsTarget
  <2>4. Depth(t.in) <= Depth(t.in) + (Twice - 1) BY <1>2, <1>3
  <2>5. Leads(s, t, t, Twice - 1) BY <1>4, <2>3, <2>4 DEF Leads
  <2> QED BY <1>1, <1>3, <2>2, <2>5 DEF s, t
<1>5. CASE t.in # s
  <2>1. \E a \in assigned : a.ref = t /\ a.stack = s BY <1>5 DEF HasValueForStack, s, t
  <2>2. PICK a : a = CHOOSE b \in assigned : b.ref = t /\ b.stack = s OBVIOUS
  <2>3. a \in assigned /\ a.ref = t /\ a.stack = s BY <2>1, <2>2
  <2>4. t.kind # "import" BY <1>1 DEF IsTarget
  <2>5. Rendered(s, t) = a.value BY <1>5, <2>1, <2>2, <2>4 DEF Rendered
  <2>6. PICK r : StandsFor(r, t) /\ Takes(s, a.value, r)
    BY <2>3 DEF MInv, MeaningInv, AssignedInv
  <2>7. Rendered(s, a.value) = a.value BY <2>6, TakenIsRendered
  <2>8. Lookup(s, t) = Lookup(s, a.value) BY <2>5, <2>7 DEF Lookup
  <2>9. Leads(s, a.value, t, Twice) BY <1>1, <1>2, <1>3, <2>6, TakenLeads
  <2>10. Leads(Lookup(s, a.value)[1], Lookup(s, a.value)[2], t, Twice - 1)
    <3>1. (Twice - 1) + 1 = Twice BY <1>2
    <3>2. Leads(s, a.value, t, (Twice - 1) + 1) BY <2>9, <3>1
    <3> QED BY <1>1, <1>3, <3>2, LookupLeads
  <2> QED BY <1>1, <1>3, <2>8, <2>10 DEF s, t
<1> QED BY <1>4, <1>5

\* The trail of a reference in use ends at its target.
LEMMA TrailEnds ==
  ASSUME MInv, NEW u \in uses, HasValueForStack(u.value, u.source)
  PROVE  Meaning(u.source, u.value) = <<u.value.in, u.value>>
<1>1. PICK s, t, K, f : s = u.source /\ t = u.value /\ K = Twice /\ f = Trail(s, t)
  OBVIOUS
<1>2. /\ IsTarget(t) /\ K - 1 \in Nat
      /\ Leads(Lookup(s, t)[1], Lookup(s, t)[2], t, K - 1)
  BY <1>1, FirstLookup
<1>3. K \in Nat /\ K # 0 BY <1>1, <1>2, TwiceIsNatural
<1>4. IsTrail(f, K, s, t) BY <1>1, TrailIsTrail
<1>5. \A n \in 0 .. K : f[n] = IF n = 0 THEN <<s, t>> ELSE Lookup(f[n - 1][1], f[n - 1][2])
  BY <1>4 DEF IsTrail
<1> DEFINE Missed == {n \in 1 .. K : ~Leads(f[n][1], f[n][2], t, K - n)}
<1>6. Missed = {}
  <2> SUFFICES ASSUME Missed # {} PROVE FALSE
    OBVIOUS
  <2>1. PICK m \in Missed : \A n \in Missed : m <= n
    <3>1. Missed \in SUBSET Nat BY <1>3
    <3> HIDE DEF Missed
    <3> QED BY <3>1, LeastNumber
  <2>2. m \in 1 .. K /\ m \in 0 .. K /\ m # 0 /\ m - 1 \in 0 .. K /\ K - m \in Nat BY <1>3, <2>1
  <2>3. f[m] = Lookup(f[m - 1][1], f[m - 1][2]) BY <1>5, <2>2
  <2>4. CASE m = 1
    <3>1. f[0] = <<s, t>> BY <1>3, <1>5
    <3>2. f[1] = Lookup(s, t) BY <2>3, <2>4, <3>1
    <3> QED BY <1>2, <2>1, <2>4, <3>2
  <2>5. CASE m # 1
    <3>1. m - 1 \in 1 .. K /\ ~(m <= m - 1) BY <2>2, <2>5
    <3>2. Leads(f[m - 1][1], f[m - 1][2], t, K - (m - 1)) BY <2>1, <3>1
    <3>3. K - (m - 1) = (K - m) + 1 BY <1>3, <2>2
    <3>4. Leads(f[m - 1][1], f[m - 1][2], t, (K - m) + 1) BY <3>2, <3>3
    <3>5. Leads(f[m][1], f[m][2], t, K - m) BY <1>2, <2>2, <2>3, <3>4, LookupLeads
    <3> QED BY <2>1, <3>5
  <2> QED BY <2>4, <2>5
<1>7. Leads(f[K][1], f[K][2], t, 0)
  <2>1. K \in 1 .. K /\ K - K = 0 BY <1>3
  <2>2. Leads(f[K][1], f[K][2], t, K - K) BY <1>6, <2>1
  <2> QED BY <2>1, <2>2
<1>8. f[K][1] = t.in /\ f[K][2] = t
  BY <1>2, <1>7, LeadsNoFurther DEF MInv, PInv, IInv, AssemblyInv
<1>9. f[K] = <<f[K][1], f[K][2]>>
  <2>1. K \in 0 .. K BY <1>3
  <2>2. f[K] = Lookup(f[K - 1][1], f[K - 1][2]) BY <1>3, <1>5, <2>1
  <2> QED BY <2>2, LookupIsPair
<1>10. Meaning(s, t) = f[K] BY <1>1 DEF Meaning, Twice
<1> QED BY <1>1, <1>8, <1>9, <1>10

-----------------------------------------------------------------------------
(* What the hashes stand for                                               *)

CInv == MInv /\ CoverInv

LEMMA OfAssetStays == ASSUME NEW e, OfAsset(e), UNCHANGED app PROVE OfAsset(e)'
BY DEF OfAsset, AssetParameter, TopOf, Nested, Tops

LEMMA WithinStays == ASSUME NEW n, NEW r, AssetWithin(n, r), UNCHANGED app PROVE AssetWithin(n, r)'
BY DEF AssetWithin, AssetParameter, TopOf, Nested, Tops

\* An asset is nested within every stack on the path of the template above it.
LEMMA AssetIsWithin == ASSUME NEW e, OfAsset(e), NEW n \in Path[e.source] PROVE AssetWithin(n, e.value)
BY DEF OfAsset, AssetWithin

LEMMA HasStays ==
  ASSUME NEW v, NEW s, HasValueForStack(v, s), assigned \subseteq assigned'
  PROVE  HasValueForStack(v, s)'
BY DEF HasValueForStack

\* A template is covered as long as only assets within come to it.
LEMMA CoverGrows ==
  ASSUME NEW n \in DOMAIN hashed, Covered(n), UNCHANGED <<app, uses, outs, hashed>>,
         assigned \subseteq assigned', params \subseteq params',
         \A a \in assigned' \ assigned : a.stack = n => AssetWithin(n, a.ref),
         \A p \in params' \ params : p.stack = n \/ Parent[p.stack] = n => AssetWithin(n, p.ref)
  PROVE  Covered(n)'
<1>1. PICK is, now, was : is = Content(n) /\ now = Content(n)' /\ was = hashed[n] OBVIOUS
<1>2. /\ is.uses = was.uses /\ is.outs = was.outs /\ is.children = was.children
      /\ was.values \subseteq is.values /\ was.params \subseteq is.params
      /\ was.passed \subseteq is.passed
      /\ \A r \in Additions(is, was) : AssetWithin(n, r)
  BY <1>1 DEF Covered
<1>3. /\ is.values = {a \in assigned : a.stack = n}
      /\ is.params = {p.ref : p \in {q \in params : q.stack = n}}
      /\ is.passed = {p \in params : Parent[p.stack] = n}
      /\ now.values = {a \in assigned' : a.stack = n}
      /\ now.params = {p.ref : p \in {q \in params' : q.stack = n}}
      /\ now.passed = {p \in params' : Parent[p.stack] = n}
  BY <1>1 DEF Content
<1>4. now.uses = is.uses /\ now.outs = is.outs /\ now.children = is.children
  BY <1>1 DEF Content, Children, Nested, Tops
<1>5. is.values \subseteq now.values /\ is.params \subseteq now.params /\ is.passed \subseteq now.passed
  BY <1>3
<1>6. ASSUME NEW r \in Additions(now, was) PROVE AssetWithin(n, r)
  <2>1. CASE \E a \in now.values \ was.values : r = a.ref
    <3>1. PICK a \in now.values \ was.values : r = a.ref BY <2>1
    <3>2. CASE a \in is.values BY <1>2, <3>1, <3>2 DEF Additions
    <3>3. CASE a \notin is.values BY <1>3, <3>1, <3>3
    <3> QED BY <3>2, <3>3
  <2>2. CASE r \in now.params \ was.params
    <3>1. CASE r \in is.params BY <1>2, <2>2, <3>1 DEF Additions
    <3>2. CASE r \notin is.params BY <1>3, <2>2, <3>2
    <3> QED BY <3>1, <3>2
  <2>3. CASE \E p \in now.passed \ was.passed : r = p.ref
    <3>1. PICK p \in now.passed \ was.passed : r = p.ref BY <2>3
    <3>2. CASE p \in is.passed BY <1>2, <3>1, <3>2 DEF Additions
    <3>3. CASE p \notin is.passed BY <1>3, <3>1, <3>3
    <3> QED BY <3>2, <3>3
  <2> QED BY <1>6, <2>1, <2>2, <2>3 DEF Additions
<1>7. \A r \in Additions(now, was) : AssetWithin(n, r)' BY <1>6, WithinStays
<1> QED BY <1>1, <1>2, <1>4, <1>5, <1>7 DEF Covered, Additions

LEMMA CoversStay ==
  ASSUME CoverInv, UNCHANGED <<app, uses, outs, hashed, params, assigned>>
  PROVE  \A n \in DOMAIN hashed' : Covered(n)'
BY CoverGrows DEF CoverInv

\* Before the templates are hashed, and after a refusal, there is nothing to show.
LEMMA EarlyCovers ==
  ASSUME CInv, UNCHANGED hashed, phase \in {"declare", "resolve"},
         phase' \notin {"assets", "resolveAgain"}
  PROVE  CoverInv'
BY DEF CInv, MInv, PInv, PreparationInv, HashInv, CoverInv

LEMMA RefusalCovers == ASSUME CInv, Throw PROVE CoverInv'
<1>1. UNCHANGED <<app, uses, outs, hashed, params, assigned>> /\ phase' = "failed"
  BY DEF Throw, wiring
<1>2. \A n \in DOMAIN hashed' : Covered(n)' BY <1>1, CoversStay DEF CInv
<1> QED BY <1>1, <1>2 DEF CoverInv

LEMMA DeclareCovers == ASSUME CInv, DeclareStep \/ FindReferences PROVE CoverInv'
<1>1. ASSUME NEW d \in asks, AddDependency(d[1], d[2]) PROVE CoverInv'
  BY <1>1, EarlyCovers DEF AddDependency
<1>2. ASSUME NEW d \in asks, DependencyRefused(d[1], d[2]) PROVE CoverInv'
  BY <1>2, RefusalCovers DEF DependencyRefused
<1>3. ASSUME FindReferences PROVE CoverInv'
  BY <1>3, EarlyCovers DEF FindReferences
<1> QED BY <1>1, <1>2, <1>3 DEF DeclareStep

\* After the first round every reference has its value.
LEMMA RoundOverCovers == ASSUME CInv, DefineAssets \/ Prepared PROVE CoverInv'
<1>1. /\ UNCHANGED <<app, uses, outs, hashed, params, assigned>>
      /\ edges = {} /\ call = Idle /\ phase \in {"resolve", "resolveAgain"}
      /\ phase' \in {"assets", "done"}
  BY DEF DefineAssets, Prepared, Resolved, wiring
<1>2. \A n \in DOMAIN hashed' : Covered(n)' BY <1>1, CoversStay DEF CInv
<1>3. \A u \in uses : HasValueForStack(u.value, u.source)
  BY <1>1 DEF CInv, MInv, MeaningInv, UsesInv
<1>4. \A u \in uses' : HasValueForStack(u.value, u.source)' BY <1>1, <1>3, HasStays
<1> QED BY <1>1, <1>2, <1>4 DEF CoverInv

LEMMA ResolveAgainCovers == ASSUME CInv, ResolveAgain PROVE CoverInv'
<1>1. /\ UNCHANGED <<app, uses, outs, hashed, params, assigned, call>>
      /\ phase = "assets" /\ phase' = "resolveAgain" /\ edges' = References
  BY DEF ResolveAgain, wiring
<1>2. call = Idle BY <1>1 DEF CInv, MInv, PInv, PreparationInv, ProgressInv
<1>3. ASSUME NEW e \in References PROVE HasValueForStack(e.value, e.source) \/ OfAsset(e)
  <2>1. e \in uses \/ e.value.in = e.source
    BY DEF References, CInv, MInv, PInv, PreparationInv, WiresInv
  <2> QED BY <1>1, <2>1 DEF CInv, CoverInv, HasValueForStack
<1>4. \A e \in edges' : HasValueForStack(e.value, e.source)' \/ OfAsset(e)'
  BY <1>1, <1>3, HasStays, OfAssetStays
<1>5. PassesAssetsDown' BY <1>1, <1>2, <1>4 DEF PassesAssetsDown
<1>6. \A n \in DOMAIN hashed' : Covered(n)' BY <1>1, CoversStay DEF CInv
<1> QED BY <1>1, <1>5, <1>6 DEF CoverInv

\* The template of a nested stack is what it was before the one above it gets
\* the reference to its asset.
LEMMA AssetCovers == ASSUME CInv, NEW n \in Nested, PrepareTemplateAsset(n) PROVE CoverInv'
<1> DEFINE e == [source |-> Parent[n], value |-> AssetParameter(n)]
<1>1. /\ UNCHANGED <<app, phase, params, outs, assigned>>
      /\ phase = "assets" /\ n \notin DOMAIN hashed /\ Children(n) \subseteq DOMAIN hashed
      /\ hashed' = [m \in DOMAIN hashed \cup {n} |-> IF m = n THEN Content(n) ELSE hashed[m]]
      /\ \A u \in uses' : u \in uses \/ (u = e /\ app.legacy)
      /\ uses \subseteq uses'
  BY DEF PrepareTemplateAsset, IsNextAsset, wiring
<1>2. n \in Stacks /\ Parent[n] # n BY ParentIsAnother DEF Nested
<1>3. e.source = Parent[n] OBVIOUS
<1>4. ASSUME app.legacy PROVE OfAsset(e) BY <1>4 DEF OfAsset
<1> HIDE DEF e
<1>5. \A u \in uses' : HasValueForStack(u.value, u.source)' \/ OfAsset(u)'
  <2>1. \A u \in uses' : HasValueForStack(u.value, u.source) \/ OfAsset(u)
    BY <1>1, <1>4 DEF CInv, CoverInv
  <2> QED BY <1>1, <2>1, HasStays, OfAssetStays
<1>6. DOMAIN hashed' = DOMAIN hashed \cup {n} BY <1>1
<1>7. ASSUME NEW m \in DOMAIN hashed' PROVE m # Parent[n] /\ n \notin Children(m)
  <2>1. Children(m) \subseteq DOMAIN hashed
    BY <1>1, <1>6 DEF CInv, MInv, PInv, PreparationInv, HashInv
  <2> QED BY <1>1, <2>1 DEF Children
<1>8. ASSUME NEW m \in DOMAIN hashed' PROVE Content(m)' = Content(m)
  <2>1. {u \in uses' : u.source = m} = {u \in uses : u.source = m} BY <1>1, <1>3, <1>7, <1>8
  <2>2. DOMAIN hashed' \cap Children(m) = DOMAIN hashed \cap Children(m) BY <1>6, <1>7, <1>8
  <2>3. Children(m)' = Children(m) BY DEF Children, Nested, Tops
  <2> QED BY <1>1, <2>1, <2>2, <2>3 DEF Content
<1>9. ASSUME NEW m \in DOMAIN hashed' PROVE Covered(m)'
  <2>1. PICK is, was : is = Content(m) /\ was = hashed'[m] OBVIOUS
  <2>2. /\ is.uses = was.uses /\ is.outs = was.outs /\ is.children = was.children
        /\ was.values \subseteq is.values /\ was.params \subseteq is.params
        /\ was.passed \subseteq is.passed
        /\ \A r \in Additions(is, was) : AssetWithin(m, r)
    <3>1. CASE m = n
      <4>1. was = is BY <1>1, <1>6, <2>1, <3>1
      <4> QED BY <4>1 DEF Additions
    <3>2. CASE m # n
      <4>1. m \in DOMAIN hashed /\ was = hashed[m] BY <1>1, <1>6, <1>9, <2>1, <3>2
      <4> QED BY <2>1, <4>1 DEF CInv, CoverInv, Covered
    <3> QED BY <3>1, <3>2
  <2>3. \A r \in Additions(is, was) : AssetWithin(m, r)' BY <1>1, <2>2, WithinStays
  <2>4. is = Content(m)' BY <1>8, <1>9, <2>1
  <2> QED BY <2>1, <2>2, <2>3, <2>4 DEF Covered, Additions
<1> QED BY <1>1, <1>5, <1>9 DEF CoverInv

\* The second round takes up references to assets, and follows the path of the
\* template they are in.
LEMMA NextCovers ==
  ASSUME CInv, phase = "resolveAgain", NEW e \in edges, NextReference(e) PROVE CoverInv'
<1>1. /\ UNCHANGED <<app, phase, uses, outs, hashed, params, assigned>>
      /\ call = Idle /\ edges' = edges \ {e}
      /\ call' = IF HasValueForStack(e.value, e.source) THEN Idle
                 ELSE Activation(e, e.source, e.value, <<>>, NoToken)
  BY DEF NextReference, wiring
<1>2. \A u \in edges' : HasValueForStack(u.value, u.source)' \/ OfAsset(u)'
  BY <1>1, HasStays, OfAssetStays DEF CInv, CoverInv, PassesAssetsDown
<1>3. ASSUME call' # Idle
      PROVE  /\ call'.use = e /\ OfAsset(e)' /\ call'.ref = call'.use.value
             /\ call'.consumer \in Path[call'.use.source]
             /\ \A i \in 1..Len(call'.waiting) : call'.waiting[i] \in Path[call'.use.source]
  <2>1. ~HasValueForStack(e.value, e.source) BY <1>1, <1>3
  <2>2. call'.use = e /\ call'.consumer = e.source /\ call'.ref = e.value /\ call'.waiting = <<>>
    BY <1>1, <2>1 DEF Activation
  <2>3. OfAsset(e) BY <2>1 DEF CInv, CoverInv, PassesAssetsDown
  <2>4. OfAsset(e)' BY <1>1, <2>3, OfAssetStays
  <2>5. e.source \in Path[e.source]
    BY OnOwnPath DEF CInv, MInv, PInv, IInv, AssemblyInv, TypeOK
  <2> QED BY <2>2, <2>4, <2>5
<1>4. PassesAssetsDown' BY <1>2, <1>3 DEF PassesAssetsDown
<1>5. \A n \in DOMAIN hashed' : Covered(n)' BY <1>1, CoversStay DEF CInv
<1> QED BY <1>1, <1>4, <1>5 DEF CoverInv

\* What an activation of the second round is for.
LEMMA PassingKnown ==
  ASSUME CInv, phase = "resolveAgain", call # Idle
  PROVE  /\ OfAsset(call.use) /\ call.ref = call.use.value
         /\ call.consumer \in Path[call.use.source]
         /\ \A i \in 1..Len(call.waiting) : call.waiting[i] \in Path[call.use.source]
         /\ call.waiting \in Seq(Nested) /\ call.use.source \in Stacks
         /\ \A e \in edges : HasValueForStack(e.value, e.source) \/ OfAsset(e)
<1>1. call.waiting \in Seq(Nested) /\ call.use.source \in Stacks
  BY ActivationKnown DEF CInv
<1> QED BY <1>1 DEF CInv, CoverInv, PassesAssetsDown

\* A step that goes on with the activation passes down assets as before.
LEMMA PassingStays ==
  ASSUME CInv, phase = "resolveAgain", call # Idle, UNCHANGED <<app, edges>>,
         assigned \subseteq assigned', call'.use = call.use, call'.ref = call.ref,
         call'.consumer \in Path[call.use.source],
         \A i \in 1..Len(call'.waiting) : call'.waiting[i] \in Path[call.use.source]
  PROVE  PassesAssetsDown'
<1>1. \A e \in edges' : HasValueForStack(e.value, e.source)' \/ OfAsset(e)'
  BY PassingKnown, HasStays, OfAssetStays
<1>2. PICK use : use = call.use /\ OfAsset(use) /\ call.ref = use.value BY PassingKnown
<1>3. OfAsset(use)' BY <1>2, OfAssetStays
<1> QED BY <1>1, <1>2, <1>3 DEF PassesAssetsDown

LEMMA InSameStackCovers == ASSUME CInv, phase = "resolveAgain", InSameStack PROVE CoverInv'
<1>1. /\ UNCHANGED <<app, phase, uses, outs, hashed, params, assigned, edges>>
      /\ call # Idle
      /\ call' = Activation(call.use, call.consumer, call.ref, call.waiting, call.ref)
  BY DEF InSameStack, Return, Resolving, wiring
<1>2. /\ call'.use = call.use /\ call'.ref = call.ref /\ call'.consumer = call.consumer
      /\ call'.waiting = call.waiting
  BY <1>1 DEF Activation
<1>3. PassesAssetsDown' BY <1>1, <1>2, PassingKnown, PassingStays
<1>4. \A n \in DOMAIN hashed' : Covered(n)' BY <1>1, CoversStay DEF CInv
<1> QED BY <1>1, <1>3, <1>4 DEF CoverInv

LEMMA ResolveInParentCovers == ASSUME CInv, phase = "resolveAgain", ResolveInParent PROVE CoverInv'
<1>1. /\ UNCHANGED <<app, phase, uses, outs, hashed, params, assigned, edges>>
      /\ call # Idle /\ IsNested(call.consumer, Producer)
      /\ call' = Activation(call.use, Parent[call.consumer], call.ref,
                            <<call.consumer>> \o call.waiting, NoToken)
  BY DEF ResolveInParent, InReach, Resolving, wiring
<1>2. /\ call'.use = call.use /\ call'.ref = call.ref /\ call'.consumer = Parent[call.consumer]
      /\ call'.waiting = <<call.consumer>> \o call.waiting
  BY <1>1 DEF Activation
<1>3. PICK w, c, P : w = call.waiting /\ c = call.consumer /\ P = Path[call.use.source] OBVIOUS
<1>4. c \in P /\ w \in Seq(Nested) /\ \A i \in 1..Len(w) : w[i] \in P
  BY <1>1, <1>3, PassingKnown
<1>5. c \in Nested
  <2>1. Producer \in Path[c] \ {c} BY <1>1, <1>3 DEF IsNested
  <2>2. c \in Stacks
    BY <1>1, <1>3 DEF CInv, MInv, PInv, IInv, AssemblyInv, TypeOK, CallOK
  <2> QED BY <2>1, <2>2, PathOfTop DEF Nested
<1>6. Parent[c] \in P
  BY <1>1, <1>3, <1>4, <1>5, PassingKnown, PathClosed, PathOfNested, StacksAssumption
<1>7. \A i \in 1..Len(<<c>> \o w) : (<<c>> \o w)[i] \in P
  BY <1>4, <1>5
<1>8. PassesAssetsDown' BY <1>1, <1>2, <1>3, <1>6, <1>7, PassingStays
<1>9. \A n \in DOMAIN hashed' : Covered(n)' BY <1>1, CoversStay DEF CInv
<1> QED BY <1>1, <1>8, <1>9 DEF CoverInv

\* A parameter that is passed down is one of the stack that gets it and of the
\* one above: both have the asset within.
LEMMA PassParameterCovers == ASSUME CInv, phase = "resolveAgain", PassParameter PROVE CoverInv'
<1>1. PICK use, w : use = call.use /\ w = call.waiting OBVIOUS
<1>2. /\ UNCHANGED <<app, phase, uses, outs, hashed, assigned, edges>>
      /\ call # Idle /\ w # <<>> /\ params \subseteq params'
      /\ \A q \in params' : q \in params \/
           q = [stack |-> Head(w), ref |-> call.ref, value |-> call.value]
      /\ call' = Activation(use, call.consumer, call.ref, Tail(w), ParameterOf(Head(w), call.ref))
  BY <1>1 DEF PassParameter, Returning
<1>3. /\ OfAsset(use) /\ call.ref = use.value /\ use.source \in Stacks
      /\ call.consumer \in Path[use.source]
      /\ w \in Seq(Nested) /\ \A i \in 1..Len(w) : w[i] \in Path[use.source]
  BY <1>1, <1>2, PassingKnown
<1>4. /\ call'.use = use /\ call'.ref = call.ref /\ call'.consumer = call.consumer
      /\ call'.waiting = Tail(w)
  BY <1>2 DEF Activation
<1>5. PICK n \in Nested : n = Head(w) /\ n \in Path[use.source] BY <1>2, <1>3
<1>6. \A i \in 1..Len(Tail(w)) : Tail(w)[i] \in Path[use.source]
  <2>1. \A i \in 1..Len(Tail(w)) : i + 1 \in 1..Len(w) /\ Tail(w)[i] = w[i + 1] BY <1>2, <1>3
  <2> QED BY <1>3, <2>1
<1>7. PassesAssetsDown' BY <1>1, <1>2, <1>3, <1>4, <1>6, PassingStays
<1>8. Parent[n] \in Path[use.source]
  BY <1>3, <1>5, PathClosed, PathOfNested, StacksAssumption
<1>9. ASSUME NEW m \in DOMAIN hashed PROVE Covered(m)'
  <2>1. ASSUME NEW p \in params' \ params, p.stack = m \/ Parent[p.stack] = m
        PROVE  AssetWithin(m, p.ref)
    <3>1. p.stack = n /\ p.ref = use.value BY <1>2, <1>3, <1>5, <2>1
    <3>2. m \in Path[use.source] BY <1>5, <1>8, <2>1, <3>1
    <3> QED BY <1>3, <3>1, <3>2, AssetIsWithin
  <2>2. Covered(m) BY DEF CInv, CoverInv
  <2> QED BY <1>2, <2>1, <2>2, CoverGrows
<1> QED BY <1>2, <1>7, <1>9 DEF CoverInv

LEMMA AssignCovers == ASSUME CInv, phase = "resolveAgain", AssignValue PROVE CoverInv'
<1>1. PICK use : use = call.use OBVIOUS
<1>2. /\ UNCHANGED <<app, phase, uses, outs, hashed, params, edges>>
      /\ call # Idle /\ call' = Idle /\ assigned \subseteq assigned'
      /\ \A a \in assigned' : a \in assigned \/
           a = [ref |-> use.value, stack |-> use.source, value |-> call.value]
  BY <1>1 DEF AssignValue, Returning, wiring
<1>3. OfAsset(use) /\ use.source \in Path[use.source]
  BY <1>1, <1>2, PassingKnown, OnOwnPath
<1>4. \A e \in edges' : HasValueForStack(e.value, e.source)' \/ OfAsset(e)'
  BY <1>2, PassingKnown, HasStays, OfAssetStays
<1>5. PassesAssetsDown' BY <1>2, <1>4 DEF PassesAssetsDown
<1>6. ASSUME NEW m \in DOMAIN hashed PROVE Covered(m)'
  <2>1. ASSUME NEW a \in assigned' \ assigned, a.stack = m PROVE AssetWithin(m, a.ref)
    <3>1. a.stack = use.source /\ a.ref = use.value BY <1>2, <2>1
    <3> QED BY <1>3, <2>1, <3>1, AssetIsWithin
  <2>2. Covered(m) BY DEF CInv, CoverInv
  <2> QED BY <1>2, <2>1, <2>2, CoverGrows
<1> QED BY <1>2, <1>5, <1>6 DEF CoverInv

LEMMA ResolveCovers == ASSUME CInv, ResolveStep PROVE CoverInv'
<1>1. ASSUME OtherEnvironment \/ ImportRefused PROVE CoverInv'
  BY <1>1, RefusalCovers DEF OtherEnvironment, ImportRefused
<1>2. ASSUME ResolveOutput \/ ResolveImport PROVE phase = "resolve"
  <2>1. PInv BY DEF CInv, MInv
  <2> QED BY <1>2, <2>1, FirstRound DEF ResolveOutput, ResolveImport, NeedsImport, InReach
<1>3. ASSUME ~(OtherEnvironment \/ ImportRefused)
      PROVE  phase \in {"resolve", "resolveAgain"} /\ UNCHANGED <<phase, hashed>>
  <2>1. call # Idle => phase \in {"resolve", "resolveAgain"} BY ActivationKnown DEF CInv
  <2>2. ASSUME NEW e \in edges, NextReference(e)
        PROVE  phase \in {"resolve", "resolveAgain"} /\ UNCHANGED <<phase, hashed>>
    BY <2>2 DEF NextReference
  <2>3. ASSUME InSameStack \/ ResolveInParent \/ ResolveOutput \/ ResolveImport
        PROVE  call # Idle /\ UNCHANGED <<phase, hashed>>
    BY <2>3 DEF InSameStack, ResolveInParent, ResolveOutput, ResolveImport, NeedsImport,
                InReach, Resolving
  <2>4. ASSUME PassParameter \/ AssignValue PROVE call # Idle /\ UNCHANGED <<phase, hashed>>
    BY <2>4 DEF PassParameter, AssignValue, Returning
  <2> QED BY <1>3, <2>1, <2>2, <2>3, <2>4 DEF ResolveStep
<1>4. ASSUME phase = "resolve", UNCHANGED <<phase, hashed>> PROVE CoverInv'
  BY <1>4, EarlyCovers
<1>5. ASSUME phase = "resolveAgain", ~(OtherEnvironment \/ ImportRefused) PROVE CoverInv'
  BY <1>2, <1>5, NextCovers, InSameStackCovers, ResolveInParentCovers, PassParameterCovers,
     AssignCovers DEF ResolveStep
<1> QED BY <1>1, <1>3, <1>4, <1>5

LEMMA CInvKept == CInv /\ [Next]_vars => CInv'
<1> SUFFICES ASSUME CInv, [Next]_vars PROVE CoverInv'
  BY MInvKept DEF CInv
<1>1. CASE DeclareStep \/ FindReferences BY <1>1, DeclareCovers
<1>2. CASE ResolveStep BY <1>2, ResolveCovers
<1>3. CASE AssetStep \/ Prepared
  BY <1>3, RoundOverCovers, ResolveAgainCovers, AssetCovers DEF AssetStep
<1>4. CASE UNCHANGED vars
  <2>1. UNCHANGED <<app, phase, uses, edges, call, params, outs, assigned, hashed>>
    BY <1>4 DEF vars, wiring
  <2>2. \A n \in DOMAIN hashed' : Covered(n)' BY <2>1, CoversStay DEF CInv
  <2>3. \A u : HasValueForStack(u.value, u.source) \/ OfAsset(u) =>
               HasValueForStack(u.value, u.source)' \/ OfAsset(u)'
    BY <2>1, HasStays, OfAssetStays
  <2>4. ASSUME phase = "resolveAgain" PROVE PassesAssetsDown'
    <3>1. \A e \in edges' : HasValueForStack(e.value, e.source)' \/ OfAsset(e)'
      BY <2>1, <2>3, <2>4 DEF CInv, CoverInv, PassesAssetsDown
    <3>2. CASE call # Idle
      BY <2>1, <2>4, <3>2, PassingKnown, PassingStays
    <3>3. CASE call = Idle BY <2>1, <3>1, <3>3 DEF PassesAssetsDown
    <3> QED BY <3>2, <3>3
  <2> QED BY <2>1, <2>2, <2>3, <2>4 DEF CInv, CoverInv
<1> QED BY <1>1, <1>2, <1>3, <1>4 DEF Next

LEMMA InitCInv == Init => CInv
<1> SUFFICES ASSUME Init PROVE CoverInv
  BY InitMInv DEF CInv
<1>1. phase = "declare" /\ DOMAIN hashed = {} BY DEF Init
<1> QED BY <1>1 DEF CoverInv

\* What was hashed covers what the templates say throughout.
THEOREM CoverKept == Spec => []CInv
BY InitCInv, CInvKept, PTL DEF Spec

\* In a prepared app every reference leads to the very attribute it is for, through
\* parameters, outputs and exports that exist, and nothing comes to a template after
\* it was hashed but where it finds assets whose hashes were in it (resolveValue,
\* createNestedStackParameter, _prepareTemplateAsset, prepareApp).
THEOREM ReferencesAreComplete == Spec => []TemplatesAreComplete
<1>1. CInv => TemplatesAreComplete
  <2> SUFFICES ASSUME CInv PROVE ReferencesReachTheirTargets /\ HashesAreFinal
    BY DEF TemplatesAreComplete
  <2>1. HashesAreFinal
    BY DEF CInv, CoverInv, MInv, PInv, PreparationInv, HashInv, HashesAreFinal
  <2>2. ASSUME phase = "done", NEW u \in uses
        PROVE  Meaning(u.source, u.value) = <<u.value.in, u.value>>
    <3>1. call = Idle /\ edges = {} BY <2>2 DEF CInv, MInv, PInv, PreparationInv, ProgressInv
    <3>2. HasValueForStack(u.value, u.source) BY <2>2, <3>1 DEF CInv, MInv, MeaningInv, UsesInv
    <3> QED BY <3>2, TrailEnds DEF CInv
  <2> QED BY <2>1, <2>2 DEF ReferencesReachTheirTargets
<1> QED BY <1>1, CoverKept, PTL
=============================================================================
