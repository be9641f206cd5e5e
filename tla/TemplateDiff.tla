---------------------------- MODULE TemplateDiff ----------------------------
(***************************************************************************)
(* `cdk diff`: which resources a new template will replace, directly or    *)
(* because they refer to one that is (@aws-cdk/cloudformation-diff/lib/    *)
(* diff-template.ts, diff/index.ts, diff/types.ts, diff/util.ts).          *)
(*                                                                         *)
(* A template is its Resources section.  A property value is a text, a     *)
(* reference (Ref or Fn::GetAtt) or another intrinsic function with a      *)
(* reference among its arguments; the types of resources share one         *)
(* specification of their properties.                                      *)
(***************************************************************************)
EXTENDS Naturals, Sequences, FiniteSets

CONSTANTS Ids,         \* logical ids
          Types, Props,
          UpdateType,  \* "Immutable", "Conditional" or "Mutable", per property
          Texts,       \* literal values
          Number,      \* what parseFloat makes of a text; NaN
          NaN,
          Changes      \* the pairs of templates considered

\* A value; `marked' references end in " (replaced)".
Text(t) == [kind |-> "text", text |-> t, id |-> NaN, marked |-> FALSE]
Ref(i) == [kind |-> "ref", text |-> NaN, id |-> i, marked |-> FALSE]
Within(i) == [kind |-> "function", text |-> NaN, id |-> i, marked |-> FALSE]
NoValue == [kind |-> "missing", text |-> NaN, id |-> NaN, marked |-> FALSE]
Value == [kind : {"text", "ref", "function", "missing"}, text : Texts \cup {NaN},
          id : Ids \cup {NaN}, marked : BOOLEAN]

\* A resource; type NaN: not in the template.
Resource == [type : Types \cup {NaN}, props : [Props -> Value], dependsOn : Seq(Ids), retain : BOOLEAN]
NoResource == [type |-> NaN, props |-> [p \in Props |-> NoValue], dependsOn |-> <<>>, retain |-> FALSE]

ASSUME TemplatesAssumption ==
  /\ UpdateType \in [Props -> {"Immutable", "Conditional", "Mutable"}]
  /\ Number \in [Texts -> Nat \cup {NaN}]
  /\ \A c \in Changes : \A t \in {c.old, c.new} :
       t \in [Ids -> Resource] /\ \A i \in Ids, p \in Props : ~t[i].props[p].marked

VARIABLES
  old, new,    \* currentTemplate and newTemplate
  progress,       \* "begin", "propagate", "copy", "done"
  diff,        \* theDiff: what is reported
  copy,        \* newTemplateCopy
  downstream   \* diffWithReplacements

diffVars == <<old, new, progress, diff, copy, downstream>>
templates == <<old, new>>

-----------------------------------------------------------------------------
(* Comparison (diff/util.ts)                                               *)

SameText(t, u) == t = u \/ (Number[t] # NaN /\ Number[t] = Number[u])

DeepEqual(v, w) == v = w \/ (v.kind = "text" /\ w.kind = "text" /\ SameText(v.text, w.text))

\* In a section, lists of dependencies are compared by their length, and by
\* their elements only if there is but one.
DependsOnEqual(d, e) == d = e \/ (Len(d) = Len(e) /\ Len(d) > 1)

SameResource(r, s) ==
  /\ r.type = s.type /\ r.retain = s.retain /\ DependsOnEqual(r.dependsOn, s.dependsOn)
  /\ \A p \in Props : DeepEqual(r.props[p], s.props[p])

SameSection(t, u) == \A i \in Ids : SameResource(t[i], u[i])

-----------------------------------------------------------------------------
(* The difference of two resources (diff/index.ts, diff/types.ts)          *)

Impact == {"NO_CHANGE", "WILL_UPDATE", "WILL_CREATE", "WILL_ORPHAN",
           "MAY_REPLACE", "WILL_REPLACE", "WILL_DESTROY"}

IsReplacement(impact) == impact \in {"MAY_REPLACE", "WILL_REPLACE"}

PropertyImpact(p, v, w) ==
  IF DeepEqual(v, w) THEN "NO_CHANGE"
  ELSE CASE UpdateType[p] = "Immutable"   -> "WILL_REPLACE"
         [] UpdateType[p] = "Conditional" -> "MAY_REPLACE"
         [] OTHER                         -> "WILL_UPDATE"

\* Only resources of one type are looked into.
DiffResource(r, s) ==
  LET inside == r.type = s.type /\ r.type # NaN IN
  [oldType |-> r.type, newType |-> s.type, retain |-> r.retain,
   props |-> [p \in Props |-> IF inside THEN PropertyImpact(p, r.props[p], s.props[p]) ELSE "NO_CHANGE"],
   other |-> inside /\ (r.dependsOn # s.dependsOn \/ r.retain # s.retain)]

\* The worst impact of a property counts.
ChangeImpact(d) ==
  LET impacts == {d.props[p] : p \in Props} IN
  IF d.oldType = NaN THEN (IF d.newType = NaN THEN "NO_CHANGE" ELSE "WILL_CREATE")
  ELSE IF d.newType = NaN THEN (IF d.retain THEN "WILL_ORPHAN" ELSE "WILL_DESTROY")
  ELSE IF d.oldType # d.newType \/ "WILL_REPLACE" \in impacts THEN "WILL_REPLACE"
  ELSE IF "MAY_REPLACE" \in impacts THEN "MAY_REPLACE"
  ELSE IF d.other \/ "WILL_UPDATE" \in impacts THEN "WILL_UPDATE"
  ELSE "NO_CHANGE"

\* calculateTemplateDiff: an equal section has no differences.
Difference(t, u) ==
  IF SameSection(t, u) THEN [i \in Ids |-> DiffResource(NoResource, NoResource)]
  ELSE [i \in Ids |-> DiffResource(t[i], u[i])]

-----------------------------------------------------------------------------
(* diffTemplate                                                            *)

NoDifference == [i \in Ids |-> DiffResource(NoResource, NoResource)]

DiffInit ==
  /\ \E c \in Changes : old = c.old /\ new = c.new
  /\ progress = "begin"
  /\ diff = NoDifference /\ copy = new /\ downstream = NoDifference

Begin ==
  /\ progress = "begin" /\ progress' = "propagate"
  /\ diff' = Difference(old, new) /\ copy' = new
  /\ UNCHANGED <<templates, downstream>>

\* Mutant: references that are marked are marked once more.
IsReferenceInAnyForm(v, replaced) == v.kind = "ref" /\ v.id \in replaced

\* Intrinsic functions other than references are not looked into.
IsReference(v, replaced) == v.kind = "ref" /\ ~v.marked /\ v.id \in replaced

References(replaced) ==
  {x \in Ids \X Props : IsReference(copy[x[1]].props[x[2]], replaced)}

\* propagateReplacedReferences for every resource that will be replaced.
Marked(replaced) ==
  [i \in Ids |-> [copy[i] EXCEPT !.props = [p \in Props |->
     IF <<i, p>> \in References(replaced)
     THEN [copy[i].props[p] EXCEPT !.marked = TRUE] ELSE copy[i].props[p]]]]

WillBeReplaced(d) == {i \in Ids : ChangeImpact(d[i]) = "WILL_REPLACE"}

\* Mutant: one pass is taken for all.
PropagateOnce ==
  /\ progress = "propagate"
  /\ downstream' = Difference(old, copy)
  /\ copy' = Marked(WillBeReplaced(downstream'))
  /\ progress' = IF downstream = NoDifference THEN "propagate" ELSE "copy"
  /\ UNCHANGED <<templates, diff>>

\* One pass of the loop.
Propagate ==
  /\ progress = "propagate"
  /\ downstream' = Difference(old, copy)
  /\ copy' = Marked(WillBeReplaced(downstream'))
  /\ progress' = IF References(WillBeReplaced(downstream')) # {} THEN "propagate" ELSE "copy"
  /\ UNCHANGED <<templates, diff>>

\* propagatePropertyReplacement
WithReplacements(d, e) ==
  [d EXCEPT !.props = [p \in Props |-> IF IsReplacement(e.props[p]) THEN e.props[p] ELSE d.props[p]]]

CopyReplacements ==
  /\ progress = "copy" /\ progress' = "done"
  /\ diff' = [i \in Ids |->
       LET impact == ChangeImpact(downstream[i]) IN
       IF IsReplacement(impact) /\ ChangeImpact(diff[i]) # impact
       THEN WithReplacements(diff[i], downstream[i]) ELSE diff[i]]
  /\ UNCHANGED <<templates, copy, downstream>>

DiffNext == Begin \/ Propagate \/ CopyReplacements

DiffSpec == DiffInit /\ [][DiffNext]_diffVars
FairDiffSpec == DiffSpec /\ WF_diffVars(DiffNext)

-----------------------------------------------------------------------------
(* Properties                                                              *)

\* The replacements the templates themselves show.
Direct(impact) == {i \in Ids : ChangeImpact(Difference(old, new)[i]) = impact}

RefersInto(i, type, T) ==
  /\ old[i].type # NaN /\ old[i].type = new[i].type
  /\ \E p \in Props : UpdateType[p] = type /\ new[i].props[p].kind = "ref" /\ new[i].props[p].id \in T

ClosedUnderReferences(T) ==
  Direct("WILL_REPLACE") \subseteq T /\ \A i \in Ids : RefersInto(i, "Immutable", T) => i \in T

\* Why this holds.  A value of the copy is that of the new template, or marked: a
\* reference to a resource of every closed set.  When the loop ends, what it found
\* is the difference to the copy, and whatever refers to a replacement is marked.
Unchanged(i, p) == copy[i].props[p] = new[i].props[p]
MarkedForCause(i, p) ==
  /\ new[i].props[p].kind = "ref"
  /\ copy[i].props[p] = [new[i].props[p] EXCEPT !.marked = TRUE]
  /\ \A T \in SUBSET Ids : ClosedUnderReferences(T) => new[i].props[p].id \in T

DiffInv ==
  /\ \E c \in Changes : old = c.old /\ new = c.new
  /\ progress \in {"begin", "propagate", "copy", "done"}
  /\ \A i \in Ids :
       /\ copy[i] = [new[i] EXCEPT !.props = copy[i].props]
       /\ copy[i].props \in [Props -> Value]
       /\ \A p \in Props : Unchanged(i, p) \/ MarkedForCause(i, p)
  /\ progress \in {"propagate", "copy"} => diff = Difference(old, new)
  /\ progress = "copy" =>
       downstream = Difference(old, copy) /\ References(WillBeReplaced(downstream)) = {}

\* What is reported as replaced is the least set that contains what the change
\* itself replaces and whatever refers to one of the set in an immutable
\* property; resources with such a reference in a conditional property may be
\* replaced.  The loop of diffTemplate neither stops early nor overshoots, and
\* the copying at its end loses nothing (lines 41-82).
ReplacementsAreClosed ==
  progress = "done" =>
    LET R == WillBeReplaced(diff) IN
    /\ ClosedUnderReferences(R)
    /\ \A T \in SUBSET R : ClosedUnderReferences(T) => T = R
    /\ \A i \in Ids \ R : ChangeImpact(diff[i]) = "MAY_REPLACE" <=>
         i \in Direct("MAY_REPLACE") \/ RefersInto(i, "Conditional", R)

\* The comparison ends, also when resources refer to one another in a circle.
DiffEnds == <>(progress = "done")
=============================================================================
