--------------------------- MODULE MCTemplateDiff ---------------------------
\* Three resources.  One of them changes in any way, the others refer to one
\* another and to it in any way.
EXTENDS TemplateDiff

CONSTANTS a, b, c, T, U, p, q, r, ten, net, word

MCIds == {a, b, c}
MCUpdateType == [x \in {p, q, r} |-> CASE x = p -> "Immutable" [] x = q -> "Conditional" [] OTHER -> "Mutable"]

\* "10" and "10.0.0.0/16" are the same number to parseFloat.
MCNumber == [t \in {ten, net, word} |-> IF t = word THEN NaN ELSE 10]

Some(type, x, y, z, deps, retain) ==
  [type |-> type, props |-> [k \in {p, q, r} |-> CASE k = p -> x [] k = q -> y [] OTHER -> z],
   dependsOn |-> deps, retain |-> retain]

First == Some(T, Text(ten), Text(ten), NoValue, <<b, c>>, FALSE)

\* What may become of the first resource, or what it may have been.
Firsts ==
  {NoResource, [First EXCEPT !.type = U], [First EXCEPT !.dependsOn = <<b, b>>],
   [First EXCEPT !.dependsOn = <<>>], [First EXCEPT !.retain = TRUE]}
  \cup {Some(T, Text(x), y, z, <<b, c>>, FALSE) :
          x \in {ten, net, word}, y \in {Text(ten), Text(word), Ref(b)}, z \in {NoValue, Ref(c)}}

Values(i) == {Text(word), Ref(a), Ref(IF i = b THEN c ELSE b)}
Others(i) == {Some(T, x, y, Text(word), <<>>, FALSE) : x \in Values(i) \cup {Within(a)}, y \in Values(i)}

Template(x, y, z) == [i \in MCIds |-> CASE i = a -> x [] i = b -> y [] OTHER -> z]

MCChanges ==
  LET pairs == {<<Template(First, y, z), Template(x, y, z)>> : x \in Firsts, y \in Others(b), z \in Others(c)}
  IN  {[old |-> t[1], new |-> t[2]] : t \in pairs} \cup {[old |-> t[2], new |-> t[1]] : t \in pairs}
=============================================================================
