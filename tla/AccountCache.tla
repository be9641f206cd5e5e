----------------------------- MODULE AccountCache -----------------------------
(***************************************************************************)
(* The cache of access keys and their accounts on disk                     *)
(* (aws-cdk/lib/api/aws-auth/account-cache.ts), one file for every process *)
(* of a user.  It is read whole and written whole, without a lock: a write *)
(* empties the file before it fills it.                                    *)
(***************************************************************************)
EXTENDS Naturals, FiniteSets

CONSTANTS Keys,         \* access key ids
          Accounts,     \* accounts, each with its partition
          MaxEntries    \* MAX_ENTRIES

VARIABLE file   \* the file, see File

Map == UNION {[S -> Accounts] : S \in SUBSET Keys}
NoEntries == [k \in {} |-> k]

\* "denied": it can neither be read nor written; "mixed": text that is no JSON,
\* where the tail of a longer text follows a shorter one, or one that is cut short.
File == [state : {"missing", "denied", "empty", "mixed"}, map : {NoEntries}]
          \cup [state : {"map"}, map : Map]

Holding(map) == [state |-> "map", map |-> map]

\* A cache that is missing, denied or no JSON is empty; any other error is thrown.
LoadMap == file.map
LoadFails == UNCHANGED file

Add(map, key, account) ==
  [k \in DOMAIN map \cup {key} |-> IF k = key THEN account ELSE map[k]]

\* Mutant: a cache of the maximal size is taken to have room left.
WithEntryBeyond(map, key, account) ==
  Add(IF Cardinality(DOMAIN map) > MaxEntries THEN NoEntries ELSE map, key, account)

\* What put saves: the map with the entry, or the entry alone.
WithEntry(map, key, account) ==
  Add(IF Cardinality(DOMAIN map) >= MaxEntries THEN NoEntries ELSE map, key, account)

\* ensureFile, and the file is opened for writing.  What may not be written is
\* left alone.
OpenMap == /\ file.state # "denied"
           /\ file' = [state |-> "empty", map |-> NoEntries]
CannotOpen == file.state = "denied" /\ UNCHANGED file

\* Any other error is thrown (no descriptor is left, the file is a directory, ...),
\* after ensureFile has made the file, or before.
OpenFails ==
  \/ UNCHANGED file
  \/ file.state = "missing" /\ file' = [state |-> "empty", map |-> NoEntries]

\* The text is written.  What another process wrote in the meantime is overwritten
\* or, where it is longer, left behind it.
WriteMap(map) ==
  \/ file' = Holding(map)
  \/ /\ file.state \in {"map", "mixed"}
     /\ file' = [state |-> "mixed", map |-> NoEntries]

\* The disk is full, say, and that is thrown, after a part of the text or none.
WriteFails ==
  \/ UNCHANGED file
  \/ file' = [state |-> "mixed", map |-> NoEntries]

=============================================================================
