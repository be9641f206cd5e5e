-------------------------- MODULE SdkProviderProofs --------------------------
(***************************************************************************)
(* Whatever processes share the account cache and whenever they are        *)
(* killed: what it tells is true, credentials are for the account asked    *)
(* for, and a call fails for cause.  For any number of processes, keys     *)
(* and accounts; the inductive invariant is SdkProvider!CacheInv.          *)
(***************************************************************************)
EXTENDS SdkProvider, FiniteSetTheorems, TLAPS

\* What CacheInv says of the file and of one process.
FileInv ==
  /\ file \in File
  /\ Right(file.map) /\ Cardinality(DOMAIN file.map) <= MaxEntries

ProcessInv(p) ==
  /\ me[p] \in Process
  /\ Right(me[p].map) /\ Cardinality(DOMAIN me[p].map) <= MaxEntries
  /\ me[p].defaultAccount \in Accounts =>
       ambient[p] # None /\ me[p].defaultAccount = AccountOf[ambient[p]]
  /\ CallIsOnItsWay(p) /\ BaseIsRight(p) /\ MemoryIsRight(p)

\* The invariant is one of the file and of each process on its own.
LEMMA Parts ==
  CacheInv <=>
    /\ FileInv
    /\ ambient \in [Processes -> Keys \cup {None}] /\ plugin \in Plugins
    /\ plugin \in [Accounts \X Modes -> Keys \cup {None}]
    /\ me \in [Processes -> Process]
    /\ ops \in 0..MaxOps /\ troubles \in 0..MaxTroubles
    /\ \A p \in Processes : ProcessInv(p)
BY DEF CacheInv, TypeOK, CacheIsSound, FileInv, ProcessInv

-----------------------------------------------------------------------------
(* Maps from keys to accounts.                                             *)

\* What Map says.
LEMMA MapType ==
  ASSUME NEW map
  PROVE  map \in Map <=> DOMAIN map \subseteq Keys /\ map \in [DOMAIN map -> Accounts]
BY DEF Map

\* The empty map, which loadMap takes a file it cannot read for, is sound.
LEMMA NoEntriesIsSound ==
  NoEntries \in Map /\ Right(NoEntries) /\ Cardinality(DOMAIN NoEntries) <= MaxEntries
<1>1. DOMAIN NoEntries = {} BY DEF NoEntries
<1>2. NoEntries \in Map BY <1>1, MapType DEF NoEntries
<1>3. Cardinality(DOMAIN NoEntries) = 0 BY <1>1, FS_EmptySet
<1> QED BY <1>1, <1>2, <1>3, ConstantsAssumption DEF Right

\* What put adds is true of its key, and fits in.
LEMMA WithEntryIsSound ==
  ASSUME NEW map \in Map, Right(map), Cardinality(DOMAIN map) <= MaxEntries,
         NEW key \in Keys
  PROVE  /\ WithEntry(map, key, AccountOf[key]) \in Map
         /\ Right(WithEntry(map, key, AccountOf[key]))
         /\ Cardinality(DOMAIN WithEntry(map, key, AccountOf[key])) <= MaxEntries
<1> DEFINE base == IF Cardinality(DOMAIN map) >= MaxEntries THEN NoEntries ELSE map
           new == Add(base, key, AccountOf[key])
<1>1. base \in Map /\ Right(base) BY NoEntriesIsSound
<1>2. AccountOf[key] \in Accounts BY ConstantsAssumption
<1>3. DOMAIN base \subseteq Keys /\ base \in [DOMAIN base -> Accounts] BY <1>1, MapType
<1>4. IsFiniteSet(DOMAIN base) BY <1>3, FS_Subset, ConstantsAssumption
<1>5. Cardinality(DOMAIN base) \in Nat /\ Cardinality(DOMAIN base) < MaxEntries
  <2>1. CASE Cardinality(DOMAIN map) >= MaxEntries
    <3>1. base = NoEntries BY <2>1
    <3>2. Cardinality(DOMAIN base) = 0 BY <3>1, FS_EmptySet DEF NoEntries
    <3> QED BY <3>2, ConstantsAssumption
  <2>2. CASE ~(Cardinality(DOMAIN map) >= MaxEntries)
    <3>1. base = map BY <2>2
    <3>2. Cardinality(DOMAIN base) \in Nat BY <1>4, FS_CardinalityType
    <3> QED BY <2>2, <3>1, <3>2, ConstantsAssumption
  <2> QED BY <2>1, <2>2
<1> HIDE DEF base
<1>6. DOMAIN new = DOMAIN base \cup {key} BY DEF Add
<1>7. Cardinality(DOMAIN new) <= MaxEntries
  <2>1. Cardinality(DOMAIN base \cup {key}) \in {Cardinality(DOMAIN base), Cardinality(DOMAIN base) + 1}
    BY <1>4, FS_AddElement
  <2> QED BY <1>5, <1>6, <2>1, ConstantsAssumption
<1>8. new \in Map BY <1>2, <1>3, <1>6, MapType DEF Add
<1>9. Right(new) BY <1>1, <1>6 DEF Right, Add
<1> QED BY <1>7, <1>8, <1>9 DEF WithEntry, base

\* A file that was read is a sound map.
LEMMA LoadMapIsSound ==
  ASSUME FileInv
  PROVE  LoadMap \in Map /\ Right(LoadMap) /\ Cardinality(DOMAIN LoadMap) <= MaxEntries
BY NoEntriesIsSound DEF FileInv, File, LoadMap

\* A file that is opened is empty.
LEMMA OpenStep == ASSUME OpenMap PROVE FileInv'
BY NoEntriesIsSound DEF OpenMap, FileInv, File, Right

\* One that is written holds the map, or is mixed.
LEMMA WriteStep ==
  ASSUME NEW map \in Map, Right(map), Cardinality(DOMAIN map) <= MaxEntries, WriteMap(map)
  PROVE  FileInv'
<1>1. CASE file' = Holding(map) BY <1>1 DEF Holding, FileInv, File, Right
<1>2. CASE file' = [state |-> "mixed", map |-> NoEntries]
  BY <1>2, NoEntriesIsSound DEF FileInv, File, Right
<1> QED BY <1>1, <1>2 DEF WriteMap

\* Where the disk fails the file is as it was, empty or cut short.
LEMMA FailStep == ASSUME FileInv, LoadFails \/ OpenFails \/ WriteFails PROVE FileInv'
<1>1. CASE UNCHANGED file BY <1>1 DEF FileInv
<1>2. CASE \E state \in {"empty", "mixed"} : file' = [state |-> state, map |-> NoEntries]
  BY <1>2, NoEntriesIsSound DEF FileInv, File, Right
<1> QED BY <1>1, <1>2 DEF LoadFails, OpenFails, WriteFails

-----------------------------------------------------------------------------
(* A step changes the file and the process that takes it.                  *)

\* The invariant of the process that takes the step is all there is to show.
LEMMA OneProcess ==
  ASSUME CacheInv, NEW p \in Processes, NEW q, me' = [me EXCEPT ![p] = q],
         ProcessInv(p)', FileInv', UNCHANGED <<ambient, plugin>>,
         ops' \in 0..MaxOps, troubles' \in 0..MaxTroubles
  PROVE  CacheInv'
<1>1. me' \in [Processes -> Process] BY Parts DEF ProcessInv
<1>2. ASSUME NEW r \in Processes PROVE ProcessInv(r)'
  <2>1. CASE r = p BY <2>1
  <2>2. CASE r # p
    <3>1. me'[r] = me[r] BY <2>2, Parts
    <3>2. ProcessInv(r) BY Parts
    <3> QED BY <3>1, <3>2 DEF ProcessInv, CallIsOnItsWay, BaseIsRight, MemoryIsRight, Wanted
  <2> QED BY <2>1, <2>2
<1> QED BY <1>1, <1>2, Parts DEF CacheInv, TypeOK, CacheIsSound, FileInv, ProcessInv

\* A process that starts knows nothing.
LEMMA NewProcessIsRight == ASSUME NEW p, me'[p] = NewProcess PROVE ProcessInv(p)'
<1> DEFINE q == NewProcess
<1>0. me'[p] = q OBVIOUS
<1>1. q \in Process
  <2>1. [kind |-> "none"] \in Result BY DEF Result
  <2>2. NoEntries \in Map BY NoEntriesIsSound
  <2> QED BY <2>1, <2>2 DEF NewProcess, Process
<1>2. /\ q.pc = "idle" /\ q.op = NoOp /\ q.base = NoBase /\ q.map = NoEntries
      /\ q.defaultAccount = Unset /\ q.found = [x \in Accounts \X Modes |-> Unset]
  BY DEF NewProcess
<1>3. Unset \notin Accounts /\ Unset # None BY ConstantsAssumption
<1> HIDE DEF q
<1>4. CallIsOnItsWay(p)' /\ BaseIsRight(p)' BY <1>0, <1>2 DEF CallIsOnItsWay, BaseIsRight
<1>5. MemoryIsRight(p)' BY <1>0, <1>2, <1>3 DEF MemoryIsRight
<1> QED BY <1>0, <1>1, <1>2, <1>3, <1>4, <1>5, NoEntriesIsSound DEF ProcessInv

\* A call that ends leaves what the process remembers.
LEMMA ReturnStep ==
  ASSUME CacheInv, NEW p \in Processes, NEW result \in Result, Return(p, result),
         UNCHANGED <<ambient, plugin>>
  PROVE  /\ ProcessInv(p)' /\ \E q : me' = [me EXCEPT ![p] = q]
<1> DEFINE q == [me[p] EXCEPT !.pc = "idle", !.op = NoOp, !.base = NoBase, !.fetching = None,
                              !.result = result]
<1>1. ProcessInv(p) /\ me \in [Processes -> Process] BY Parts
<1>2. me' = [me EXCEPT ![p] = q] BY DEF Return
<1>3. me'[p] = q BY <1>1, <1>2
<1>4. q \in Process BY <1>1 DEF ProcessInv, Process
<1>5. /\ q.pc = "idle" /\ q.defaultAccount = me[p].defaultAccount /\ q.op = NoOp /\ q.base = NoBase
      /\ q.found = me[p].found /\ q.map = me[p].map /\ q.unlucky = me[p].unlucky
  BY <1>1 DEF ProcessInv, Process
<1> HIDE DEF q
<1>6. CallIsOnItsWay(p)' /\ BaseIsRight(p)' BY <1>3, <1>5 DEF CallIsOnItsWay, BaseIsRight
<1>7. MemoryIsRight(p)' BY <1>1, <1>3, <1>5 DEF ProcessInv, MemoryIsRight
<1> QED BY <1>1, <1>2, <1>3, <1>4, <1>5, <1>6, <1>7 DEF ProcessInv

\* The accounts that are looked up and noted.
LEMMA ResolvedStep ==
  ASSUME CacheInv, NEW p \in Processes, me[p].pc \in {"get", "open", "write"},
         Resolved(p, AccountOf[me[p].fetching]), UNCHANGED <<ambient, plugin>>
  PROVE  /\ ProcessInv(p)' /\ \E q : me' = [me EXCEPT ![p] = q]
<1> DEFINE account == AccountOf[me[p].fetching]
<1>1. ProcessInv(p) /\ me \in [Processes -> Process] BY Parts
<1>2. me[p].fetching \in Keys /\ account \in Accounts
  BY <1>1, ConstantsAssumption DEF ProcessInv, CallIsOnItsWay
<1>3. CASE me[p].base = NoBase
  <2> DEFINE q == [me[p] EXCEPT !.pc = "base", !.defaultAccount = account, !.fetching = None]
  <2>1. me' = [me EXCEPT ![p] = q] BY <1>3 DEF Resolved
  <2>2. me'[p] = q BY <1>1, <2>1
  <2>3. q \in Process BY <1>1, <1>2 DEF ProcessInv, Process
  <2>4. me[p].fetching = ambient[p] BY <1>1, <1>3 DEF ProcessInv, CallIsOnItsWay
  <2>5. /\ q.pc = "base" /\ q.defaultAccount = account /\ q.op = me[p].op /\ q.base = NoBase
        /\ q.found = me[p].found /\ q.map = me[p].map /\ q.unlucky = me[p].unlucky
    BY <1>1, <1>3 DEF ProcessInv, Process
  <2>6. CallIsOnItsWay(p)' BY <1>1, <1>2, <2>2, <2>5, ConstantsAssumption DEF ProcessInv, CallIsOnItsWay
  <2>7. BaseIsRight(p)' BY <2>2, <2>5 DEF BaseIsRight
  <2>8. MemoryIsRight(p)' BY <1>1, <1>2, <2>2, <2>5, ConstantsAssumption DEF ProcessInv, MemoryIsRight
  <2>9. ambient[p] # None BY <1>2, <2>4, ConstantsAssumption
  <2> HIDE DEF q
  <2> QED BY <1>1, <2>1, <2>2, <2>3, <2>4, <2>5, <2>6, <2>7, <2>8, <2>9 DEF ProcessInv
<1>4. CASE me[p].base # NoBase
  <2> DEFINE result == [kind |-> "partition", key |-> me[p].fetching, account |-> account]
  <2>1. Return(p, result) BY <1>4 DEF Resolved
  <2>2. result \in Result BY <1>2 DEF Result
  <2> QED BY <2>1, <2>2, ReturnStep
<1> QED BY <1>3, <1>4

\* The account cannot be found out.
LEMMA NotResolvedStep ==
  ASSUME CacheInv, NEW p \in Processes, NotResolved(p),
         me[p].pc \in {"resolve", "get", "sts", "put", "open", "write"},
         UNCHANGED <<ambient, plugin>>
  PROVE  /\ ProcessInv(p)' /\ \E q : me' = [me EXCEPT ![p] = q]
<1>1. ProcessInv(p) /\ me \in [Processes -> Process] BY Parts
<1>2. CASE me[p].base = NoBase
  <2> DEFINE q == [me[p] EXCEPT !.pc = "base", !.defaultAccount = None, !.fetching = None,
                                !.unlucky = ambient[p] # None]
  <2>1. me' = [me EXCEPT ![p] = q] BY <1>2 DEF NotResolved
  <2>2. me'[p] = q BY <1>1, <2>1
  <2>3. q \in Process BY <1>1 DEF ProcessInv, Process
  <2>4. /\ q.pc = "base" /\ q.defaultAccount = None /\ q.op = me[p].op /\ q.base = NoBase
        /\ q.found = me[p].found /\ q.map = me[p].map /\ q.unlucky = (ambient[p] # None)
    BY <1>1, <1>2 DEF ProcessInv, Process
  <2> HIDE DEF q
  <2>5. CallIsOnItsWay(p)' BY <1>1, <2>2, <2>4, ConstantsAssumption DEF ProcessInv, CallIsOnItsWay
  <2>6. BaseIsRight(p)' BY <2>2, <2>4 DEF BaseIsRight
  <2>7. MemoryIsRight(p)' BY <1>1, <2>2, <2>4 DEF ProcessInv, MemoryIsRight
  <2>8. None \notin Accounts BY ConstantsAssumption
  <2> QED BY <1>1, <2>1, <2>2, <2>3, <2>4, <2>5, <2>6, <2>7, <2>8 DEF ProcessInv
<1>3. CASE me[p].base # NoBase
  <2>1. Return(p, Error) BY <1>3 DEF NotResolved
  <2>2. Error \in Result BY DEF Error, Result
  <2> QED BY <2>1, <2>2, ReturnStep
<1> QED BY <1>2, <1>3

\* A call moves on: the account of a key is being looked up, or the map is at hand.
LEMMA MovesOn ==
  ASSUME CacheInv, NEW p \in Processes, NEW q \in Process, me' = [me EXCEPT ![p] = q],
         me[p].pc # "idle", q.op = me[p].op, q.base = me[p].base, q.found = me[p].found,
         q.defaultAccount = me[p].defaultAccount, q.unlucky = me[p].unlucky,
         Right(q.map), Cardinality(DOMAIN q.map) <= MaxEntries,
         q.pc \in {"get", "sts", "put", "open", "write"},
         q.fetching \in Keys,
         q.fetching = IF me[p].base = NoBase THEN ambient[p] ELSE me[p].base.key,
         UNCHANGED <<ambient, plugin>>
  PROVE  ProcessInv(p)'
<1>1. ProcessInv(p) /\ me'[p] = q BY Parts
<1>2. CallIsOnItsWay(p)' BY <1>1 DEF ProcessInv, CallIsOnItsWay
<1>3. BaseIsRight(p)' BY <1>1 DEF ProcessInv, BaseIsRight, Wanted
<1>4. MemoryIsRight(p)' BY <1>1 DEF ProcessInv, MemoryIsRight
<1> QED BY <1>1, <1>2, <1>3, <1>4 DEF ProcessInv

\* The steps of the lookup, one by one.
LEMMA ResolveDefaultStep ==
  ASSUME CacheInv, NEW p \in Processes, ResolveDefault(p)
  PROVE  CacheInv'
<1>1. ProcessInv(p) /\ FileInv /\ me \in [Processes -> Process] BY Parts
<1>2. ProcessInv(p)' /\ \E q : me' = [me EXCEPT ![p] = q]
  <2>1. CASE ambient[p] = None
    BY <2>1, NotResolvedStep DEF ResolveDefault, At, Given
  <2>2. CASE ambient[p] # None
    <3> DEFINE q == Fetch(p, ambient[p])
    <3>1. me' = [me EXCEPT ![p] = q] BY <2>2 DEF ResolveDefault
    <3>2. ambient[p] \in Keys BY <2>2, Parts
    <3>3. q \in Process BY <1>1, <3>2 DEF ProcessInv, Process, Fetch
    <3>4. /\ q.op = me[p].op /\ q.base = me[p].base /\ q.found = me[p].found /\ q.map = me[p].map
          /\ q.defaultAccount = me[p].defaultAccount /\ q.unlucky = me[p].unlucky
          /\ q.pc = "get" /\ q.fetching = ambient[p]
      BY <1>1 DEF ProcessInv, Process, Fetch
    <3>5. me[p].pc = "resolve" /\ me[p].base = NoBase
      BY <1>1 DEF ResolveDefault, At, ProcessInv, CallIsOnItsWay
    <3> HIDE DEF q
    <3> QED BY <1>1, <3>1, <3>2, <3>3, <3>4, <3>5, MovesOn DEF ProcessInv, ResolveDefault, Given
  <2> QED BY <2>1, <2>2
<1> QED BY <1>1, <1>2, OneProcess, Parts DEF ResolveDefault, Given, Smooth, FileInv

\* What the cache tells is noted as it is; a miss asks STS.
LEMMA GetStep ==
  ASSUME CacheInv, NEW p \in Processes, Get(p)
  PROVE  CacheInv'
<1>1. ProcessInv(p) /\ FileInv /\ me \in [Processes -> Process] BY Parts
<1>2. ProcessInv(p)' /\ \E q : me' = [me EXCEPT ![p] = q]
  <2>1. CASE me[p].fetching \in DOMAIN LoadMap
    <3>1. LoadMap[me[p].fetching] = AccountOf[me[p].fetching] BY <1>1, <2>1, LoadMapIsSound DEF Right
    <3> QED BY <2>1, <3>1, ResolvedStep DEF Get, At, Given
  <2>2. CASE me[p].fetching \notin DOMAIN LoadMap
    <3> DEFINE q == [me[p] EXCEPT !.pc = "sts"]
    <3>1. me' = [me EXCEPT ![p] = q] BY <2>2 DEF Get, Goto
    <3>2. q \in Process BY <1>1 DEF ProcessInv, Process
    <3>3. /\ q.op = me[p].op /\ q.base = me[p].base /\ q.found = me[p].found /\ q.map = me[p].map
          /\ q.defaultAccount = me[p].defaultAccount /\ q.unlucky = me[p].unlucky
          /\ q.pc = "sts" /\ q.fetching = me[p].fetching
      BY <1>1 DEF ProcessInv, Process
    <3> HIDE DEF q
    <3>4. /\ me[p].pc # "idle" /\ me[p].fetching \in Keys
          /\ me[p].fetching = IF me[p].base = NoBase THEN ambient[p] ELSE me[p].base.key
      BY <1>1 DEF ProcessInv, CallIsOnItsWay, Get, At
    <3>5. Right(me[p].map) /\ Cardinality(DOMAIN me[p].map) <= MaxEntries BY <1>1 DEF ProcessInv
    <3> QED BY <3>1, <3>2, <3>3, <3>4, <3>5, MovesOn DEF Get, Given
  <2> QED BY <2>1, <2>2
<1> QED BY <1>1, <1>2, OneProcess, Parts DEF Get, Given, Smooth, FileInv

\* STS answers, or it cannot be found out.
LEMMA AskStsStep ==
  ASSUME CacheInv, NEW p \in Processes, AskSts(p)
  PROVE  CacheInv'
<1>1. ProcessInv(p) /\ FileInv /\ me \in [Processes -> Process] BY Parts
<1>2. ProcessInv(p)' /\ \E q : me' = [me EXCEPT ![p] = q]
  <2>1. CASE NotResolved(p) BY <2>1, NotResolvedStep DEF AskSts, At, Given
  <2>2. CASE Goto(p, "put")
    <3> DEFINE q == [me[p] EXCEPT !.pc = "put"]
    <3>1. me' = [me EXCEPT ![p] = q] BY <2>2 DEF Goto
    <3>2. q \in Process BY <1>1 DEF ProcessInv, Process
    <3>3. /\ q.op = me[p].op /\ q.base = me[p].base /\ q.found = me[p].found /\ q.map = me[p].map
          /\ q.defaultAccount = me[p].defaultAccount /\ q.unlucky = me[p].unlucky
          /\ q.pc = "put" /\ q.fetching = me[p].fetching
      BY <1>1 DEF ProcessInv, Process
    <3> HIDE DEF q
    <3>4. /\ me[p].pc # "idle" /\ me[p].fetching \in Keys
          /\ me[p].fetching = IF me[p].base = NoBase THEN ambient[p] ELSE me[p].base.key
      BY <1>1 DEF ProcessInv, CallIsOnItsWay, AskSts, At
    <3>5. Right(me[p].map) /\ Cardinality(DOMAIN me[p].map) <= MaxEntries BY <1>1 DEF ProcessInv
    <3> QED BY <3>1, <3>2, <3>3, <3>4, <3>5, MovesOn DEF AskSts, Given
  <2> QED BY <2>1, <2>2 DEF AskSts
<1>3. troubles' \in 0..MaxTroubles BY Parts, ConstantsAssumption DEF AskSts, Smooth, Trouble
<1> QED BY <1>1, <1>2, <1>3, OneProcess, Parts DEF AskSts, Given, FileInv

\* The map that put makes is sound.
LEMMA PutStep ==
  ASSUME CacheInv, NEW p \in Processes, Put(p)
  PROVE  CacheInv'
<1>1. ProcessInv(p) /\ FileInv /\ me \in [Processes -> Process] BY Parts
<1>2. /\ me[p].pc # "idle" /\ me[p].fetching \in Keys
      /\ me[p].fetching = IF me[p].base = NoBase THEN ambient[p] ELSE me[p].base.key
  BY <1>1 DEF ProcessInv, CallIsOnItsWay, Put, At
<1> DEFINE map == WithEntry(LoadMap, me[p].fetching, AccountOf[me[p].fetching])
           q == [me[p] EXCEPT !.pc = "open", !.map = map]
<1>3. map \in Map /\ Right(map) /\ Cardinality(DOMAIN map) <= MaxEntries
  BY <1>1, <1>2, LoadMapIsSound, WithEntryIsSound
<1>4. me' = [me EXCEPT ![p] = q] BY DEF Put
<1> HIDE DEF map
<1>5. q \in Process BY <1>1, <1>3 DEF ProcessInv, Process
<1>6. /\ q.op = me[p].op /\ q.base = me[p].base /\ q.found = me[p].found /\ q.map = map
      /\ q.defaultAccount = me[p].defaultAccount /\ q.unlucky = me[p].unlucky
      /\ q.pc = "open" /\ q.fetching = me[p].fetching
  BY <1>1 DEF ProcessInv, Process
<1> HIDE DEF q
<1>7. ProcessInv(p)' BY <1>2, <1>3, <1>4, <1>5, <1>6, MovesOn DEF Put, Given
<1> QED BY <1>1, <1>4, <1>7, OneProcess, Parts DEF Put, Given, Smooth, FileInv

\* The file is sound while it is written, and what it is about is noted.
LEMMA OpenAndWriteStep ==
  ASSUME CacheInv, NEW p \in Processes, Open(p) \/ Write(p)
  PROVE  CacheInv'
<1>1. ProcessInv(p) /\ FileInv /\ me \in [Processes -> Process] BY Parts
<1>2. me[p].map \in Map /\ Right(me[p].map) /\ Cardinality(DOMAIN me[p].map) <= MaxEntries
  BY <1>1 DEF ProcessInv, Process
<1>3. FileInv'
  <2>1. CASE Open(p)
    <3>1. CASE OpenMap BY <3>1, OpenStep
    <3>2. CASE CannotOpen BY <3>2, <1>1 DEF CannotOpen, FileInv
    <3> QED BY <2>1, <3>1, <3>2 DEF Open
  <2>2. CASE Write(p) BY <1>2, <2>2, WriteStep DEF Write
  <2> QED BY <2>1, <2>2
<1>4. ProcessInv(p)' /\ \E q : me' = [me EXCEPT ![p] = q]
  <2>1. CASE Open(p) /\ Goto(p, "write")
    <3> DEFINE q == [me[p] EXCEPT !.pc = "write"]
    <3>1. me' = [me EXCEPT ![p] = q] BY <2>1 DEF Goto
    <3>2. q \in Process BY <1>1 DEF ProcessInv, Process
    <3>3. /\ q.op = me[p].op /\ q.base = me[p].base /\ q.found = me[p].found /\ q.map = me[p].map
          /\ q.defaultAccount = me[p].defaultAccount /\ q.unlucky = me[p].unlucky
          /\ q.pc = "write" /\ q.fetching = me[p].fetching
      BY <1>1 DEF ProcessInv, Process
    <3> HIDE DEF q
    <3>4. /\ me[p].pc # "idle" /\ me[p].fetching \in Keys
          /\ me[p].fetching = IF me[p].base = NoBase THEN ambient[p] ELSE me[p].base.key
      BY <1>1, <2>1 DEF ProcessInv, CallIsOnItsWay, Open, At
    <3> QED BY <1>2, <2>1, <3>1, <3>2, <3>3, <3>4, MovesOn DEF Open, Given
  <2>2. CASE Resolved(p, AccountOf[me[p].fetching]) BY <2>2, ResolvedStep DEF Open, Write, At, Given
  <2> QED BY <2>1, <2>2 DEF Open, Write
<1> QED BY <1>1, <1>3, <1>4, OneProcess, Parts DEF Open, Write, Given, Smooth

\* Where the disk fails there is no account, and the file is sound.
LEMMA DiskFailsStep ==
  ASSUME CacheInv, NEW p \in Processes, DiskFails(p)
  PROVE  CacheInv'
<1>1. ProcessInv(p) /\ FileInv /\ me \in [Processes -> Process] BY Parts
<1>2. me[p].pc \in {"get", "put", "open", "write"} /\ UNCHANGED <<ambient, plugin, ops>>
  BY DEF DiskFails, At, Given
<1>3. FileInv' BY <1>1, FailStep DEF DiskFails
<1>4. ProcessInv(p)' /\ \E q : me' = [me EXCEPT ![p] = q] BY <1>2, NotResolvedStep DEF DiskFails
<1>5. troubles' \in 0..MaxTroubles BY Parts, ConstantsAssumption DEF DiskFails, Trouble
<1> QED BY <1>1, <1>2, <1>3, <1>4, <1>5, OneProcess, Parts

\* A new call has no base credentials yet.
LEMMA CallStep ==
  ASSUME CacheInv, NEW p \in Processes, NEW op \in Op, Call(p, op)
  PROVE  CacheInv'
<1>1. ProcessInv(p) /\ FileInv /\ me \in [Processes -> Process] BY Parts
<1> DEFINE q == [me[p] EXCEPT !.op = op, !.result = [kind |-> "none"],
                              !.pc = IF me[p].defaultAccount = Unset THEN "resolve" ELSE "base"]
<1>2. me' = [me EXCEPT ![p] = q] BY DEF Call
<1>3. q \in Process
  <2>1. [kind |-> "none"] \in Result BY DEF Result
  <2> QED BY <1>1, <2>1, ZenonT(40) DEF ProcessInv, Process
<1>4. /\ q.op = op /\ q.base = me[p].base /\ q.found = me[p].found /\ q.map = me[p].map
      /\ q.defaultAccount = me[p].defaultAccount /\ q.unlucky = me[p].unlucky
      /\ q.pc \in {"resolve", "base"} /\ (q.pc = "base" => q.defaultAccount # Unset)
  BY <1>1 DEF ProcessInv, Process
<1>5. me[p].base = NoBase BY <1>1 DEF Call, At, ProcessInv, CallIsOnItsWay
<1> HIDE DEF q
<1>6. me'[p] = q /\ UNCHANGED <<ambient, plugin, file>> BY <1>1, <1>2 DEF Call
<1>7. CallIsOnItsWay(p)'
  <2>1. op # NoOp BY DEF Op, NoOp
  <2> QED BY <1>4, <1>5, <1>6, <2>1 DEF CallIsOnItsWay
<1>8. BaseIsRight(p)' BY <1>4, <1>5, <1>6 DEF BaseIsRight
<1>9. MemoryIsRight(p)' BY <1>1, <1>4, <1>6 DEF ProcessInv, MemoryIsRight
<1>10. ProcessInv(p)' BY <1>1, <1>3, <1>4, <1>6, <1>7, <1>8, <1>9 DEF ProcessInv
<1>11. ops' \in 0..MaxOps BY Parts, ConstantsAssumption DEF Call
<1> QED BY <1>1, <1>2, <1>6, <1>10, <1>11, OneProcess, Parts DEF Call, FileInv

\* A process that is killed forgets everything; the file stays.
LEMMA KilledStep ==
  ASSUME CacheInv, NEW p \in Processes, Killed(p)
  PROVE  CacheInv'
<1>1. FileInv /\ me \in [Processes -> Process] BY Parts
<1>2. me'[p] = NewProcess BY <1>1 DEF Killed
<1>3. ProcessInv(p)' BY <1>2, NewProcessIsRight
<1>4. troubles' \in 0..MaxTroubles BY Parts, ConstantsAssumption DEF Killed, Trouble
<1> QED BY <1>1, <1>3, <1>4, OneProcess, Parts DEF Killed, Given, FileInv

-----------------------------------------------------------------------------
(* The choice of the base credentials.                                     *)

\* What resolveEnvironment makes of a call is what the call is about.
LEMMA TargetIsWanted ==
  ASSUME CacheInv, NEW p \in Processes, At(p, "base"), TargetAccount(p) # None
  PROVE  TargetAccount(p) = Wanted(p) /\ Wanted(p) \in Accounts /\ me[p].op \in Op
<1>1. ProcessInv(p) BY Parts
<1>2. me[p].op \in Op BY <1>1 DEF ProcessInv, Process, CallIsOnItsWay, At
<1>3. CASE me[p].op.account # Unknown BY <1>2, <1>3 DEF TargetAccount, Wanted, Op
<1>4. CASE me[p].op.account = Unknown
  <2>1. me[p].defaultAccount \in Accounts
    BY <1>1, <1>4 DEF TargetAccount, ProcessInv, CallIsOnItsWay, Process, At
  <2> QED BY <1>1, <1>2, <1>4, <2>1 DEF TargetAccount, Wanted, ProcessInv
<1> QED BY <1>3, <1>4

\* Plugins provide what they always have, and keys of the account.
LEMMA PluginIsRight ==
  ASSUME CacheInv, NEW p \in Processes, NEW account \in Accounts, NEW mode \in Modes
  PROVE  /\ FromPlugin(p, account, mode) = plugin[<<account, mode>>]
         /\ plugin[<<account, mode>>] \in Keys \cup {None}
         /\ plugin[<<account, mode>>] # None => AccountOf[plugin[<<account, mode>>]] = account
<1>1. <<account, mode>> \in Accounts \X Modes OBVIOUS
<1>2. me[p].found[<<account, mode>>] \in {Unset, plugin[<<account, mode>>]}
  BY <1>1, Parts DEF ProcessInv, MemoryIsRight
<1>3. plugin \in [Accounts \X Modes -> Keys \cup {None}] BY Parts
<1>4. \A x \in Accounts \X Modes : plugin[x] = None \/ AccountOf[plugin[x]] = x[1]
  BY Parts, ConstantsAssumption
<1>5. plugin[<<account, mode>>] = None \/ AccountOf[plugin[<<account, mode>>]] = account BY <1>1, <1>4
<1> QED BY <1>1, <1>2, <1>3, <1>5 DEF FromPlugin

\* What the plugins said is remembered as they said it.
LEMMA RememberIsRight ==
  ASSUME CacheInv, NEW p \in Processes, At(p, "base"), TargetAccount(p) # None
  PROVE  /\ Remember(p) \in [Accounts \X Modes -> Keys \cup {None, Unset}]
         /\ \A x \in Accounts \X Modes : Remember(p)[x] \in {Unset, plugin[x]}
<1> DEFINE account == TargetAccount(p)
           mode == me[p].op.mode
<1>1. account \in Accounts /\ mode \in Modes BY TargetIsWanted DEF Op
<1>2. me[p].found \in [Accounts \X Modes -> Keys \cup {None, Unset}] BY Parts DEF ProcessInv, Process
<1>3. \A x \in Accounts \X Modes : me[p].found[x] \in {Unset, plugin[x]}
  BY Parts DEF ProcessInv, MemoryIsRight
<1> HIDE DEF account, mode
<1>4. /\ FromPlugin(p, account, mode) = plugin[<<account, mode>>]
      /\ plugin[<<account, mode>>] \in Keys \cup {None}
  BY <1>1, PluginIsRight
<1>5. Remember(p) = IF me[p].defaultAccount = account THEN me[p].found
                    ELSE [me[p].found EXCEPT ![<<account, mode>>] = FromPlugin(p, account, mode)]
  BY DEF Remember, account, mode
<1> QED BY <1>1, <1>2, <1>3, <1>4, <1>5

\* What obtainBaseCredentials finds is what its source says, and it finds none only
\* if there are none or none that are known of.
LEMMA ObtainedIsRight ==
  ASSUME CacheInv, NEW p \in Processes, At(p, "base"), TargetAccount(p) # None,
         NEW base, base = ObtainBaseCredentials(p)
  PROVE  /\ base # NoBase =>
              /\ base \in [source : Source, key : Keys]
              /\ base.source = "plugin" => base.key = plugin[<<Wanted(p), me[p].op.mode>>]
              /\ base.source # "plugin" => base.key = ambient[p]
              /\ base.source = "incorrectDefault" <=> AccountOf[base.key] # Wanted(p)
              /\ base.source = "incorrectDefault" => plugin[<<Wanted(p), me[p].op.mode>>] = None
         /\ base = NoBase =>
              /\ me[p].defaultAccount = None
              /\ plugin[<<Wanted(p), me[p].op.mode>>] = None
<1> DEFINE account == Wanted(p)
           mode == me[p].op.mode
           default == me[p].defaultAccount
           provided == plugin[<<account, mode>>]
<1>1. account \in Accounts /\ mode \in Modes BY TargetIsWanted DEF Op
<1>2. /\ FromPlugin(p, account, mode) = provided /\ provided \in Keys \cup {None}
      /\ provided # None => AccountOf[provided] = account
  BY <1>1, PluginIsRight
<1>3. base = IF default = account THEN [source |-> "correctDefault", key |-> ambient[p]]
             ELSE IF provided # None THEN [source |-> "plugin", key |-> provided]
             ELSE IF default # None THEN [source |-> "incorrectDefault", key |-> ambient[p]]
             ELSE NoBase
  BY <1>2, TargetIsWanted DEF ObtainBaseCredentials
<1>4. default \in Accounts \cup {None}
  BY Parts DEF ProcessInv, Process, CallIsOnItsWay, At
<1>5. default # None => ambient[p] \in Keys /\ default = AccountOf[ambient[p]]
  BY <1>4, Parts DEF ProcessInv
<1>6. None \notin Accounts BY ConstantsAssumption
<1> HIDE DEF account, mode, default, provided
<1>7. /\ base # NoBase =>
           /\ base \in [source : Source, key : Keys]
           /\ base.source = "plugin" => base.key = provided
           /\ base.source # "plugin" => base.key = ambient[p]
           /\ base.source = "incorrectDefault" <=> AccountOf[base.key] # account
           /\ base.source = "incorrectDefault" => provided = None
      /\ base = NoBase => default = None /\ provided = None
  <2>1. CASE default = account BY <1>1, <1>3, <1>5, <1>6, <2>1 DEF Source, NoBase
  <2>2. CASE default # account /\ provided # None BY <1>2, <1>3, <2>2 DEF Source, NoBase
  <2>3. CASE default # account /\ provided = None /\ default # None
    BY <1>3, <1>5, <2>3 DEF Source, NoBase
  <2>4. CASE default # account /\ provided = None /\ default = None BY <1>3, <2>4 DEF NoBase
  <2> QED BY <2>1, <2>2, <2>3, <2>4
<1> QED BY <1>7 DEF account, mode, default, provided

\* The four ways on.
LEMMA Choices ==
  ASSUME CacheInv, NEW p \in Processes, Choose(p)
  PROVE  LET base == ObtainBaseCredentials(p)
             asked == [me[p] EXCEPT !.found = Remember(p)]
             done(result) == [asked EXCEPT !.pc = "idle", !.op = NoOp, !.result = result] IN
    \/ base = NoBase /\ \E result \in {Error, [kind |-> "undefined"]} : me' = [me EXCEPT ![p] = done(result)]
    \/ /\ base # NoBase /\ me[p].op.kind = "partition"
       /\ me' = [me EXCEPT ![p] = [asked EXCEPT !.pc = "get", !.base = base, !.fetching = base.key]]
    \/ /\ base # NoBase /\ me[p].op.kind # "partition" /\ me[p].op.role # None
       /\ me' = [me EXCEPT ![p] = [asked EXCEPT !.pc = "assume", !.base = base]]
    \/ base # NoBase /\ base.source = "incorrectDefault" /\ me' = [me EXCEPT ![p] = done(Error)]
    \/ /\ base # NoBase /\ base.source # "incorrectDefault"
       /\ me' = [me EXCEPT ![p] = done(Credentials(base))]
BY DEF Choose

\* Base credentials are chosen, and are what their source says.
LEMMA ChooseStep ==
  ASSUME CacheInv, NEW p \in Processes, Choose(p)
  PROVE  CacheInv'
<1> DEFINE base == ObtainBaseCredentials(p)
           found == Remember(p)
           asked == [me[p] EXCEPT !.found = found]
           done(result) == [asked EXCEPT !.pc = "idle", !.op = NoOp, !.result = result]
<1>1. ProcessInv(p) /\ FileInv /\ me \in [Processes -> Process] BY Parts
<1>2. /\ At(p, "base") /\ TargetAccount(p) # None
      /\ UNCHANGED <<ambient, plugin, file, ops, troubles>>
  BY DEF Choose, Given, Smooth
<1>3. me[p].base = NoBase /\ me[p].op \in Op
  BY <1>1, <1>2, TargetIsWanted DEF ProcessInv, CallIsOnItsWay, At
<1>4. /\ found \in [Accounts \X Modes -> Keys \cup {None, Unset}]
      /\ \A x \in Accounts \X Modes : found[x] \in {Unset, plugin[x]}
  BY <1>2, RememberIsRight
<1>5. base # NoBase =>
        /\ base \in [source : Source, key : Keys]
        /\ base.source = "plugin" => base.key = plugin[<<Wanted(p), me[p].op.mode>>]
        /\ base.source # "plugin" => base.key = ambient[p]
        /\ base.source = "incorrectDefault" <=> AccountOf[base.key] # Wanted(p)
        /\ base.source = "incorrectDefault" => plugin[<<Wanted(p), me[p].op.mode>>] = None
  BY <1>2, ObtainedIsRight
<1>6. Wanted(p) \in Accounts BY <1>2, TargetIsWanted
<1>7. \/ \E result : /\ \/ result \in {Error, [kind |-> "undefined"]}
                        \/ base # NoBase /\ result = Credentials(base)
                     /\ me' = [me EXCEPT ![p] = done(result)]
      \/ /\ base # NoBase
         /\ me' = [me EXCEPT ![p] = [asked EXCEPT !.pc = "get", !.base = base, !.fetching = base.key]]
      \/ /\ base # NoBase /\ me[p].op.role # None
         /\ me' = [me EXCEPT ![p] = [asked EXCEPT !.pc = "assume", !.base = base]]
  BY Choices
<1> HIDE DEF base, found
<1>8. ProcessInv(p)' /\ \E q : me' = [me EXCEPT ![p] = q]
  <2>1. ASSUME NEW result,
               \/ result \in {Error, [kind |-> "undefined"]}
               \/ base # NoBase /\ result = Credentials(base),
               me' = [me EXCEPT ![p] = done(result)]
        PROVE  ProcessInv(p)' /\ \E q : me' = [me EXCEPT ![p] = q]
    <3> DEFINE q == done(result)
    <3>1. result \in Result BY <1>5, <2>1 DEF Result, Error, Credentials
    <3>2. q \in Process BY <1>1, <1>4, <3>1 DEF ProcessInv, Process
    <3>3. /\ q.pc = "idle" /\ q.op = NoOp /\ q.base = NoBase /\ q.found = found /\ q.map = me[p].map
          /\ q.defaultAccount = me[p].defaultAccount /\ q.unlucky = me[p].unlucky
      BY <1>1, <1>3 DEF ProcessInv, Process
    <3>4. me'[p] = q BY <1>1, <2>1
    <3> HIDE DEF q
    <3>5. CallIsOnItsWay(p)' /\ BaseIsRight(p)' BY <3>3, <3>4 DEF CallIsOnItsWay, BaseIsRight
    <3>6. MemoryIsRight(p)' BY <1>1, <1>2, <1>4, <3>3, <3>4 DEF ProcessInv, MemoryIsRight
    <3>7. ProcessInv(p)' BY <1>1, <1>2, <3>2, <3>3, <3>4, <3>5, <3>6 DEF ProcessInv
    <3> QED BY <2>1, <3>7
  <2>2. ASSUME NEW pc \in {"get", "assume"}, NEW fetching, base # NoBase,
               pc = "assume" => me[p].op.role # None,
               fetching = IF pc = "get" THEN base.key ELSE me[p].fetching,
               me' = [me EXCEPT ![p] = [asked EXCEPT !.pc = pc, !.base = base, !.fetching = fetching]]
        PROVE  ProcessInv(p)' /\ \E q : me' = [me EXCEPT ![p] = q]
    <3> DEFINE q == [asked EXCEPT !.pc = pc, !.base = base, !.fetching = fetching]
    <3>1. fetching \in Keys \cup {None} BY <1>1, <1>5, <2>2 DEF ProcessInv, Process
    <3>2. q \in Process BY <1>1, <1>4, <1>5, <2>2, <3>1 DEF ProcessInv, Process
    <3>3. /\ q.pc = pc /\ q.op = me[p].op /\ q.base = base /\ q.found = found /\ q.map = me[p].map
          /\ q.defaultAccount = me[p].defaultAccount /\ q.unlucky = me[p].unlucky /\ q.fetching = fetching
      BY <1>1, <1>3 DEF ProcessInv, Process
    <3>4. me'[p] = q BY <1>1, <2>2
    <3> HIDE DEF q
    <3>5. me[p].op # NoOp BY <1>3 DEF Op, NoOp
    <3>6. me[p].defaultAccount # Unset BY <1>1, <1>2 DEF ProcessInv, CallIsOnItsWay, At
    <3>7. CallIsOnItsWay(p)' BY <1>5, <2>2, <3>3, <3>4, <3>5, <3>6 DEF CallIsOnItsWay
    <3>8. Wanted(p)' = Wanted(p) BY <1>2, <3>3, <3>4 DEF Wanted
    <3>9. BaseIsRight(p)' BY <1>2, <1>5, <1>6, <3>3, <3>4, <3>5, <3>8 DEF BaseIsRight
    <3>10. MemoryIsRight(p)' BY <1>1, <1>2, <1>4, <3>3, <3>4 DEF ProcessInv, MemoryIsRight
    <3>11. ProcessInv(p)' BY <1>1, <1>2, <3>2, <3>3, <3>4, <3>7, <3>9, <3>10 DEF ProcessInv
    <3> QED BY <2>2, <3>11
  <2>3. CASE /\ base # NoBase
             /\ me' = [me EXCEPT ![p] = [asked EXCEPT !.pc = "get", !.base = base, !.fetching = base.key]]
    BY <2>2, <2>3
  <2>4. CASE /\ base # NoBase /\ me[p].op.role # None
             /\ me' = [me EXCEPT ![p] = [asked EXCEPT !.pc = "assume", !.base = base]]
    <3>1. [asked EXCEPT !.pc = "assume", !.base = base]
            = [asked EXCEPT !.pc = "assume", !.base = base, !.fetching = me[p].fetching]
      BY <1>1 DEF ProcessInv, Process
    <3> QED BY <2>2, <2>4, <3>1
  <2> QED BY <1>7, <2>1, <2>3, <2>4
<1> QED BY <1>1, <1>2, <1>8, OneProcess, Parts DEF FileInv

\* The calls that end with an error or a role leave everything else.
LEMMA EndStep ==
  ASSUME CacheInv, NEW p \in Processes, NoAccount(p) \/ AssumeRole(p)
  PROVE  CacheInv'
<1>1. ProcessInv(p) /\ FileInv BY Parts
<1>2. \E result \in Result : Return(p, result)
  <2>1. CASE NoAccount(p)
    <3>1. Error \in Result BY DEF Error, Result
    <3> QED BY <2>1, <3>1 DEF NoAccount
  <2>2. CASE AssumeRole(p)
    <3>1. /\ me[p].base \in [source : Source, key : Keys] /\ me[p].op \in Op /\ me[p].op.role # None
      BY <1>1, <2>2 DEF ProcessInv, Process, CallIsOnItsWay, BaseIsRight, AssumeRole, At
    <3>2. Error \in Result /\ Credentials(me[p].base) \in Result BY <3>1 DEF Error, Credentials, Result
    <3>3. [kind |-> "role", account |-> me[p].op.role] \in Result
      BY <3>1, ConstantsAssumption DEF Op, Result
    <3> QED BY <2>2, <3>2, <3>3 DEF AssumeRole
  <2> QED BY <2>1, <2>2
<1>3. UNCHANGED <<ambient, plugin, ops, troubles, file>>
  BY DEF NoAccount, AssumeRole, Given, Smooth
<1>4. ProcessInv(p)' /\ \E q : me' = [me EXCEPT ![p] = q] BY <1>2, <1>3, ReturnStep
<1> QED BY <1>1, <1>3, <1>4, OneProcess, Parts DEF FileInv

-----------------------------------------------------------------------------
\* Nothing is known at first.
LEMMA CacheInit == Init => CacheInv
<1> SUFFICES ASSUME Init PROVE CacheInv
  OBVIOUS
<1>1. FileInv BY NoEntriesIsSound DEF Init, FileInv, File
<1>2. [kind |-> "none"] \in Result BY DEF Result
<1>3. NewProcess \in Process BY <1>2, NoEntriesIsSound DEF NewProcess, Process
<1>4. me \in [Processes -> Process] BY <1>3 DEF Init
<1>5. ASSUME NEW p \in Processes PROVE ProcessInv(p)
  <2>1. me[p] = NewProcess BY DEF Init
  <2> DEFINE q == me[p]
  <2>2. /\ q.pc = "idle" /\ q.op = NoOp /\ q.base = NoBase /\ q.map = NoEntries
        /\ q.defaultAccount = Unset /\ q.found = [x \in Accounts \X Modes |-> Unset]
    BY <2>1 DEF NewProcess
  <2>3. Unset \notin Accounts /\ Unset # None BY ConstantsAssumption
  <2>4. CallIsOnItsWay(p) /\ BaseIsRight(p) BY <2>2 DEF CallIsOnItsWay, BaseIsRight
  <2>5. MemoryIsRight(p) BY <2>2, <2>3 DEF MemoryIsRight
  <2> QED BY <1>4, <2>2, <2>3, <2>4, <2>5, NoEntriesIsSound DEF ProcessInv
<1>6. plugin \in Plugins /\ plugin \in [Accounts \X Modes -> Keys \cup {None}]
  BY ConstantsAssumption DEF Init
<1>7. ambient \in [Processes -> Keys \cup {None}] /\ ops \in 0..MaxOps /\ troubles \in 0..MaxTroubles
  BY ConstantsAssumption DEF Init
<1> QED BY <1>1, <1>4, <1>5, <1>6, <1>7, Parts

\* Every step of every process keeps the invariant.
LEMMA CacheStep == CacheInv /\ [Next]_vars => CacheInv'
<1> SUFFICES ASSUME CacheInv, [Next]_vars PROVE CacheInv'
  OBVIOUS
<1>1. ASSUME NEW p \in Processes, ProcessStep(p) PROVE CacheInv'
  BY <1>1, CallStep, ResolveDefaultStep, GetStep, AskStsStep, PutStep, OpenAndWriteStep,
     DiskFailsStep, ChooseStep, EndStep
  DEF ProcessStep
<1>2. ASSUME NEW p \in Processes, Killed(p) PROVE CacheInv' BY <1>2, KilledStep
<1>3. CASE UNCHANGED vars
  BY <1>3 DEF vars, CacheInv, TypeOK, CacheIsSound, CallIsOnItsWay, BaseIsRight, MemoryIsRight, Wanted
<1> QED BY <1>1, <1>2, <1>3 DEF Next

\* What the cache tells of a key is true and so is what every process remembers,
\* however they overwrite each other's file (account-cache.ts, lines 66-102).
THEOREM CacheInvariant == Spec => []CacheInv
BY CacheInit, CacheStep, PTL DEF Spec

-----------------------------------------------------------------------------
(* What calls return.                                                      *)

\* The two properties of an answer, for one process.
RightAnswer(p, result) ==
  /\ result.kind = "credentials" =>
       /\ AccountOf[result.key] = Wanted(p)
       /\ result.key \in {ambient[p], plugin[<<Wanted(p), me[p].op.mode>>]}
  /\ result.kind = "role" => result.account = me[p].op.role
  /\ result.kind = "partition" => result.account = AccountOf[result.key]

HasCause(p) ==
  \/ me[p].unlucky \/ troubles' # troubles
  \/ Wanted(p) = None
  \/ /\ ambient[p] = None \/ AccountOf[ambient[p]] # Wanted(p)
     /\ plugin[<<Wanted(p), me[p].op.mode>>] = None

Failures == {Error, [kind |-> "undefined"]}

GoodAnswer(p) ==
  Returns(p) => /\ RightAnswer(p, me'[p].result)
                /\ me'[p].result \in Failures => HasCause(p)

\* A step is one of one process.
LEMMA StepOfOne ==
  ASSUME NEW r, ProcessStep(r) \/ Killed(r)
  PROVE  \E q : me' = [me EXCEPT ![r] = q]
<1>1. ASSUME NEW op \in Op, Call(r, op) PROVE \E q : me' = [me EXCEPT ![r] = q]
  BY <1>1 DEF Call
<1>2. ASSUME NEW account, Resolved(r, account) PROVE \E q : me' = [me EXCEPT ![r] = q]
  BY <1>2 DEF Resolved, Return
<1>3. CASE NotResolved(r) BY <1>3 DEF NotResolved, Return
<1>4. CASE ResolveDefault(r) BY <1>3, <1>4 DEF ResolveDefault
<1>5. CASE Get(r) BY <1>2, <1>5 DEF Get, Goto
<1>6. CASE AskSts(r) BY <1>3, <1>6 DEF AskSts, Goto
<1>7. CASE Put(r) BY <1>7 DEF Put
<1>8. CASE Open(r) BY <1>2, <1>8 DEF Open, Goto
<1>9. CASE Write(r) BY <1>2, <1>9 DEF Write
<1>10. CASE DiskFails(r) BY <1>3, <1>10 DEF DiskFails
<1>11. CASE Choose(r) BY <1>11 DEF Choose
<1>12. CASE NoAccount(r) BY <1>12 DEF NoAccount, Return
<1>13. CASE AssumeRole(r) BY <1>13 DEF AssumeRole, Return
<1>14. CASE Killed(r) BY <1>14 DEF Killed
<1> QED BY <1>1, <1>4, <1>5, <1>6, <1>7, <1>8, <1>9, <1>10, <1>11, <1>12, <1>13, <1>14 DEF ProcessStep

\* A step in which the call stays what it is returns nothing.
LEMMA StaysOn ==
  ASSUME CacheInv, NEW p \in Processes, NEW q, q.op = me[p].op, me' = [me EXCEPT ![p] = q]
  PROVE  GoodAnswer(p)
<1>1. me'[p] = q BY Parts
<1> QED BY <1>1 DEF GoodAnswer, Returns

\* A failure says nothing of keys and accounts; other answers are no failures.
LEMMA Kinds ==
  ASSUME NEW p, NEW result
  PROVE  /\ result \in Failures => RightAnswer(p, result)
         /\ result.kind \in {"credentials", "role", "partition"} => result \notin Failures
<1>1. result \in Failures => result.kind \in {"error", "undefined"} BY DEF Failures, Error
<1> QED BY <1>1 DEF RightAnswer

\* The result that Return gives is the result of the call.
LEMMA ReturnIsGood ==
  ASSUME CacheInv, NEW p \in Processes, NEW result, Return(p, result),
         RightAnswer(p, result), result \in Failures => HasCause(p)
  PROVE  GoodAnswer(p)
<1>1. me[p] \in Process /\ me \in [Processes -> Process] BY Parts
<1>2. me'[p].result = result BY <1>1 DEF Return, Process
<1> QED BY <1>2 DEF GoodAnswer

\* The account of a key that was looked up is that of the partition.
LEMMA ResolvedIsGood ==
  ASSUME CacheInv, NEW p \in Processes, Resolved(p, AccountOf[me[p].fetching])
  PROVE  GoodAnswer(p)
<1>1. me[p] \in Process BY Parts DEF ProcessInv
<1>2. CASE me[p].base = NoBase
  <2> DEFINE q == [me[p] EXCEPT !.pc = "base", !.defaultAccount = AccountOf[me[p].fetching],
                                !.fetching = None]
  <2>1. q.op = me[p].op BY <1>1 DEF Process
  <2> QED BY <1>2, <2>1, StaysOn DEF Resolved
<1>3. CASE me[p].base # NoBase
  <2> DEFINE result == [kind |-> "partition", key |-> me[p].fetching,
                        account |-> AccountOf[me[p].fetching]]
  <2>1. Return(p, result) BY <1>3 DEF Resolved
  <2>2. RightAnswer(p, result) BY DEF RightAnswer
  <2>3. result \notin Failures BY Kinds
  <2> QED BY <2>1, <2>2, <2>3, ReturnIsGood
<1> QED BY <1>2, <1>3

\* Base credentials that need no role are for the account, and of a source that may
\* be gone on with.
LEMMA BaseIsGood ==
  ASSUME NEW p, NEW base, base # NoBase, base \in [source : Source, key : Keys],
         base.source = "plugin" => base.key = plugin[<<Wanted(p), me[p].op.mode>>],
         base.source # "plugin" => base.key = ambient[p],
         base.source = "incorrectDefault" <=> AccountOf[base.key] # Wanted(p),
         base.source = "incorrectDefault" => plugin[<<Wanted(p), me[p].op.mode>>] = None
  PROVE  /\ base.source # "incorrectDefault" =>
              RightAnswer(p, Credentials(base)) /\ Credentials(base) \notin Failures
         /\ base.source = "incorrectDefault" => HasCause(p)
<1>1. base.source # "incorrectDefault" => RightAnswer(p, Credentials(base))
  BY DEF RightAnswer, Credentials
<1>2. Credentials(base) \notin Failures BY DEF Credentials, Failures, Error
<1>3. base.source = "incorrectDefault" => HasCause(p) BY DEF HasCause
<1> QED BY <1>1, <1>2, <1>3

\* Choose: none are found only where there are none, or where STS did not answer.
LEMMA ChooseIsGood ==
  ASSUME CacheInv, NEW p \in Processes, Choose(p)
  PROVE  GoodAnswer(p)
<1> DEFINE base == ObtainBaseCredentials(p)
           found == Remember(p)
           asked == [me[p] EXCEPT !.found = found]
           done(result) == [asked EXCEPT !.pc = "idle", !.op = NoOp, !.result = result]
<1>1. /\ me[p] \in Process /\ me \in [Processes -> Process]
      /\ me[p].defaultAccount = None => me[p].unlucky \/ ambient[p] = None
  BY Parts DEF ProcessInv, MemoryIsRight
<1>2. At(p, "base") /\ TargetAccount(p) # None BY DEF Choose
<1>3. /\ base # NoBase =>
           /\ base \in [source : Source, key : Keys]
           /\ base.source = "plugin" => base.key = plugin[<<Wanted(p), me[p].op.mode>>]
           /\ base.source # "plugin" => base.key = ambient[p]
           /\ base.source = "incorrectDefault" <=> AccountOf[base.key] # Wanted(p)
           /\ base.source = "incorrectDefault" => plugin[<<Wanted(p), me[p].op.mode>>] = None
      /\ base = NoBase =>
           /\ me[p].defaultAccount = None
           /\ plugin[<<Wanted(p), me[p].op.mode>>] = None
  BY <1>2, ObtainedIsRight, SMTT(30)
<1>4. \/ base = NoBase /\ \E result \in Failures : me' = [me EXCEPT ![p] = done(result)]
      \/ \E pc, fetching :
           me' = [me EXCEPT ![p] = [asked EXCEPT !.pc = pc, !.base = base, !.fetching = fetching]]
      \/ me' = [me EXCEPT ![p] = [asked EXCEPT !.pc = "assume", !.base = base]]
      \/ base # NoBase /\ base.source = "incorrectDefault" /\ me' = [me EXCEPT ![p] = done(Error)]
      \/ /\ base # NoBase /\ base.source # "incorrectDefault"
         /\ me' = [me EXCEPT ![p] = done(Credentials(base))]
  BY Choices, ZenonT(40) DEF Failures
<1> HIDE DEF base, found
<1>5. ASSUME NEW result, me' = [me EXCEPT ![p] = done(result)], RightAnswer(p, result),
             result \in Failures => HasCause(p)
      PROVE  GoodAnswer(p)
  <2>1. me'[p].result = result BY <1>1, <1>5 DEF Process
  <2> QED BY <1>5, <2>1 DEF GoodAnswer
<1>6. ASSUME base = NoBase, NEW result \in Failures, me' = [me EXCEPT ![p] = done(result)]
      PROVE  GoodAnswer(p)
  <2>1. HasCause(p) BY <1>1, <1>3, <1>6 DEF HasCause
  <2> QED BY <1>5, <1>6, <2>1, Kinds
<1>7. ASSUME NEW pc, NEW fetching,
             me' = [me EXCEPT ![p] = [asked EXCEPT !.pc = pc, !.base = base, !.fetching = fetching]]
      PROVE  GoodAnswer(p)
  <2>1. [asked EXCEPT !.pc = pc, !.base = base, !.fetching = fetching].op = me[p].op BY <1>1 DEF Process
  <2> QED BY <1>7, <2>1, StaysOn
<1>8. CASE me' = [me EXCEPT ![p] = [asked EXCEPT !.pc = "assume", !.base = base]]
  <2>1. [asked EXCEPT !.pc = "assume", !.base = base].op = me[p].op BY <1>1 DEF Process
  <2> QED BY <1>8, <2>1, StaysOn
<1>9. CASE base # NoBase /\ base.source = "incorrectDefault" /\ me' = [me EXCEPT ![p] = done(Error)]
  <2>1. HasCause(p) BY <1>3, <1>9, BaseIsGood
  <2>2. RightAnswer(p, Error) BY Kinds DEF Failures
  <2> QED BY <1>5, <1>9, <2>1, <2>2
<1>10. CASE /\ base # NoBase /\ base.source # "incorrectDefault"
            /\ me' = [me EXCEPT ![p] = done(Credentials(base))]
  BY <1>3, <1>5, <1>10, BaseIsGood
<1> QED BY <1>4, <1>6, <1>7, <1>8, <1>9, <1>10

\* AssumeRole and NoAccount: a role, or base credentials that will do, or a cause.
LEMMA EndIsGood ==
  ASSUME CacheInv, NEW p \in Processes, NoAccount(p) \/ AssumeRole(p)
  PROVE  GoodAnswer(p)
<1>1. ProcessInv(p) BY Parts
<1>2. CASE NoAccount(p)
  <2>1. me[p].op \in Op BY <1>1, <1>2 DEF ProcessInv, Process, CallIsOnItsWay, NoAccount, At
  <2>2. me[p].op.account = Unknown /\ me[p].defaultAccount = None
    BY <1>2, <2>1, ConstantsAssumption DEF NoAccount, TargetAccount, Op
  <2>3. HasCause(p) BY <1>1, <2>2 DEF HasCause, Wanted, ProcessInv, MemoryIsRight
  <2>4. RightAnswer(p, Error) BY Kinds DEF Failures
  <2> QED BY <1>2, <2>3, <2>4, ReturnIsGood DEF NoAccount
<1>3. CASE AssumeRole(p)
  <2> DEFINE base == me[p].base
             role == [kind |-> "role", account |-> me[p].op.role]
  <2>1. /\ base # NoBase /\ base \in [source : Source, key : Keys]
        /\ base.source = "plugin" => base.key = plugin[<<Wanted(p), me[p].op.mode>>]
        /\ base.source # "plugin" => base.key = ambient[p]
        /\ base.source = "incorrectDefault" <=> AccountOf[base.key] # Wanted(p)
        /\ base.source = "incorrectDefault" => plugin[<<Wanted(p), me[p].op.mode>>] = None
    BY <1>1, <1>3 DEF ProcessInv, Process, CallIsOnItsWay, BaseIsRight, AssumeRole, At
  <2>2. /\ base.source # "incorrectDefault" =>
             RightAnswer(p, Credentials(base)) /\ Credentials(base) \notin Failures
        /\ base.source = "incorrectDefault" => HasCause(p)
    BY <2>1, BaseIsGood
  <2>3. GoesWithoutRole(base) <=> base.source # "incorrectDefault"
    BY <2>1 DEF GoesWithoutRole, Source
  <2>4. RightAnswer(p, role) /\ role \notin Failures
    BY Kinds DEF RightAnswer
  <2>5. RightAnswer(p, Error) BY Kinds DEF Failures
  <2> HIDE DEF base, role
  <2>6. \/ Return(p, role)
        \/ GoesWithoutRole(base) /\ Return(p, Credentials(base))
        \/ ~GoesWithoutRole(base) /\ Return(p, Error)
    BY <1>3 DEF AssumeRole, base, role
  <2> QED BY <2>2, <2>3, <2>4, <2>5, <2>6, ReturnIsGood
<1> QED BY <1>2, <1>3

\* Steps of the lookup: where STS does not answer, or the disk fails, there is trouble.
LEMMA LookupIsGood ==
  ASSUME CacheInv, NEW p \in Processes,
         ResolveDefault(p) \/ Get(p) \/ AskSts(p) \/ Put(p) \/ Open(p) \/ Write(p)
           \/ DiskFails(p)
  PROVE  GoodAnswer(p)
<1>1. ProcessInv(p) /\ FileInv /\ me[p] \in Process /\ troubles \in 0..MaxTroubles BY Parts DEF ProcessInv
<1>2. ASSUME NEW pc, Goto(p, pc) PROVE GoodAnswer(p)
  <2>1. [me[p] EXCEPT !.pc = pc].op = me[p].op BY <1>1 DEF Process
  <2> QED BY <1>2, <2>1, StaysOn DEF Goto
<1>3. ASSUME NotResolved(p), me[p].base = NoBase \/ HasCause(p) PROVE GoodAnswer(p)
  <2>1. CASE me[p].base = NoBase
    <3> DEFINE q == [me[p] EXCEPT !.pc = "base", !.defaultAccount = None, !.fetching = None,
                                  !.unlucky = ambient[p] # None]
    <3>1. q.op = me[p].op BY <1>1 DEF Process
    <3> QED BY <1>3, <2>1, <3>1, StaysOn DEF NotResolved
  <2>2. CASE me[p].base # NoBase
    <3>1. RightAnswer(p, Error) BY Kinds DEF Failures
    <3> QED BY <1>3, <2>2, <3>1, ReturnIsGood DEF NotResolved
  <2> QED BY <2>1, <2>2
<1>4. CASE ResolveDefault(p)
  <2>1. me[p].base = NoBase BY <1>1, <1>4 DEF ResolveDefault, At, ProcessInv, CallIsOnItsWay
  <2>2. Fetch(p, ambient[p]).op = me[p].op BY <1>1 DEF Process, Fetch
  <2> QED BY <1>3, <1>4, <2>1, <2>2, StaysOn DEF ResolveDefault
<1>5. CASE Get(p)
  <2>1. CASE me[p].fetching \in DOMAIN LoadMap
    <3>1. LoadMap[me[p].fetching] = AccountOf[me[p].fetching] BY <1>1, <2>1, LoadMapIsSound DEF Right
    <3> QED BY <1>5, <2>1, <3>1, ResolvedIsGood DEF Get
  <2> QED BY <1>2, <1>5, <2>1 DEF Get
<1>6. CASE AskSts(p) \/ DiskFails(p)
  <2>1. Trouble => HasCause(p) BY <1>1, ConstantsAssumption DEF Trouble, HasCause
  <2> QED BY <1>2, <1>3, <1>6, <2>1 DEF AskSts, DiskFails
<1>7. CASE Put(p)
  <2> DEFINE map == WithEntry(LoadMap, me[p].fetching, AccountOf[me[p].fetching])
             q == [me[p] EXCEPT !.pc = "open", !.map = map]
  <2>1. me' = [me EXCEPT ![p] = q] BY <1>7 DEF Put
  <2> HIDE DEF map
  <2>2. q.op = me[p].op BY <1>1 DEF Process
  <2> QED BY <2>1, <2>2, StaysOn
<1>8. CASE Open(p) BY <1>2, <1>8, ResolvedIsGood DEF Open
<1>9. CASE Write(p) BY <1>9, ResolvedIsGood DEF Write
<1> QED BY <1>4, <1>5, <1>6, <1>7, <1>8, <1>9

\* What a step returns, to whomever.
LEMMA Answers ==
  ASSUME CacheInv, [Next]_vars, NEW p \in Processes
  PROVE  GoodAnswer(p)
<1>1. me \in [Processes -> Process] BY Parts
<1>2. ASSUME NEW r \in Processes, ProcessStep(r) \/ Killed(r), r # p PROVE GoodAnswer(p)
  <2>1. me'[p] = me[p] BY <1>1, <1>2, StepOfOne
  <2> QED BY <2>1 DEF GoodAnswer, Returns
<1>3. CASE ProcessStep(p)
  <2>1. ASSUME NEW op \in Op, Call(p, op) PROVE GoodAnswer(p)
    <3>1. me'[p].op = op BY <1>1, <2>1 DEF Call, Process
    <3>2. op # NoOp BY DEF Op, NoOp
    <3> QED BY <3>1, <3>2 DEF GoodAnswer, Returns
  <2> QED BY <1>3, <2>1, LookupIsGood, ChooseIsGood, EndIsGood DEF ProcessStep
<1>4. CASE Killed(p)
  <2>1. me'[p].result.kind = "none" BY <1>1, <1>4 DEF Killed, NewProcess
  <2> QED BY <2>1 DEF GoodAnswer, Returns
<1>5. CASE UNCHANGED vars BY <1>5 DEF vars, GoodAnswer, Returns
<1> QED BY <1>2, <1>3, <1>4, <1>5 DEF Next

\* forEnvironment hands out credentials for the account asked for and of the mode asked
\* for, whatever is remembered, cached or gone on without (sdk-provider.ts, lines
\* 147-176), and baseCredentialsPartition the partition of its credentials.
THEOREM CredentialsAreForTheAccount == Spec => CredentialsAreRight
<1>1. CacheInv /\ [Next]_vars =>
        [\A p \in Processes : Returns(p) => RightAnswer(p, me'[p].result)]_vars
  BY Answers DEF GoodAnswer
<1>2. CredentialsAreRight <=>
        [][\A p \in Processes : Returns(p) => RightAnswer(p, me'[p].result)]_vars
  BY DEF CredentialsAreRight, RightAnswer
<1> QED BY <1>1, <1>2, CacheInvariant, PTL DEF Spec

\* A call fails only where there are no credentials for the account, STS did not answer
\* or the file of the cache failed (sdk-provider.ts, lines 258-286, account-cache.ts,
\* lines 78-102).
THEOREM FailuresHaveACause == Spec => FailsForCause
<1>1. CacheInv /\ [Next]_vars =>
        [\A p \in Processes : Returns(p) /\ me'[p].result \in Failures => HasCause(p)]_vars
  BY Answers DEF GoodAnswer
<1>2. FailsForCause <=>
        [][\A p \in Processes : Returns(p) /\ me'[p].result \in Failures => HasCause(p)]_vars
  BY DEF FailsForCause, HasCause, Failures
<1> QED BY <1>1, <1>2, CacheInvariant, PTL DEF Spec
=============================================================================
