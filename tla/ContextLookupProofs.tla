------------------------ MODULE ContextLookupProofs ------------------------
(***************************************************************************)
(* The synthesis loop of ContextLookup gives up only when every key still  *)
(* missing was looked up and failed, for every app, any number of keys and *)
(* any number of commands at work on the same file.  The inductive         *)
(* invariant is ContextLookup!StuckInv.  A lone command keeps the file and the *)
(* values the app is given in step: ContextLookup!CachedInv.               *)
(***************************************************************************)
EXTENDS ContextLookup, TLAPS

\* An app asks for keys.
LEMMA AppType ==
  ASSUME TypeOK, NEW c \in Commands
  PROVE  Missing(c) \subseteq Keys /\ Known(c) \subseteq Keys
<1>1. Known(c) \subseteq Keys BY ContextAssumption DEF Known
<1>2. app \in [SUBSET Keys -> SUBSET Keys] BY ContextAssumption DEF TypeOK
<1> QED BY <1>1, <1>2 DEF Missing

\* Loading the configuration keeps what it sets well typed.
LEMMA LoadType ==
  ASSUME TypeOK, NEW c \in Commands, NEW p \in {"synthesize", "forget"}, Load(c, p),
         lookups' \in [Commands -> BOOLEAN], target' \in [Commands -> SUBSET Keys]
  PROVE  TypeOK'
<1>1. app' \in Apps /\ world' \in [Keys -> Values] /\ file' \in [Keys -> Values \cup {Absent}]
  BY DEF TypeOK, Load
<1>2. pc' \in [Commands -> {"idle", "synthesize", "lookup", "save", "forget"}]
  BY DEF TypeOK, Load
<1>3. context' \in [Commands -> [Keys -> Values \cup {Absent, Failure}]]
  <2>1. file \in [Keys -> Values \cup {Absent, Failure}] BY DEF TypeOK
  <2> QED BY <2>1 DEF TypeOK, Load
<1>4. missing' \in [Commands -> SUBSET Keys] /\ todo' \in [Commands -> SUBSET Keys]
  BY DEF TypeOK, Load
<1>5. previously' \in [Commands -> (SUBSET Keys) \cup {NoKeys}]
  BY DEF TypeOK, Load
<1>6. result' \in [Commands -> {"none", "complete", "incomplete", "failed", "forgotten"}]
  BY DEF TypeOK, Load
<1> QED BY <1>1, <1>2, <1>3, <1>4, <1>5, <1>6 DEF TypeOK

\* The state stays well typed.
LEMMA TypeStep == TypeOK /\ [Next]_vars => TypeOK'
<1> SUFFICES ASSUME TypeOK, [Next]_vars PROVE TypeOK'
  OBVIOUS
<1> USE DEF TypeOK, Goto, End
<1>1. CASE WorldChanges BY <1>1 DEF WorldChanges
<1>2. ASSUME NEW c \in Commands, StartSynth(c) PROVE TypeOK'
  <2>1. Load(c, "synthesize") BY <1>2 DEF StartSynth
  <2>2. lookups' \in [Commands -> BOOLEAN] /\ target' = target BY <1>2 DEF StartSynth
  <2> QED BY <2>1, <2>2, LoadType
<1>3. ASSUME NEW c \in Commands, StartForget(c) PROVE TypeOK'
  <2>1. Load(c, "forget") BY <1>3 DEF StartForget
  <2>2. target' \in [Commands -> SUBSET Keys] /\ lookups' = lookups BY <1>3 DEF StartForget
  <2> QED BY <2>1, <2>2, LoadType
<1>4. ASSUME NEW c \in Commands, AppFails(c) PROVE TypeOK' BY <1>4 DEF AppFails
<1>5. ASSUME NEW c \in Commands, NothingMissing(c) PROVE TypeOK'
  BY <1>5 DEF NothingMissing
<1>6. ASSUME NEW c \in Commands, LookupsDisabled(c) PROVE TypeOK'
  BY <1>6, AppType DEF LookupsDisabled
<1>7. ASSUME NEW c \in Commands, GiveUp(c) PROVE TypeOK'
  BY <1>7, AppType DEF GiveUp
<1>8. ASSUME NEW c \in Commands, TryLookup(c) PROVE TypeOK'
  BY <1>8, AppType DEF TryLookup
<1>9. ASSUME NEW c \in Commands, NEW k \in Keys, Lookup(c, k) PROVE TypeOK'
  BY <1>9 DEF Lookup
<1>10. ASSUME NEW c \in Commands, UnknownProvider(c) PROVE TypeOK'
  BY <1>10 DEF UnknownProvider
<1>11. ASSUME NEW c \in Commands, Save(c) PROVE TypeOK'
  BY <1>11 DEF Save, Saved
<1>12. ASSUME NEW c \in Commands, Forget(c) PROVE TypeOK'
  <2>1. context' \in [Commands -> [Keys -> Values \cup {Absent, Failure}]]
    BY <1>12 DEF Forget
  <2>2. file' \in [Keys -> Values \cup {Absent}] BY <1>12, <2>1 DEF Forget, Saved
  <2> QED BY <1>12, <2>1, <2>2 DEF Forget
<1>13. CASE UNCHANGED vars BY <1>13 DEF vars
<1> QED
  BY <1>1, <1>2, <1>3, <1>4, <1>5, <1>6, <1>7, <1>8, <1>9, <1>10, <1>11, <1>12, <1>13
  DEF Next, Step

\* What a command tried, after a step of it.
LEMMA OwnStep ==
  ASSUME StuckInv, NEW c \in Commands, StartSynth(c) \/ StartForget(c) \/ Step(c)
  PROVE  /\ Tried(c)' /\ AllTried(c)'
         /\ result'[c] = "incomplete" =>
              missing'[c] # {} /\ \A k \in missing'[c] : context'[c][k] = Failure
<1> USE DEF StuckInv, TypeOK, Tried, AllTried, GivesUpOnlyWhenStuck, Goto, End
<1>1. CASE StartSynth(c) \/ StartForget(c)
  BY <1>1 DEF StartSynth, StartForget, Load
<1>2. CASE AppFails(c) \/ NothingMissing(c) \/ LookupsDisabled(c)
  BY <1>2 DEF AppFails, NothingMissing, LookupsDisabled
<1>3. CASE GiveUp(c)
  <2>1. missing'[c] = Missing(c) /\ Missing(c) # {} /\ Missing(c) = previously[c]
    BY <1>3 DEF GiveUp, SetsEqual
  <2>2. \A k \in Missing(c) : context[c][k] # Absent
    <3>1. pc[c] = "synthesize" /\ previously[c] # NoKeys /\ todo[c] = {}
      BY <1>3 DEF GiveUp
    <3> QED BY <2>1, <3>1
  <2>3. \A k \in Missing(c) : k \in Keys /\ context[c][k] \notin Values
    BY AppType DEF Missing, Known
  <2>4. \A k \in Missing(c) : context[c][k] = Failure BY <2>2, <2>3
  <2> QED BY <1>3, <2>1, <2>4 DEF GiveUp
<1>4. CASE TryLookup(c)
  <2>1. previously'[c] = todo'[c] /\ pc'[c] = "lookup" /\ result'[c] = "none"
    BY <1>4 DEF TryLookup
  <2> QED BY <2>1
<1>5. ASSUME NEW k \in Keys, Lookup(c, k)
      PROVE  /\ Tried(c)' /\ AllTried(c)'
             /\ result'[c] = "incomplete" =>
                  missing'[c] # {} /\ \A j \in missing'[c] : context'[c][j] = Failure
  <2>1. PICK v \in {world[k], Failure} : context' = [context EXCEPT ![c][k] = v]
    BY <1>5 DEF Lookup
  <2>2. v # Absent BY ContextAssumption
  <2>3. context'[c] = [context[c] EXCEPT ![k] = v] BY <2>1
  <2>4. /\ pc[c] = "lookup" /\ previously'[c] = previously[c]
        /\ todo'[c] = todo[c] \ {k}
        /\ pc'[c] = IF todo[c] = {k} THEN "save" ELSE "lookup"
    BY <1>5 DEF Lookup
  <2>5. Tried(c)' BY <2>2, <2>3, <2>4
  <2>6. result'[c] = "none" BY <1>5 DEF Lookup
  <2>7. pc'[c] # "lookup" => todo'[c] = {} BY <2>4
  <2> QED BY <2>5, <2>6, <2>7
<1>6. CASE UnknownProvider(c) BY <1>6 DEF UnknownProvider
<1>7. CASE Save(c) BY <1>7 DEF Save
<1>8. CASE Forget(c) BY <1>8 DEF Forget
<1> QED BY <1>1, <1>2, <1>3, <1>4, <1>5, <1>6, <1>7, <1>8 DEF Step

\* The commands do not touch each other's memory.
LEMMA OtherStep ==
  ASSUME TypeOK, NEW c \in Commands, NEW d \in Commands \ {c},
         StartSynth(c) \/ StartForget(c) \/ Step(c)
  PROVE  /\ pc'[d] = pc[d] /\ context'[d] = context[d] /\ previously'[d] = previously[d]
         /\ todo'[d] = todo[d] /\ missing'[d] = missing[d] /\ result'[d] = result[d]
BY DEF TypeOK, StartSynth, StartForget, Load, Step, AppFails, NothingMissing, LookupsDisabled,
       GiveUp, TryLookup, Lookup, UnknownProvider, Save, Forget, Goto, End

\* StuckInv holds at the start and every step keeps it.
THEOREM StuckInvariant == Spec => []StuckInv
<1>1. Init => StuckInv
  <2> SUFFICES ASSUME Init PROVE StuckInv
    OBVIOUS
  <2>1. TypeOK
    <3>1. file \in [Keys -> Values \cup {Absent}] BY DEF Init
    <3>2. context \in [Commands -> [Keys -> Values \cup {Absent, Failure}]]
      BY DEF Init
    <3> QED BY <3>1, <3>2 DEF Init, TypeOK
  <2>2. GivesUpOnlyWhenStuck /\ \A c \in Commands : Tried(c) /\ AllTried(c)
    BY DEF Init, GivesUpOnlyWhenStuck, Tried, AllTried
  <2> QED BY <2>1, <2>2 DEF StuckInv
<1>2. StuckInv /\ [Next]_vars => StuckInv'
  <2> SUFFICES ASSUME StuckInv, [Next]_vars PROVE StuckInv'
    OBVIOUS
  <2>1. TypeOK /\ TypeOK' BY TypeStep DEF StuckInv
  <2>2. ASSUME NEW c \in Commands, StartSynth(c) \/ StartForget(c) \/ Step(c)
        PROVE  StuckInv'
    <3> SUFFICES ASSUME NEW d \in Commands
                 PROVE  /\ Tried(d)' /\ AllTried(d)'
                        /\ result'[d] = "incomplete" =>
                             missing'[d] # {} /\ \A k \in missing'[d] : context'[d][k] = Failure
      BY <2>1 DEF StuckInv, GivesUpOnlyWhenStuck
    <3>1. CASE d = c BY <2>2, <3>1, OwnStep
    <3>2. CASE d # c
      BY <2>1, <2>2, <3>2, OtherStep DEF StuckInv, GivesUpOnlyWhenStuck, Tried, AllTried
    <3> QED BY <3>1, <3>2
  <2>3. CASE WorldChanges
    BY <2>1, <2>3 DEF WorldChanges, StuckInv, GivesUpOnlyWhenStuck, Tried, AllTried
  <2>4. CASE UNCHANGED vars
    BY <2>1, <2>4 DEF vars, StuckInv, GivesUpOnlyWhenStuck, Tried, AllTried
  <2> QED BY <2>2, <2>3, <2>4 DEF Next
<1> QED BY <1>1, <1>2, PTL DEF Spec

\* The loop gives up only when there is nothing left to try.
THEOREM GivesUpRightly == Spec => []GivesUpOnlyWhenStuck
<1>1. StuckInv => GivesUpOnlyWhenStuck BY DEF StuckInv
<1> QED BY <1>1, StuckInvariant, PTL

-----------------------------------------------------------------------------
(* One command at a time: what is cached.                                  *)

\* Transient values are stripped from what is written, and only those.
LEMMA SavedValues ==
  ASSUME NEW m \in [Keys -> Values \cup {Absent, Failure}]
  PROVE  /\ Saved(m) \in [Keys -> Values \cup {Absent}]
         /\ \A k \in Keys : Saved(m)[k] # Absent => Saved(m)[k] = m[k] /\ m[k] \in Values
         /\ \A k \in Keys : m[k] # Failure => Saved(m)[k] = m[k]
         /\ m \in [Keys -> Values \cup {Absent}] => Saved(m) = m
BY ContextAssumption DEF Saved

\* A command that has the file in memory still has it after each of its steps.
LEMMA OwnStepHasFile ==
  ASSUME StuckInv, NEW c \in Commands, HasFile(c), StartSynth(c) \/ StartForget(c) \/ Step(c)
  PROVE  HasFile(c)'
<1>t. TypeOK /\ AllTried(c)
  BY DEF StuckInv
<1>c. context[c] \in [Keys -> Values \cup {Absent, Failure}] /\ file \in [Keys -> Values \cup {Absent}]
  BY <1>t DEF TypeOK
<1>1. CASE StartSynth(c) \/ StartForget(c)
  <2>1. /\ pc'[c] \in {"synthesize", "forget"} /\ context'[c] = file /\ file' = file
    BY <1>1, <1>t DEF StartSynth, StartForget, Load, TypeOK
  <2>2. Saved(file) = file
    BY <1>c, SavedValues
  <2>3. Saved(context[c])' = file
    BY <2>1, <2>2 DEF Saved
  <2> QED BY <2>1, <2>3 DEF HasFile
<1>2. CASE AppFails(c) \/ NothingMissing(c) \/ LookupsDisabled(c) \/ GiveUp(c)
  <2>1. pc[c] = "synthesize" /\ pc'[c] = "idle" /\ UNCHANGED <<file, context>>
    BY <1>2, <1>t DEF AppFails, NothingMissing, LookupsDisabled, GiveUp, End, TypeOK
  <2> QED BY <2>1 DEF HasFile, Saved
<1>3. CASE TryLookup(c)
  <2>1. /\ pc[c] = "synthesize" /\ pc'[c] = "lookup" /\ UNCHANGED <<file, context, result>>
        /\ todo'[c] = Missing(c)
    BY <1>3, <1>t DEF TryLookup, Goto, TypeOK
  <2>2. result'[c] = "none"
    BY <1>t, <2>1 DEF AllTried
  <2>3. ASSUME NEW k \in Keys, file[k] # Absent
        PROVE  context[c][k] = file[k] /\ k \notin Missing(c)
    <3>1. file = Saved(context[c])
      BY <2>1 DEF HasFile
    <3>2. context[c][k] = file[k] /\ context[c][k] \in Values
      BY <1>c, <2>3, <3>1, SavedValues
    <3> QED BY <3>2 DEF Missing, Known
  <2> QED BY <2>1, <2>2, <2>3 DEF HasFile
<1>4. ASSUME NEW k \in Keys, Lookup(c, k) PROVE HasFile(c)'
  <2>1. PICK v \in {world[k], Failure} : context' = [context EXCEPT ![c][k] = v]
    BY <1>4 DEF Lookup
  <2>2. context'[c] = [context[c] EXCEPT ![k] = v]
    BY <1>t, <2>1 DEF TypeOK
  <2>3. /\ pc[c] = "lookup" /\ pc'[c] \in {"lookup", "save"} /\ k \in todo[c]
        /\ todo'[c] = todo[c] \ {k} /\ UNCHANGED <<file, result>>
    BY <1>4, <1>t DEF Lookup, Goto, TypeOK
  <2>4. result'[c] = "none"
    BY <1>t, <2>3 DEF AllTried
  <2>5. ASSUME NEW j \in Keys, file[j] # Absent
        PROVE  context'[c][j] = file[j] /\ j \notin todo'[c]
    <3>1. context[c][j] = file[j] /\ j \notin todo[c]
      BY <2>3, <2>5 DEF HasFile
    <3> QED BY <1>c, <2>2, <2>3, <3>1
  <2> QED BY <2>3, <2>4, <2>5 DEF HasFile
<1>5. CASE UnknownProvider(c)
  <2>1. pc'[c] = "idle" /\ result'[c] = "failed"
    BY <1>5, <1>t DEF UnknownProvider, End, TypeOK
  <2> QED BY <2>1 DEF HasFile
<1>6. CASE Save(c)
  <2>1. /\ pc[c] = "save" /\ pc'[c] = "synthesize" /\ file' = Saved(context[c])
        /\ UNCHANGED context
    BY <1>6, <1>t DEF Save, Goto, TypeOK
  <2> QED BY <2>1 DEF HasFile, Saved
<1>7. CASE Forget(c)
  <2>1. pc'[c] = "idle" /\ result'[c] = "forgotten"
    BY <1>7, <1>t DEF Forget, End, TypeOK
  <2> QED BY <2>1 DEF HasFile
<1> QED BY <1>1, <1>2, <1>3, <1>4, <1>5, <1>6, <1>7 DEF Step

\* CachedInv holds throughout.
LEMMA CachedInvariant == Spec => []CachedInv
<1>1. Init => CachedInv
  <2> SUFFICES ASSUME Init, NEW c \in Commands PROVE HasFile(c)
    BY DEF CachedInv
  <2>1. pc[c] = "idle" /\ result[c] = "none"
    BY DEF Init
  <2> QED BY <2>1 DEF HasFile
<1>2. StuckInv /\ CachedInv /\ [Next]_vars => CachedInv'
  <2> SUFFICES ASSUME StuckInv, Alone, \A c \in Commands : HasFile(c), [Next]_vars,
                      NEW d \in Commands
               PROVE  HasFile(d)'
    BY DEF CachedInv, Alone
  <2>1. ASSUME NEW c \in Commands, StartSynth(c) \/ StartForget(c) \/ Step(c)
        PROVE  HasFile(d)'
    <3>1. c = d
      BY DEF Alone
    <3> QED BY <2>1, <3>1, OwnStepHasFile
  <2>2. CASE WorldChanges \/ UNCHANGED vars
    BY <2>2 DEF WorldChanges, vars, HasFile, Saved
  <2> QED BY <2>1, <2>2 DEF Next
<1> QED BY <1>1, <1>2, StuckInvariant, PTL DEF Spec

\* For every app: after a synthesis by a lone command that was not cut short, the
\* file holds every value the app was given, and no failure.
THEOREM SynthesisCached == Spec => []SynthesisIsCached
<1>1. CachedInv => SynthesisIsCached
  BY DEF CachedInv, HasFile, SynthesisIsCached
<1> QED BY <1>1, CachedInvariant, PTL

\* A value in the file stays the same until a lone command resets it: synthesis
\* never replaces it, whatever the environment does meanwhile.
THEOREM CachedStays == Spec => CachedValuesStay
<1>1. StuckInv /\ CachedInv /\ [Next]_vars =>
        [Alone => \A k \in Keys : file[k] # Absent /\ file'[k] # file[k] =>
           \E c \in Commands : pc[c] = "forget" /\ k \in target[c]]_vars
  <2> SUFFICES ASSUME StuckInv, \A c \in Commands : HasFile(c), [Next]_vars,
                      NEW k \in Keys, file[k] # Absent, file'[k] # file[k]
               PROVE  \E c \in Commands : pc[c] = "forget" /\ k \in target[c]
    BY DEF CachedInv
  <2>t. TypeOK
    BY DEF StuckInv
  <2>1. PICK c \in Commands : Save(c) \/ Forget(c)
    BY DEF Next, vars, WorldChanges, StartSynth, StartForget, Load, Step, AppFails,
           NothingMissing, LookupsDisabled, GiveUp, TryLookup, Lookup, UnknownProvider
  <2>c. context[c] \in [Keys -> Values \cup {Absent, Failure}] /\ file[k] \in Values
    BY <2>t DEF TypeOK
  <2>2. CASE Save(c)
    <3>1. file' = Saved(context[c]) /\ context[c][k] = file[k]
      BY <2>2 DEF Save, HasFile
    <3>2. context[c][k] # Failure
      BY <2>c, <3>1, ContextAssumption
    <3>3. Saved(context[c])[k] = context[c][k]
      BY <2>c, <3>2, SavedValues
    <3> QED BY <3>1, <3>3
  <2>3. CASE Forget(c)
    <3>1. pc[c] = "forget" /\ file = Saved(context[c])
      BY <2>3 DEF Forget, HasFile
    <3>2. ASSUME k \notin target[c] PROVE FALSE
      <4>1. context'[c][k] = context[c][k] /\ file' = Saved(context'[c])
        BY <2>3, <2>t, <3>2 DEF Forget, TypeOK
      <4>2. file'[k] = file[k]
        BY <3>1, <4>1 DEF Saved
      <4> QED BY <4>2
    <3> QED BY <3>1, <3>2
  <2> QED BY <2>1, <2>2, <2>3
<1> QED BY <1>1, StuckInvariant, CachedInvariant, PTL DEF Spec, CachedValuesStay

=============================================================================
