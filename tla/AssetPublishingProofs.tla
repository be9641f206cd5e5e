------------------------ MODULE AssetPublishingProofs -----------------------
(***************************************************************************)
(* When a publisher of AssetPublishing is done, every entry it has been    *)
(* through is at its destination or among the failures: for every          *)
(* manifest, any number of publishers in one directory, aborted, killed    *)
(* and run again.  The inductive invariant is AssetPublishing!AccountInv.  *)
(* What a lone publisher uploads is the whole asset, once:                 *)
(* AssetPublishing!RequiredInv.                                            *)
(***************************************************************************)
EXTENDS AssetPublishing, TLAPS

\* The publisher is at an entry of the manifest whenever a handler is at work.
LEMMA CurrentType ==
  ASSUME TypeOK, NEW p \in Publishers, index[p] \in 1..Len(manifest[p])
  PROVE  Current(p) \in Entry /\ Asset(p) \in Assets
<1>1. manifest[p] \in Seq(Entry) BY DEF TypeOK
<1>2. Current(p) \in Entry BY <1>1 DEF Current
<1> QED BY <1>2 DEF Asset, Entry

\* Dealing with an entry keeps what the publisher knows well typed.
LEMMA NextEntryType ==
  ASSUME TypeOK, NEW p \in Publishers, NEW failed \in BOOLEAN, NextEntry(p, failed),
         UNCHANGED <<cache, store>>, mishap' \in [Assets -> {"none", "interrupted", "unreadable"}]
  PROVE  TypeOK'
<1>1. index' \in [Publishers -> Nat \ {0}] BY DEF TypeOK, NextEntry
<1>2. failures' \in [Publishers -> SUBSET Nat] BY DEF TypeOK, NextEntry
<1>3. pc' \in [Publishers -> {"idle", "begin", "look", "package", "open", "zip", "stuck",
                              "build", "upload", "handled"}]
  BY DEF TypeOK, NextEntry, Goto
<1> QED BY <1>1, <1>2, <1>3 DEF TypeOK, NextEntry

\* The state stays well typed.
LEMMA TypeStep == AccountInv /\ [Next]_vars => TypeOK'
<1> SUFFICES ASSUME AccountInv, [Next]_vars PROVE TypeOK'
  OBVIOUS
<1>t. TypeOK BY DEF AccountInv
<1>1. ASSUME NEW p \in Publishers, Start(p) PROVE TypeOK'
  <2>1. manifest' \in [Publishers -> Seq(Entry)]
    BY <1>1, <1>t, AssetsAssumption DEF TypeOK, Start
  <2>2. index' \in [Publishers -> Nat \ {0}] BY <1>1, <1>t DEF TypeOK, Start
  <2>3. failures' \in [Publishers -> SUBSET Nat] BY <1>1, <1>t DEF TypeOK, Start
  <2> QED BY <1>1, <1>t, <2>1, <2>2, <2>3 DEF TypeOK, Start, Goto
<1>2. ASSUME NEW p \in Publishers, Begin(p) PROVE TypeOK'
  BY <1>2, <1>t DEF TypeOK, Begin, Goto, run
<1>3. ASSUME NEW p \in Publishers, Finish(p) PROVE TypeOK'
  BY <1>3, <1>t DEF TypeOK, Finish, Goto
<1>4. ASSUME NEW p \in Publishers, Handled(p) PROVE TypeOK'
  <2>1. aborted[p] \in BOOLEAN BY <1>t DEF TypeOK
  <2>2. mishap' \in [Assets -> {"none", "interrupted", "unreadable"}]
    BY <1>4, <1>t DEF TypeOK, Handled
  <2> QED BY <1>4, <1>t, <2>1, <2>2, NextEntryType DEF Handled
<1>5. ASSUME NEW p \in Publishers, Fails(p) \/ ZipFails(p) PROVE TypeOK'
  <2>1. mishap' \in [Assets -> {"none", "interrupted", "unreadable"}]
    BY <1>5, <1>t DEF TypeOK, Fails, ZipFails
  <2> QED BY <1>5, <1>t, <2>1, NextEntryType DEF Fails, ZipFails
<1>6. ASSUME NEW p \in Publishers, Look(p) \/ Package(p) \/ ZipBreaks(p) PROVE TypeOK'
  <2>1. pc' \in [Publishers -> {"idle", "begin", "look", "package", "open", "zip", "stuck",
                                "build", "upload", "handled"}]
    <3>1. CASE Look(p) BY <3>1, <1>t DEF TypeOK, Look, Goto
    <3>2. CASE Package(p) BY <3>2, <1>t DEF TypeOK, Package, Goto
    <3>3. CASE ZipBreaks(p) BY <3>3, <1>t DEF TypeOK, ZipBreaks, Goto
    <3> QED BY <1>6, <3>1, <3>2, <3>3
  <2>2. mishap' \in [Assets -> {"none", "interrupted", "unreadable"}]
    BY <1>6, <1>t DEF TypeOK, Look, Package, ZipBreaks
  <2> QED BY <1>6, <1>t, <2>1, <2>2 DEF TypeOK, Look, Package, ZipBreaks, run
<1>7. ASSUME NEW p \in Publishers, OpenZip(p) \/ CloseZip(p) \/ Build(p) PROVE TypeOK'
  <2>1. cache' \in [Assets -> {"absent", "whole"} \cup Publishers]
    BY <1>7, <1>t DEF TypeOK, OpenZip, CloseZip, Build
  <2>2. pc' \in [Publishers -> {"idle", "begin", "look", "package", "open", "zip", "stuck",
                                "build", "upload", "handled"}]
    <3>1. CASE OpenZip(p) BY <3>1, <1>t DEF TypeOK, OpenZip, Goto
    <3>2. CASE CloseZip(p) BY <3>2, <1>t DEF TypeOK, CloseZip, Goto
    <3>3. CASE Build(p) BY <3>3, <1>t DEF TypeOK, Build, Goto
    <3> QED BY <1>7, <3>1, <3>2, <3>3
  <2> QED BY <1>7, <1>t, <2>1, <2>2 DEF TypeOK, OpenZip, CloseZip, Build, run
<1>8. ASSUME NEW p \in Publishers, Upload(p) PROVE TypeOK'
  <2>1. Content(p) \in {"partial", "whole"} BY DEF Content
  <2>2. store' \in [Entry -> {"absent", "partial", "whole"}]
    BY <1>8, <1>t, <2>1 DEF TypeOK, Upload
  <2>3. pc' \in [Publishers -> {"idle", "begin", "look", "package", "open", "zip", "stuck",
                                "build", "upload", "handled"}]
    BY <1>8, <1>t DEF TypeOK, Upload, Goto
  <2> QED BY <1>8, <1>t, <2>2, <2>3 DEF TypeOK, Upload, run
<1>9. ASSUME NEW p \in Publishers, Abort(p) PROVE TypeOK' BY <1>9, <1>t DEF TypeOK, Abort
<1>10. ASSUME NEW p \in Publishers, Killed(p) PROVE TypeOK'
  BY <1>10, <1>t DEF TypeOK, Killed, Goto
<1>11. CASE UNCHANGED vars BY <1>11, <1>t DEF TypeOK, vars, run
<1> QED
  BY <1>1, <1>2, <1>3, <1>4, <1>5, <1>6, <1>7, <1>8, <1>9, <1>10, <1>11
  DEF Next, Step, HandlerStep

\* Nothing is ever taken away from a destination.
LEMMA StoreGrows ==
  ASSUME TypeOK, [Next]_vars, NEW e \in Entry, store[e] # "absent"
  PROVE  store'[e] # "absent"
<1>1. ASSUME NEW p \in Publishers, Upload(p) PROVE store'[e] # "absent"
  <2>1. Content(p) \in {"partial", "whole"} BY DEF Content
  <2> QED BY <1>1, <2>1 DEF TypeOK, Upload
<1>2. ASSUME NEW p \in Publishers,
             Start(p) \/ Begin(p) \/ Finish(p) \/ Handled(p) \/ Abort(p) \/ Killed(p)
      PROVE  store' = store
  BY <1>2 DEF Start, Begin, Finish, Handled, Abort, Killed
<1>3. ASSUME NEW p \in Publishers,
             \/ Look(p) \/ Package(p) \/ OpenZip(p) \/ CloseZip(p) \/ ZipFails(p)
             \/ ZipBreaks(p) \/ Build(p) \/ Fails(p)
      PROVE  store' = store
  BY <1>3 DEF Look, Package, OpenZip, CloseZip, ZipFails, ZipBreaks, Build, Fails
<1>4. CASE UNCHANGED vars BY <1>4 DEF vars
<1> QED BY <1>1, <1>2, <1>3, <1>4 DEF Next, Step, HandlerStep

\* What a publisher has achieved is not undone by the others.
LEMMA OthersStep ==
  ASSUME AccountInv, [Next]_vars, NEW p \in Publishers,
         manifest'[p] = manifest[p], pc'[p] = pc[p], index'[p] = index[p],
         aborted'[p] = aborted[p], failures'[p] = failures[p], result'[p] = result[p]
  PROVE  Progress(p)'
<1>t. TypeOK /\ Progress(p) BY DEF AccountInv
<1>m. \A i \in 1..Len(manifest[p]) : manifest[p][i] \in Entry BY <1>t DEF TypeOK
<1>1. \A i \in 1..Len(manifest[p]) :
        store[manifest[p][i]] # "absent" => store'[manifest[p][i]] # "absent"
  BY <1>t, <1>m, StoreGrows
<1> QED BY <1>t, <1>1 DEF Progress, Current

\* Every entry up to the current one is accounted for once the current one is.
LEMMA NextEntryCounts ==
  ASSUME TypeOK, NEW p \in Publishers, NEW failed \in BOOLEAN, NextEntry(p, failed),
         store' = store, Progress(p), result[p] \notin {"published", "failed"},
         failed \/ (index[p] \in 1..Len(manifest[p]) => store[Current(p)] # "absent")
  PROVE  Progress(p)'
<1>1. index'[p] = index[p] + 1 /\ index[p] \in Nat \ {0} BY DEF TypeOK, NextEntry
<1>2. pc'[p] = "begin" BY DEF TypeOK, NextEntry, Goto
<1>3. failures[p] \subseteq failures'[p] /\ (failed => index[p] \in failures'[p])
  BY DEF TypeOK, NextEntry
<1>4. manifest' = manifest /\ result' = result BY DEF NextEntry
<1>5. ASSUME NEW i \in 1..Len(manifest[p]), i < index[p] + 1
      PROVE  store[manifest[p][i]] # "absent" \/ i \in failures'[p]
  <2>1. CASE i < index[p] BY <2>1, <1>3 DEF Progress
  <2>2. CASE i = index[p] BY <2>2, <1>3 DEF Current
  <2> QED BY <1>1, <1>5, <2>1, <2>2
<1>6. Progress(p)!1'
  BY <1>1, <1>4, <1>5
<1> QED BY <1>2, <1>4, <1>6 DEF Progress

\* A step of a publisher keeps account of its entries.
LEMMA OwnStep ==
  ASSUME AccountInv, [Next]_vars, NEW p \in Publishers,
         Start(p) \/ Step(p) \/ Abort(p) \/ Killed(p)
  PROVE  Progress(p)'
<1>t. TypeOK /\ Progress(p) BY DEF AccountInv
<1>m. \A i \in 1..Len(manifest[p]) : manifest[p][i] \in Entry BY <1>t DEF TypeOK
<1>g. \A i \in 1..Len(manifest[p]) :
        store[manifest[p][i]] # "absent" => store'[manifest[p][i]] # "absent"
  BY <1>t, <1>m, StoreGrows
<1>d. pc[p] # "idle" => result[p] \notin {"published", "failed"} BY <1>t DEF Progress
<1>1. CASE Start(p)
  <2>1. pc'[p] = "begin" /\ index'[p] = 1 /\ result'[p] = "none"
    BY <1>1, <1>t DEF TypeOK, Start, Goto
  <2>2. \A i \in 1..Len(manifest'[p]) : ~(i < index'[p]) BY <2>1
  <2> QED BY <2>1, <2>2 DEF Progress
<1>2. CASE Begin(p)
  <2>1. pc'[p] = "look" /\ UNCHANGED <<store, run>> BY <1>2, <1>t DEF TypeOK, Begin, Goto
  <2>2. index[p] \in 1..Len(manifest[p])
    BY <1>2, <1>t DEF TypeOK, Begin
  <2> QED BY <1>2, <1>t, <1>d, <2>1, <2>2 DEF Progress, Begin, run
<1>3. CASE Finish(p)
  <2>1. pc'[p] = "idle" /\ UNCHANGED <<store, manifest, index, aborted, failures>>
    BY <1>3, <1>t DEF TypeOK, Finish, Goto
  <2>2. result'[p] = "published" => failures[p] = {} BY <1>3, <1>t DEF TypeOK, Finish
  <2> QED BY <1>3, <1>t, <2>1, <2>2 DEF Progress, Finish
<1>4. CASE Handled(p)
  <2>1. aborted[p] \in BOOLEAN BY <1>t DEF TypeOK
  <2>2. NextEntry(p, aborted[p]) /\ store' = store /\ pc[p] = "handled" BY <1>4 DEF Handled
  <2>3. aborted[p] \/ (index[p] \in 1..Len(manifest[p]) => store[Current(p)] # "absent")
    BY <1>t, <2>2 DEF Progress
  <2>4. result[p] \notin {"published", "failed"} BY <2>2, <1>d
  <2> QED BY <1>t, <2>1, <2>2, <2>3, <2>4, NextEntryCounts
<1>5. CASE Fails(p) \/ ZipFails(p)
  <2>1. NextEntry(p, TRUE) /\ store' = store BY <1>5 DEF Fails, ZipFails
  <2>2. result[p] \notin {"published", "failed"} BY <1>5, <1>d DEF Fails, ZipFails
  <2> QED BY <1>t, <2>1, <2>2, NextEntryCounts
<1>6. CASE Look(p)
  <2>1. pc[p] = "look" /\ UNCHANGED <<store, run>> BY <1>6 DEF Look
  <2>2. \/ pc'[p] = "package"
        \/ pc'[p] = "handled" /\ (store[Current(p)] # "absent" \/ aborted[p])
    BY <1>6, <1>t DEF TypeOK, Look, Goto
  <2> QED BY <1>t, <1>d, <2>1, <2>2 DEF Progress, Current, run
<1>7. CASE Package(p)
  <2>1. pc[p] = "package" /\ UNCHANGED <<store, run>> BY <1>7 DEF Package
  <2>2. pc'[p] \in {"upload", "open", "build"} \/ (pc'[p] = "handled" /\ aborted[p])
    BY <1>7, <1>t DEF TypeOK, Package, Goto
  <2> QED BY <1>t, <1>d, <2>1, <2>2 DEF Progress, Current, run
<1>8. CASE OpenZip(p) \/ CloseZip(p) \/ ZipBreaks(p) \/ Build(p)
  <2>1. pc[p] \in {"open", "zip", "build"} /\ UNCHANGED <<store, run>>
    BY <1>8 DEF OpenZip, CloseZip, ZipBreaks, Build
  <2>2. pc'[p] \in {"zip", "upload", "stuck"}
    BY <1>8, <1>t DEF TypeOK, OpenZip, CloseZip, ZipBreaks, Build, Goto
  <2> QED BY <1>t, <1>d, <2>1, <2>2 DEF Progress, Current, run
<1>9. CASE Upload(p)
  <2>1. pc[p] = "upload" /\ pc'[p] = "handled" /\ UNCHANGED run
    BY <1>9, <1>t DEF TypeOK, Upload, Goto
  <2>2. index[p] \in 1..Len(manifest[p]) BY <1>t, <2>1 DEF Progress
  <2>3. Current(p) \in Entry BY <1>t, <2>2, CurrentType
  <2>4. Content(p) \in {"partial", "whole"} BY DEF Content
  <2>5. aborted[p] \/ store'[Current(p)] # "absent"
    BY <1>9, <1>t, <2>3, <2>4 DEF TypeOK, Upload
  <2> QED BY <1>t, <1>d, <1>g, <2>1, <2>2, <2>5 DEF Progress, Current, run
<1>10. CASE Abort(p)
  <2>1. aborted'[p] = TRUE /\ UNCHANGED <<store, manifest, pc, index, failures, result>>
    BY <1>10, <1>t DEF TypeOK, Abort
  <2> QED BY <1>t, <2>1 DEF Progress
<1>11. CASE Killed(p)
  <2>1. pc'[p] = "idle" /\ result'[p] = "killed" BY <1>11, <1>t DEF TypeOK, Killed, Goto
  <2>2. UNCHANGED <<store, manifest, index, aborted, failures>> BY <1>11 DEF Killed
  <2> QED BY <1>t, <2>1, <2>2 DEF Progress
<1> QED
  BY <1>1, <1>2, <1>3, <1>4, <1>5, <1>6, <1>7, <1>8, <1>9, <1>10, <1>11
  DEF Step, HandlerStep

\* What a step of one publisher leaves of the others.
LEMMA StepOfOne ==
  ASSUME TypeOK, NEW p \in Publishers, NEW q \in Publishers, p # q,
         Start(q) \/ Step(q) \/ Abort(q) \/ Killed(q)
  PROVE  /\ manifest'[p] = manifest[p] /\ pc'[p] = pc[p] /\ index'[p] = index[p]
         /\ aborted'[p] = aborted[p] /\ failures'[p] = failures[p] /\ result'[p] = result[p]
<1> USE DEF TypeOK, Goto
<1>1. CASE Start(q) BY <1>1 DEF Start
<1>2. CASE Begin(q) BY <1>2 DEF Begin, run
<1>3. CASE Finish(q) BY <1>3 DEF Finish
<1>4. CASE Handled(q) BY <1>4 DEF Handled, NextEntry
<1>5. CASE Fails(q) \/ ZipFails(q) BY <1>5 DEF Fails, ZipFails, NextEntry
<1>6. CASE Look(q) \/ Package(q) \/ ZipBreaks(q) BY <1>6 DEF Look, Package, ZipBreaks, run
<1>7. CASE OpenZip(q) \/ CloseZip(q) \/ Build(q) BY <1>7 DEF OpenZip, CloseZip, Build, run
<1>8. CASE Upload(q) BY <1>8 DEF Upload, run
<1>9. CASE Abort(q) BY <1>9 DEF Abort
<1>10. CASE Killed(q) BY <1>10 DEF Killed
<1> QED
  BY <1>1, <1>2, <1>3, <1>4, <1>5, <1>6, <1>7, <1>8, <1>9, <1>10 DEF Step, HandlerStep

\* The account of every publisher is kept.
LEMMA AccountStep == AccountInv /\ [Next]_vars => AccountInv'
<1> SUFFICES ASSUME AccountInv, [Next]_vars PROVE AccountInv'
  OBVIOUS
<1>1. TypeOK' BY TypeStep
<1>2. ASSUME NEW p \in Publishers PROVE Progress(p)'
  <2>1. CASE UNCHANGED vars BY <2>1, OthersStep DEF vars, run
  <2>2. ASSUME NEW q \in Publishers, Start(q) \/ Step(q) \/ Abort(q) \/ Killed(q)
        PROVE  Progress(p)'
    <3>1. CASE p = q BY <2>2, <3>1, OwnStep
    <3>2. CASE p # q
      <4>1. TypeOK BY DEF AccountInv
      <4> QED BY <2>2, <3>2, <4>1, StepOfOne, OthersStep
    <3> QED BY <3>1, <3>2
  <2> QED BY <2>1, <2>2 DEF Next
<1> QED BY <1>1, <1>2 DEF AccountInv

\* Nothing is done in the beginning.
LEMMA AccountInit == Init => AccountInv
<1> SUFFICES ASSUME Init PROVE AccountInv
  OBVIOUS
<1>1. TypeOK BY DEF TypeOK, Init, Entry
<1>2. ASSUME NEW p \in Publishers PROVE Progress(p)
  BY DEF Progress, Init
<1> QED BY <1>1, <1>2 DEF AccountInv

\* AccountInv holds throughout.
THEOREM Accounts == Spec => []AccountInv
<1> QED BY AccountInit, AccountStep, PTL DEF Spec

\* Every reachable state of any number of publishers is well typed
\* (publishing.ts, lines 42-62).
THEOREM PublishersTypeCorrect == Spec => []TypeOK
<1>1. AccountInv => TypeOK BY DEF AccountInv
<1> QED BY Accounts, <1>1, PTL

\* When publish() is over its entries are at their destinations or among the
\* failures, and it has been through all of them unless it was aborted
\* (publishing.ts, lines 67-100).
THEOREM EntriesAccounted == Spec => []EntriesAreAccountedFor
<1>1. AccountInv => EntriesAreAccountedFor
  BY DEF AccountInv, Progress, EntriesAreAccountedFor
<1> QED BY Accounts, <1>1, PTL

-----------------------------------------------------------------------------
(* One publisher at a time: what is published.                             *)

\* Where a publisher has nothing in hand, nothing is required of it.
NothingInHand == {"idle", "begin", "look", "handled"}

\* A step that leaves cache, destinations and mishaps as they are, and the publisher
\* with nothing in hand, keeps what is required.
LEMMA PutsDown ==
  ASSUME AccountInv, RequiredInv, NEW p \in Publishers, Alone, UNCHANGED <<cache, store, mishap>>,
         pc[p] # "zip", pc'[p] \in NothingInHand
  PROVE  RequiredInv'
<1>1. ZipInv(p)
  BY DEF RequiredInv
<1>2. UndisturbedIsWhole'
  BY DEF RequiredInv, PublishedAsRequired, UndisturbedIsWhole
<1>3. \A q \in Publishers : q = p
  BY DEF Alone
<1>4. FoundIsNotPackaged' /\ ZipInv(p)'
  BY <1>1, <1>3 DEF FoundIsNotPackaged, ZipInv, NothingInHand
<1> QED BY <1>2, <1>3, <1>4 DEF RequiredInv, PublishedAsRequired

\* The same for one that was writing a zip file and notes what befell it.
LEMMA LeavesZip ==
  ASSUME AccountInv, RequiredInv, NEW p \in Publishers, Alone, UNCHANGED <<cache, store>>,
         pc[p] = "zip", pc'[p] # "zip", pc'[p] # "upload",
         NEW m \in {"interrupted", "unreadable"}, mishap' = [mishap EXCEPT ![Asset(p)] = m],
         UNCHANGED <<manifest, index>> \/ pc'[p] \in NothingInHand
  PROVE  RequiredInv'
<1>t. TypeOK /\ Progress(p) /\ ZipInv(p) /\ UndisturbedIsWhole /\ FoundIsNotPackaged
  BY DEF AccountInv, RequiredInv, PublishedAsRequired
<1>a. Asset(p) \in Assets
  BY <1>t, CurrentType DEF Progress
<1>3. \A q \in Publishers : q = p
  BY DEF Alone
<1>1. mishap'[Asset(p)] # "none" /\ \A a \in Assets : mishap[a] # "none" => mishap'[a] # "none"
  BY <1>t, <1>a DEF TypeOK
<1>2. UndisturbedIsWhole'
  BY <1>t, <1>1 DEF UndisturbedIsWhole, Entry
<1>4. FoundIsNotPackaged'
  BY <1>t, <1>3 DEF FoundIsNotPackaged, NothingInHand, Current
<1>5. ZipInv(p)'
  BY <1>t, <1>1 DEF ZipInv
<1> QED BY <1>2, <1>3, <1>4, <1>5 DEF RequiredInv, PublishedAsRequired

\* Every step of a lone publisher keeps RequiredInv.
LEMMA RequiredStep ==
  ASSUME AccountInv, RequiredInv, NEW p \in Publishers, Alone,
         Start(p) \/ Step(p) \/ Abort(p) \/ Killed(p)
  PROVE  RequiredInv'
<1>t. /\ TypeOK /\ Progress(p) /\ ZipInv(p) /\ UndisturbedIsWhole
      /\ FoundIsNotPackaged /\ PublishedAsRequired
  BY DEF AccountInv, RequiredInv, PublishedAsRequired
<1>f. pc \in [Publishers -> {"idle", "begin", "look", "package", "open", "zip", "stuck",
                            "build", "upload", "handled"}]
  BY <1>t DEF TypeOK
<1>i. \A q \in Publishers : q = p
  BY DEF Alone
<1>a. pc[p] \notin {"idle", "begin"} => Asset(p) \in Assets /\ Current(p) \in Entry
  BY <1>t, CurrentType DEF Progress
\* It goes on with the entry: what remains to be shown.
<1>g. ASSUME store' = store, mishap' = mishap, UNCHANGED <<manifest, index>>,
             pc'[p] \in {"package", "open", "zip", "stuck", "build", "upload"} =>
               store[Current(p)] = "absent",
             ZipInv(p)'
      PROVE  RequiredInv'
  <2>1. UndisturbedIsWhole'
    BY <1>g, <1>t DEF UndisturbedIsWhole
  <2>2. FoundIsNotPackaged'
    BY <1>g, <1>i DEF FoundIsNotPackaged, Current
  <2> QED BY <1>g, <1>i, <2>1, <2>2 DEF RequiredInv, PublishedAsRequired
<1>1. CASE Start(p) \/ Begin(p) \/ Finish(p) \/ Handled(p) \/ Fails(p)
  <2>1. /\ pc[p] # "zip" /\ pc'[p] \in NothingInHand /\ UNCHANGED <<cache, store, mishap>>
    BY <1>1, <1>f DEF Start, Begin, Finish, Handled, Fails, NextEntry, Goto, NothingInHand
  <2> QED BY <2>1, PutsDown
<1>2. CASE Abort(p)
  <2>1. UNCHANGED <<cache, store, manifest, pc, index, mishap>>
    BY <1>2 DEF Abort
  <2>2. ZipInv(p)'
    BY <1>t, <2>1 DEF ZipInv, Asset, Current
  <2> QED BY <1>g, <1>t, <2>1, <2>2 DEF FoundIsNotPackaged
<1>3. CASE Killed(p)
  <2>1. pc'[p] = "idle" /\ UNCHANGED <<cache, store>>
    BY <1>3, <1>f DEF Killed, Goto
  <2>2. CASE pc[p] = "zip"
    <3>1. mishap' = [mishap EXCEPT ![Asset(p)] = "interrupted"]
      BY <1>3, <2>2 DEF Killed
    <3> QED BY <2>1, <2>2, <3>1, LeavesZip DEF NothingInHand
  <2>3. CASE pc[p] # "zip"
    BY <1>3, <2>1, <2>3, PutsDown DEF Killed, NothingInHand
  <2> QED BY <2>2, <2>3
<1>4. CASE Look(p)
  <2>1. /\ pc[p] = "look" /\ UNCHANGED <<cache, store, manifest, index, mishap>>
        /\ pc'[p] = "handled" \/ (pc'[p] = "package" /\ store[Current(p)] = "absent")
    BY <1>4, <1>f DEF Look, Goto, run
  <2>2. ZipInv(p)'
    BY <1>t, <2>1 DEF ZipInv
  <2> QED BY <1>g, <2>1, <2>2
<1>5. CASE Package(p)
  <2>1. /\ pc[p] = "package" /\ UNCHANGED <<cache, store, manifest, index, mishap>>
        /\ pc'[p] \in {"upload", "open", "build", "handled"}
        /\ pc'[p] = "upload" /\ Kind[Asset(p)] = "zip" => cache[Asset(p)] # "absent"
    BY <1>5, <1>f DEF Package, Goto, run
  <2>2. ZipInv(p)'
    BY <1>t, <2>1 DEF ZipInv, Asset, Current
  <2> QED BY <1>g, <1>t, <2>1, <2>2 DEF FoundIsNotPackaged
<1>6. CASE OpenZip(p)
  <2>1. /\ pc[p] = "open" /\ UNCHANGED <<store, manifest, index, mishap>>
        /\ pc'[p] = "zip" /\ cache' = [cache EXCEPT ![Asset(p)] = p]
    BY <1>6, <1>f DEF OpenZip, Goto, run
  <2>2. Asset(p)' = Asset(p)
    BY <2>1 DEF Asset, Current
  <2>3. ZipInv(p)'
    BY <1>t, <1>a, <2>1, <2>2 DEF ZipInv, TypeOK
  <2> QED BY <1>g, <1>t, <2>1, <2>3 DEF FoundIsNotPackaged
<1>7. CASE CloseZip(p)
  <2>1. /\ pc[p] = "zip" /\ UNCHANGED <<store, manifest, index, mishap>>
        /\ pc'[p] = "upload" /\ cache' = [cache EXCEPT ![Asset(p)] = "whole"]
    BY <1>7, <1>f, <1>t DEF CloseZip, Goto, run, ZipInv
  <2>2. Asset(p)' = Asset(p)
    BY <2>1 DEF Asset, Current
  <2>3. ZipInv(p)'
    BY <1>t, <1>a, <2>1, <2>2, AssetsAssumption DEF ZipInv, TypeOK
  <2> QED BY <1>g, <1>t, <2>1, <2>3 DEF FoundIsNotPackaged
<1>8. CASE ZipFails(p)
  <2>1. /\ pc[p] = "zip" /\ UNCHANGED <<cache, store>> /\ pc'[p] = "begin"
        /\ mishap' = [mishap EXCEPT ![Asset(p)] = "interrupted"]
    BY <1>8, <1>f DEF ZipFails, NextEntry, Goto
  <2> QED BY <2>1, LeavesZip DEF NothingInHand
<1>9. CASE ZipBreaks(p)
  <2>1. /\ pc[p] = "zip" /\ UNCHANGED <<cache, store, manifest, index>> /\ pc'[p] = "stuck"
        /\ mishap' = [mishap EXCEPT ![Asset(p)] = "unreadable"]
    BY <1>9, <1>f DEF ZipBreaks, Goto, run
  <2> QED BY <2>1, LeavesZip
<1>10. CASE Build(p)
  <2>1. /\ pc[p] = "build" /\ UNCHANGED <<store, manifest, index, mishap>>
        /\ pc'[p] = "upload" /\ cache' = [cache EXCEPT ![Asset(p)] = "whole"]
    BY <1>10, <1>f DEF Build, Goto, run
  <2>2. Asset(p)' = Asset(p)
    BY <2>1 DEF Asset, Current
  <2>3. ZipInv(p)'
    BY <1>t, <1>a, <2>1, <2>2, AssetsAssumption DEF ZipInv, TypeOK
  <2> QED BY <1>g, <1>t, <2>1, <2>3 DEF FoundIsNotPackaged
<1>11. CASE Upload(p)
  <2>1. /\ pc[p] = "upload" /\ UNCHANGED <<cache, manifest, index, mishap>>
        /\ pc'[p] = "handled"
        /\ store' = store \/ store' = [store EXCEPT ![Current(p)] = Content(p)]
    BY <1>11, <1>f DEF Upload, Goto, run
  <2>2. ASSUME Content(p) = "partial" PROVE mishap[Asset(p)] # "none"
    <3>1. Kind[Asset(p)] = "zip" /\ cache[Asset(p)] \notin {"whole", "absent"}
      BY <1>t, <2>1, <2>2 DEF Content, ZipInv
    <3>2. cache[Asset(p)] \in Publishers
      BY <1>t, <1>a, <2>1, <3>1 DEF TypeOK
    <3> QED BY <1>t, <1>a, <2>1, <3>2 DEF ZipInv
  <2>3. UndisturbedIsWhole'
    <3> SUFFICES ASSUME NEW e \in Entry, store'[e] = "partial" PROVE mishap'[e[1]] # "none"
      BY DEF UndisturbedIsWhole
    <3>1. CASE store[e] = "partial"
      BY <1>t, <2>1, <3>1 DEF UndisturbedIsWhole
    <3>2. CASE store[e] # "partial"
      <4>1. e = Current(p) /\ Content(p) = "partial"
        BY <1>t, <1>a, <2>1, <3>2 DEF TypeOK
      <4> QED BY <2>1, <2>2, <4>1 DEF Asset
    <3> QED BY <3>1, <3>2
  <2>4. FoundIsNotPackaged'
    BY <1>i, <2>1 DEF FoundIsNotPackaged
  <2>5. ZipInv(p)'
    BY <1>t, <2>1 DEF ZipInv
  <2> QED BY <1>i, <2>3, <2>4, <2>5 DEF RequiredInv, PublishedAsRequired
<1> QED
  BY <1>1, <1>2, <1>3, <1>4, <1>5, <1>6, <1>7, <1>8, <1>9, <1>10, <1>11
  DEF Step, HandlerStep

\* What one publisher at a time publishes, failing, aborted or killed, is the asset
\* and not a part of it unless something befell it while it wrote the zip file; and
\* what is at its destination is neither packaged nor uploaded again (README of
\* cdk-assets, lines 23-40).
THEOREM PublishesAsRequired == Alone => (Spec => []PublishedAsRequired)
<1> SUFFICES ASSUME Alone PROVE Spec => []PublishedAsRequired
  OBVIOUS
<1>1. Init => RequiredInv
  <2> SUFFICES ASSUME Init PROVE RequiredInv
    OBVIOUS
  <2>1. PublishedAsRequired
    BY DEF Init, PublishedAsRequired, UndisturbedIsWhole, FoundIsNotPackaged
  <2>2. ASSUME NEW p \in Publishers PROVE ZipInv(p)
    BY AssetsAssumption DEF Init, ZipInv
  <2> QED BY <2>1, <2>2 DEF RequiredInv
<1>2. AccountInv /\ RequiredInv /\ [Next]_vars => RequiredInv'
  <2>1. ASSUME AccountInv, RequiredInv, UNCHANGED vars PROVE RequiredInv'
    BY <2>1 DEF vars, run, RequiredInv, PublishedAsRequired, UndisturbedIsWhole,
                FoundIsNotPackaged, ZipInv, Asset, Current
  <2> QED BY <2>1, RequiredStep DEF Next
<1>3. RequiredInv => PublishedAsRequired
  BY DEF RequiredInv
<1> QED BY <1>1, <1>2, <1>3, Accounts, PTL DEF Spec

=============================================================================
