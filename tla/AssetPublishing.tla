--------------------------- MODULE AssetPublishing ---------------------------
(***************************************************************************)
(* AssetPublishing.publish() of cdk-assets (lib/publishing.ts) with the    *)
(* handlers for files and images (lib/private/handlers), as run by         *)
(* `cdk deploy` before a stack is deployed: for every entry of a manifest, *)
(* unless it is at its destination already, the asset is packaged into a   *)
(* local cache (a zip file in cdk.out/.cache, an image of the local        *)
(* Docker) or found there, and uploaded.                                   *)
(*                                                                         *)
(* Publishers are processes that work in the same directory, one run after *)
(* the other each.  The zip file is written in place: until it is closed   *)
(* it is there, but incomplete.  Images appear in Docker, and objects in   *)
(* S3, at once.                                                            *)
(***************************************************************************)
EXTENDS Naturals, Sequences

CONSTANTS Publishers,
          Assets,
          Destinations,
          Kind,        \* how each asset is made
          Manifests,   \* what a publisher may be asked to publish
          Mishaps      \* what may go wrong besides a call that fails

Entry == Assets \X Destinations

ASSUME AssetsAssumption ==
  /\ Kind \in [Assets -> {"file", "zip", "executable", "image", "imageExecutable"}]
  /\ Manifests \subseteq Seq(Entry)
  /\ Mishaps \subseteq {"killed", "zipError", "unreadable"}
  /\ {"absent", "whole"} \cap Publishers = {}

VARIABLES
  cache,     \* per asset: "absent", "whole", or the publisher writing (or not
             \* having finished) the file
  store,     \* per entry, what is at the destination
  manifest,  \* this.assets of a publisher
  pc, index, \* where it is, and at which entry
  aborted,
  failures,  \* the entries that failed
  result,
  mishap     \* history, per asset: what befell the writing of its zip file

run == <<manifest, index, aborted, failures, result>>
vars == <<cache, store, pc, run, mishap>>

TypeOK ==
  /\ cache \in [Assets -> {"absent", "whole"} \cup Publishers]
  /\ store \in [Entry -> {"absent", "partial", "whole"}]
  /\ manifest \in [Publishers -> Seq(Entry)]
  /\ pc \in [Publishers -> {"idle", "begin", "look", "package", "open", "zip", "stuck",
                            "build", "upload", "handled"}]
  /\ index \in [Publishers -> Nat \ {0}]
  /\ aborted \in [Publishers -> BOOLEAN]
  /\ failures \in [Publishers -> SUBSET Nat]
  /\ result \in [Publishers -> {"none", "published", "failed", "killed"}]
  /\ mishap \in [Assets -> {"none", "interrupted", "unreadable"}]

Init ==
  /\ cache = [a \in Assets |-> "absent"]
  /\ store = [e \in Entry |-> "absent"]
  /\ manifest = [p \in Publishers |-> <<>>]
  /\ pc = [p \in Publishers |-> "idle"]
  /\ index = [p \in Publishers |-> 1]
  /\ aborted = [p \in Publishers |-> FALSE]
  /\ failures = [p \in Publishers |-> {}]
  /\ result = [p \in Publishers |-> "none"]
  /\ mishap = [a \in Assets |-> "none"]

Current(p) == manifest[p][index[p]]
Asset(p) == Current(p)[1]

Goto(p, l) == pc' = [pc EXCEPT ![p] = l]

\* The entry is dealt with, successfully or not.
NextEntry(p, failed) ==
  /\ failures' = IF failed THEN [failures EXCEPT ![p] = @ \cup {index[p]}] ELSE failures
  /\ index' = [index EXCEPT ![p] = @ + 1]
  /\ Goto(p, "begin")
  /\ UNCHANGED <<manifest, aborted, result>>

-----------------------------------------------------------------------------
(* The loop over the entries.                                              *)

Start(p) ==
  /\ pc[p] = "idle"
  /\ \E m \in Manifests : manifest' = [manifest EXCEPT ![p] = m]
  /\ Goto(p, "begin")
  /\ index' = [index EXCEPT ![p] = 1]
  /\ aborted' = [aborted EXCEPT ![p] = FALSE]
  /\ failures' = [failures EXCEPT ![p] = {}]
  /\ result' = [result EXCEPT ![p] = "none"]
  /\ UNCHANGED <<cache, store, mishap>>

Begin(p) ==
  /\ pc[p] = "begin" /\ index[p] <= Len(manifest[p]) /\ ~aborted[p]
  /\ Goto(p, "look")
  /\ UNCHANGED <<cache, store, run, mishap>>

\* The caller throws if there was a failure.
Finish(p) ==
  /\ pc[p] = "begin" /\ (index[p] > Len(manifest[p]) \/ aborted[p])
  /\ Goto(p, "idle")
  /\ result' = [result EXCEPT ![p] = IF failures[p] = {} THEN "published" ELSE "failed"]
  /\ UNCHANGED <<cache, store, manifest, index, aborted, failures, mishap>>

\* Mutant: a handler that returned is taken to have published.
HandledAnyway(p) ==
  /\ pc[p] = "handled"
  /\ NextEntry(p, FALSE)
  /\ UNCHANGED <<cache, store, mishap>>

\* The handler returned; it may have done so because of an abort.
Handled(p) ==
  /\ pc[p] = "handled"
  /\ NextEntry(p, aborted[p])
  /\ UNCHANGED <<cache, store, mishap>>

\* A call or a command of the handler fails.
Fails(p) ==
  /\ pc[p] \in {"look", "package", "build", "upload"}
  /\ NextEntry(p, TRUE)
  /\ UNCHANGED <<cache, store, mishap>>

\* Called by a listener or from outside, at any time.
Abort(p) ==
  /\ pc[p] # "idle" /\ ~aborted[p]
  /\ aborted' = [aborted EXCEPT ![p] = TRUE]
  /\ UNCHANGED <<cache, store, manifest, pc, index, failures, result, mishap>>

Killed(p) ==
  /\ "killed" \in Mishaps /\ pc[p] # "idle"
  /\ Goto(p, "idle")
  /\ result' = [result EXCEPT ![p] = "killed"]
  /\ UNCHANGED <<cache, store, manifest, index, aborted, failures>>
  /\ mishap' = IF pc[p] = "zip" THEN [mishap EXCEPT ![Asset(p)] = "interrupted"] ELSE mishap

-----------------------------------------------------------------------------
(* The handlers.                                                           *)

\* Mutant: an asset is uploaded whether it is there or not.
LookAway(p) ==
  /\ pc[p] = "look"
  /\ Goto(p, IF aborted[p] THEN "handled" ELSE "package")
  /\ UNCHANGED <<cache, store, run, mishap>>

Look(p) ==
  /\ pc[p] = "look"
  /\ Goto(p, IF store[Current(p)] # "absent" \/ aborted[p] THEN "handled" ELSE "package")
  /\ UNCHANGED <<cache, store, run, mishap>>

\* What there is to do before the upload: nothing for a file, and for an
\* executable nothing that is seen here; otherwise something unless it is cached.
\* Only images ask whether they have been aborted.
Package(p) ==
  /\ pc[p] = "package"
  /\ \/ /\ Kind[Asset(p)] \in {"file", "executable"}
        /\ Goto(p, "upload")
     \/ /\ Kind[Asset(p)] = "zip"
        /\ Goto(p, IF cache[Asset(p)] = "absent" THEN "open" ELSE "upload")
     \/ /\ Kind[Asset(p)] = "image"
        /\ Goto(p, IF cache[Asset(p)] # "absent" THEN "upload"
                   ELSE IF aborted[p] THEN "handled" ELSE "build")
     \/ /\ Kind[Asset(p)] = "imageExecutable"
        /\ Goto(p, IF aborted[p] THEN "handled" ELSE "upload")
  /\ UNCHANGED <<cache, store, run, mishap>>

\* Mutant: the zip file is not awaited.
OpenZipOnly(p) ==
  /\ pc[p] = "open"
  /\ cache' = [cache EXCEPT ![Asset(p)] = p]
  /\ Goto(p, "upload")
  /\ UNCHANGED <<store, run, mishap>>

\* createWriteStream truncates whatever is there by now.
OpenZip(p) ==
  /\ pc[p] = "open"
  /\ cache' = [cache EXCEPT ![Asset(p)] = p]
  /\ Goto(p, "zip")
  /\ UNCHANGED <<store, run, mishap>>

\* The file is closed.  It is complete if nobody truncated it since.
CloseZip(p) ==
  /\ pc[p] = "zip"
  /\ cache' = IF cache[Asset(p)] = p THEN [cache EXCEPT ![Asset(p)] = "whole"] ELSE cache
  /\ Goto(p, "upload")
  /\ UNCHANGED <<store, run, mishap>>

\* Mutant: a failure of the archiver is not passed on either.
ZipFailsSilently(p) ==
  /\ "zipError" \in Mishaps /\ pc[p] = "zip"
  /\ Goto(p, "stuck")
  /\ UNCHANGED <<cache, store, run>>
  /\ mishap' = [mishap EXCEPT ![Asset(p)] = "interrupted"]

\* The archiver reports an error; the file stays.
ZipFails(p) ==
  /\ "zipError" \in Mishaps /\ pc[p] = "zip"
  /\ NextEntry(p, TRUE)
  /\ UNCHANGED <<cache, store>>
  /\ mishap' = [mishap EXCEPT ![Asset(p)] = "interrupted"]

\* A file cannot be read: the function that builds the promise throws after its
\* first await, and the promise is never settled.
ZipBreaks(p) ==
  /\ "unreadable" \in Mishaps /\ pc[p] = "zip"
  /\ Goto(p, "stuck")
  /\ UNCHANGED <<cache, store, run>>
  /\ mishap' = [mishap EXCEPT ![Asset(p)] = "unreadable"]

Build(p) ==
  /\ pc[p] = "build"
  /\ cache' = [cache EXCEPT ![Asset(p)] = "whole"]
  /\ Goto(p, "upload")
  /\ UNCHANGED <<store, run, mishap>>

IsImage(p) == Kind[Asset(p)] \in {"image", "imageExecutable"}

\* What is sent is what the cache holds now.
Content(p) ==
  IF Kind[Asset(p)] = "zip" /\ cache[Asset(p)] # "whole" THEN "partial" ELSE "whole"

\* An image is not pushed after an abort; a file is uploaded all the same.
Upload(p) ==
  /\ pc[p] = "upload"
  /\ store' = IF IsImage(p) /\ aborted[p] THEN store
              ELSE [store EXCEPT ![Current(p)] = Content(p)]
  /\ Goto(p, "handled")
  /\ UNCHANGED <<cache, run, mishap>>

-----------------------------------------------------------------------------
HandlerStep(p) ==
  \/ Look(p) \/ Package(p) \/ OpenZip(p) \/ CloseZip(p) \/ ZipFails(p) \/ ZipBreaks(p)
  \/ Build(p) \/ Upload(p) \/ Fails(p)

Step(p) == Begin(p) \/ Finish(p) \/ Handled(p) \/ HandlerStep(p)

Next == \E p \in Publishers : Start(p) \/ Step(p) \/ Abort(p) \/ Killed(p)

Spec == Init /\ [][Next]_vars

\* Calls and commands return, files get written.
FairSpec == Spec /\ \A p \in Publishers : WF_vars(Step(p))

-----------------------------------------------------------------------------
(* Properties.                                                             *)

\* When publish() is over every entry it began with is at its destination or
\* among the failures, also after an abort; without an abort it has been through
\* all of them (publishing.ts, lines 67-100).  Hence a deployment goes on only
\* if its assets are there.
EntriesAreAccountedFor ==
  \A p \in Publishers : result[p] \in {"published", "failed"} =>
    /\ \A i \in 1..Len(manifest[p]) :
         i < index[p] => store[manifest[p][i]] # "absent" \/ i \in failures[p]
    /\ aborted[p] \/ index[p] > Len(manifest[p])
    /\ result[p] = "published" => failures[p] = {}

\* Why: it is so at every moment, what is at a destination stays there.
Progress(p) ==
  /\ \A i \in 1..Len(manifest[p]) :
       i < index[p] => store[manifest[p][i]] # "absent" \/ i \in failures[p]
  /\ pc[p] = "handled" =>
       aborted[p] \/ (index[p] \in 1..Len(manifest[p]) => store[Current(p)] # "absent")
  /\ pc[p] \notin {"idle", "begin"} => index[p] \in 1..Len(manifest[p])
  /\ result[p] \in {"published", "failed"} =>
       /\ pc[p] = "idle"
       /\ aborted[p] \/ index[p] > Len(manifest[p])
       /\ result[p] = "published" => failures[p] = {}
AccountInv == TypeOK /\ \A p \in Publishers : Progress(p)

\* The assets are prepared as required and uploaded (README of cdk-assets, lines
\* 23-25): what one publisher at a time publishes, failing or aborted, is the asset
\* and not a part of it, as long as nothing befell it while it wrote the zip file.
UndisturbedIsWhole ==
  \A e \in Entry : store[e] = "partial" => mishap[e[1]] # "none"

\* What is at its destination is not packaged and not uploaded (README of
\* cdk-assets, lines 39-40), however often publishing was interrupted before: from
\* the one look at the destination until the upload nothing is there.  For one
\* publisher at a time.
FoundIsNotPackaged ==
  \A p \in Publishers :
    pc[p] \in {"package", "open", "zip", "stuck", "build", "upload"} =>
      store[Current(p)] = "absent"

\* Every asset is at its destination once and as it is in the manifest.
PublishedAsRequired == UndisturbedIsWhole /\ FoundIsNotPackaged

\* Why: a lone publisher leaves a zip file incomplete only while it writes it or
\* when something befell it, and uploads none that is not there.
Alone == \A p, q \in Publishers : p = q

ZipInv(p) ==
  /\ pc[p] = "zip" => cache[Asset(p)] = p
  /\ pc[p] = "upload" /\ Kind[Asset(p)] = "zip" => cache[Asset(p)] # "absent"
  /\ \A a \in Assets : cache[a] \in Publishers =>
       mishap[a] # "none" \/ (pc[p] = "zip" /\ Asset(p) = a)
RequiredInv == PublishedAsRequired /\ \A p \in Publishers : ZipInv(p)

\* publish() comes to an end whatever fails, except that a file that cannot be
\* read stops it for good.
PublishingEnds ==
  \A p \in Publishers :
    pc[p] # "idle" ~>
      pc[p] = "idle" \/ (pc[p] = "stuck" /\ mishap[Asset(p)] = "unreadable")

=============================================================================
