------------------------------- MODULE Assets -------------------------------
(***************************************************************************)
(* Assets: one upload session whose part may be sent again while it is     *)
(* being completed, the record that comes of it, its revisions, renditions *)
(* and erasure.  Records are saved whole, with no comparison, so what a    *)
(* rendition read before it called its adapter overwrites what was saved   *)
(* meanwhile; an update has nothing to wait for between read and save.     *)
(***************************************************************************)
EXTENDS Naturals

CONSTANTS Completions,     \* calls of completeUpload for the session, each with its asset
          Renderers,       \* calls of createRendition
          MaxRevisions     \* bound on the revisions of an asset

Bodies  == {"clean", "markup", "infected"}      \* markup is stored sanitized
Objects == Bodies \cup {"sanitized", "none"}

VARIABLES
  upload,       \* the session: the part in the storage, as recorded, and being sent
  completion,   \* per completion: how far it is
  assets,       \* the record of each completion
  objects,      \* the stored object of each
  renderer,     \* per rendition: the asset, and the record that was read
  appended      \* every revision that was ever appended to the asset

uvars == <<upload, completion, assets, objects, renderer, appended>>

Upload == [open : BOOLEAN, stored : Bodies \cup {"none", "consumed"},
           recorded : Bodies \cup {"none"}, sending : Bodies \cup {"none"}]
Asset  == [exists : BOOLEAN, verified : BOOLEAN, revisions : SUBSET (1..MaxRevisions),
           rendered : BOOLEAN]

NoCompletion == [pc |-> "idle", body |-> "none", verified |-> FALSE]
NoAsset      == [exists |-> FALSE, verified |-> FALSE, revisions |-> {}, rendered |-> FALSE]
Idle         == [pc |-> "idle", asset |-> "none", record |-> NoAsset]

Init ==
  /\ upload = [open |-> TRUE, stored |-> "none", recorded |-> "none", sending |-> "none"]
  /\ completion = [c \in Completions |-> NoCompletion]
  /\ assets = [c \in Completions |-> NoAsset]
  /\ objects = [c \in Completions |-> "none"]
  /\ renderer = [r \in Renderers |-> Idle]
  /\ appended = [c \in Completions |-> {}]

-----------------------------------------------------------------------------
\* uploadPart: the storage has the part before the session says so.
SendPart(body) ==
  /\ upload.open /\ upload.sending = "none" /\ upload.stored # "consumed"
  /\ upload' = [upload EXCEPT !.stored = body, !.sending = body]
  /\ UNCHANGED <<completion, assets, objects, renderer, appended>>

RecordPart ==
  /\ upload.sending # "none"
  /\ upload' = [upload EXCEPT !.recorded = upload.sending, !.sending = "none"]
  /\ UNCHANGED <<completion, assets, objects, renderer, appended>>

AbortUpload ==
  /\ upload.open
  /\ upload' = [upload EXCEPT !.open = FALSE, !.stored = "consumed"]
  /\ UNCHANGED <<completion, assets, objects, renderer, appended>>

-----------------------------------------------------------------------------
\* completeUpload: the parts are compared and copied, inspected and scanned,
\* stored, and recorded.
BeginCompletion(c) ==
  /\ completion[c].pc = "idle" /\ ~assets[c].exists /\ appended[c] = {}
  /\ upload.open /\ upload.recorded # "none"
  /\ completion' = [completion EXCEPT ![c] = [NoCompletion EXCEPT !.pc = "inspect",
                                                                  !.body = upload.recorded]]
  /\ UNCHANGED <<upload, assets, objects, renderer, appended>>

\* A scanner that fails quarantines as well.
Inspect(c, scanned) ==
  /\ completion[c].pc = "inspect"
  /\ completion' = [completion EXCEPT ![c].pc = "store",
                      ![c].verified = scanned /\ completion[c].body # "infected"]
  /\ UNCHANGED <<upload, assets, objects, renderer, appended>>

Consumed == upload' = [upload EXCEPT !.stored = "consumed"]
Refused(c) == completion' = [completion EXCEPT ![c] = NoCompletion]

AnyStored(c)  == upload.stored # "consumed"     \* Mutant: the tags of the parts are not compared.
SameStored(c) == upload.stored = completion[c].body

StoreObject(c) ==
  /\ completion[c].pc = "store"
  /\ IF completion[c].verified /\ completion[c].body = "markup"
     THEN /\ Consumed
          /\ objects' = [objects EXCEPT ![c] = "sanitized"]
          /\ completion' = [completion EXCEPT ![c].pc = "save"]
     ELSE IF SameStored(c)
     THEN /\ Consumed
          /\ objects' = [objects EXCEPT ![c] = upload.stored]
          /\ completion' = [completion EXCEPT ![c].pc = "save"]
     ELSE Refused(c) /\ UNCHANGED <<upload, objects>>
  /\ UNCHANGED <<assets, renderer, appended>>

SaveAsset(c) ==
  /\ completion[c].pc = "save"
  /\ upload' = [upload EXCEPT !.open = FALSE]
  /\ assets' = [assets EXCEPT ![c] = [exists |-> TRUE, verified |-> completion[c].verified,
                                      revisions |-> {1}, rendered |-> FALSE]]
  /\ appended' = [appended EXCEPT ![c] = {1}]
  /\ completion' = [completion EXCEPT ![c] = NoCompletion]
  /\ UNCHANGED <<objects, renderer>>

-----------------------------------------------------------------------------
Update(c, next) ==
  /\ assets[c].exists /\ next = 1 + CHOOSE n \in assets[c].revisions : \A m \in assets[c].revisions : m <= n
  /\ next <= MaxRevisions
  /\ assets' = [assets EXCEPT ![c].revisions = @ \cup {next}]
  /\ appended' = [appended EXCEPT ![c] = @ \cup {next}]
  /\ UNCHANGED <<upload, completion, objects, renderer>>

\* createRendition: the adapter works between read and save.
ReadForRendition(r, c) ==
  /\ renderer[r].pc = "idle"
  /\ assets[c].exists /\ assets[c].verified /\ ~assets[c].rendered
  /\ renderer' = [renderer EXCEPT ![r] = [pc |-> "rendering", asset |-> c, record |-> assets[c]]]
  /\ UNCHANGED <<upload, completion, assets, objects, appended>>

SaveRendition(r, rendered) ==
  /\ renderer[r].pc = "rendering"
  /\ assets' = IF rendered
               THEN [assets EXCEPT ![renderer[r].asset] = [renderer[r].record EXCEPT !.rendered = TRUE]]
               ELSE assets
  /\ renderer' = [renderer EXCEPT ![r] = Idle]
  /\ UNCHANGED <<upload, completion, objects, appended>>

\* erase deletes the objects, then the record.
EraseObjects(c) ==
  /\ assets[c].exists
  /\ objects' = [objects EXCEPT ![c] = "none"]
  /\ UNCHANGED <<upload, completion, assets, renderer, appended>>

EraseRecord(c) ==
  /\ assets[c].exists /\ objects[c] = "none"
  /\ assets' = [assets EXCEPT ![c] = NoAsset]
  /\ UNCHANGED <<upload, completion, objects, renderer, appended>>

Next ==
  \/ \E body \in Bodies : SendPart(body)
  \/ RecordPart \/ AbortUpload
  \/ \E c \in Completions :
       \/ BeginCompletion(c) \/ StoreObject(c) \/ SaveAsset(c) \/ EraseObjects(c) \/ EraseRecord(c)
       \/ \E b \in BOOLEAN : Inspect(c, b)
       \/ \E n \in 2..MaxRevisions : Update(c, n)
       \/ \E r \in Renderers : ReadForRendition(r, c)
  \/ \E r \in Renderers, b \in BOOLEAN : SaveRendition(r, b)

-----------------------------------------------------------------------------
TypeOK ==
  /\ upload \in Upload
  /\ \A c \in Completions : completion[c].pc \in {"idle", "inspect", "store", "save"}
  /\ assets \in [Completions -> Asset]
  /\ objects \in [Completions -> Objects]

\* What can be delivered is what was inspected: with parts sent again during
\* the completion, two completions at once, and an erasure that a rendition
\* outlives, a verified asset never has an object that failed, or escaped, the
\* inspection.
DeliveredWasInspected ==
  \A c \in Completions :
    assets[c].exists /\ assets[c].verified => objects[c] \in {"clean", "sanitized", "none"}

\* docs/assets.md:7 says that an update appends a revision and never rewrites
\* the prior record: what was appended is there as long as the asset is.
RevisionsKept ==
  \A c \in Completions : assets[c].exists => appended[c] \subseteq assets[c].revisions
=============================================================================
