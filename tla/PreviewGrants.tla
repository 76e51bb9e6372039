--------------------------- MODULE PreviewGrants ---------------------------
(***************************************************************************)
(* The live preview as the Studio opens and closes it.  Opening cleans up   *)
(* the preview before, asks the server for a session and connects a popup   *)
(* to it; a grant that arrives when the popup, the entry or the preview has *)
(* changed is revoked.  Closing waits for an opening that has no answer.    *)
(***************************************************************************)
EXTENDS Naturals, FiniteSets

CONSTANTS
  Starts,           \* attempts to open a preview, each with the session it may get
  Entries,
  MaxCloses,        \* bound on the closings
  None

VARIABLES
  grants,           \* the sessions on the server: "none", "live", "revoked"
  page,             \* references of the editor: generation, popup, grant, ...
  window,           \* the one popup with the name of the preview, if it is open
  start,            \* how far each attempt to open is
  closing,          \* how far each closing is
  unrevoked,        \* history: sessions whose revocation failed
  overlapped        \* history: a preview was opened while an opening had no answer

pvars == <<grants, page, window, start, closing, unrevoked, overlapped>>

Closes == 1..MaxCloses
Idle   == [step |-> "idle", gen |-> 0, popup |-> None, entry |-> None, grant |-> None]

Running(s) == start[s].step \notin {"idle", "done"}

\* cleanupExternalPreview up to its first await; the popup it closes may be the
\* one that was just opened under the same name.
Disposed(p) == [p EXCEPT !.gen = @ + 1, !.controller = None, !.popup = None]
Popup(w) == IF page.popup # None /\ page.popup = w THEN None ELSE w

\* The server forgets the grant if it can be reached.
Revoked(session, ok) ==
  /\ grants' = IF ok THEN [grants EXCEPT ![session] = "revoked"] ELSE grants
  /\ unrevoked' = IF ok THEN unrevoked \ {session} ELSE unrevoked \cup {session}

ForgetGrant(p, session) == IF p.grant = session THEN [p EXCEPT !.grant = None] ELSE p

-----------------------------------------------------------------------------
\* startExternalPreview: window.open gives the popup of that name that is open.
\* Without a grant to revoke first the request goes out at once.
Proceed(s, p, popup, entry) ==
  /\ page' = [p EXCEPT !.popup = popup, !.pending = s]
  /\ start' = [start EXCEPT ![s] = [step |-> "create", gen |-> p.gen, popup |-> popup,
                                   entry |-> entry, grant |-> None]]

Begin(s) ==
  LET popup == IF window = None THEN s ELSE window
  IN  /\ start[s].step = "idle" /\ page.controller = None
      /\ window' = Popup(popup)
      /\ IF page.grant = None THEN Proceed(s, Disposed(page), popup, page.selected)
         ELSE /\ page' = [Disposed(page) EXCEPT !.pending = s]
              /\ start' = [start EXCEPT ![s] = [step |-> "clean", gen |-> 0, popup |-> popup,
                                   entry |-> page.selected, grant |-> page.grant]]
      /\ overlapped' = (overlapped \/ \E other \in Starts : Running(other))
      /\ UNCHANGED <<grants, closing, unrevoked>>

\* The old grant is revoked first, or else the opening ends.
Ended(s) == [start EXCEPT ![s].step = "done"]
Released(p, s) == IF p.pending = s THEN [p EXCEPT !.pending = None] ELSE p
Shut(w, popup) == IF w = popup THEN None ELSE w

CleansFirst(s) ==
  LET grant == start[s].grant
  IN  /\ start[s].step = "clean"
      /\ \E ok \in BOOLEAN :
           /\ Revoked(grant, ok)
           /\ IF ok
              THEN /\ Proceed(s, ForgetGrant(page, grant), start[s].popup, start[s].entry)
                   /\ UNCHANGED window
              ELSE /\ start' = Ended(s) /\ page' = Released(page, s)
                   /\ window' = Shut(window, start[s].popup)
      /\ UNCHANGED <<closing, overlapped>>

\* PreviewSessionService.create, or a refusal.
ServerCreates(s) ==
  /\ start[s].step = "create"
  /\ grants' = [grants EXCEPT ![s] = "live"]
  /\ start' = [start EXCEPT ![s].step = "granted"]
  /\ UNCHANGED <<page, window, closing, unrevoked, overlapped>>

CreateFails(s) ==
  /\ start[s].step = "create"
  /\ start' = Ended(s) /\ page' = Released(page, s)
  /\ window' = Shut(window, start[s].popup)
  /\ UNCHANGED <<grants, closing, unrevoked, overlapped>>

StillWanted(s) ==
  page.gen = start[s].gen /\ page.selected = start[s].entry /\ window = start[s].popup

Connect(s) ==
  /\ start[s].step = "granted" /\ StillWanted(s)
  /\ page' = [Released(page, s) EXCEPT !.grant = s, !.controller = s, !.popup = start[s].popup]
  /\ start' = Ended(s)
  /\ UNCHANGED <<grants, window, closing, unrevoked, overlapped>>

\* The late grant is remembered while it is revoked.
GrantTooLate(s) ==
  /\ start[s].step = "granted" /\ ~StillWanted(s)
  /\ window' = Shut(window, start[s].popup)
  /\ page' = [page EXCEPT !.grant = s]
  /\ start' = [start EXCEPT ![s].step = "undo"]
  /\ UNCHANGED <<grants, closing, unrevoked, overlapped>>

StartUndone(s) ==
  /\ start[s].step = "undo"
  /\ \E ok \in BOOLEAN :
       /\ Revoked(s, ok)
       /\ page' = Released(IF ok THEN ForgetGrant(page, s) ELSE page, s)
  /\ start' = Ended(s)
  /\ UNCHANGED <<window, closing, overlapped>>

\* guardStudioClient: the authority changed; the session is revoked with best
\* effort and the opening fails.
GrantStale(s) ==
  /\ start[s].step = "granted"
  /\ \E ok \in BOOLEAN : Revoked(s, ok)
  /\ start' = Ended(s) /\ page' = Released(page, s)
  /\ window' = Shut(window, start[s].popup)
  /\ UNCHANGED <<closing, overlapped>>

-----------------------------------------------------------------------------
\* cleanupExternalPreview: waits for an opening that has no answer, then for the
\* revocation of the grant it finds.
Revoking(c, grant) ==
  [closing EXCEPT ![c] = [step |-> IF grant = None THEN "done" ELSE "revoke", on |-> None,
                          grant |-> grant]]

Cleanup(c, p) ==
  /\ closing[c].step = "idle"
  /\ page' = Disposed(p) /\ window' = Popup(window)
  /\ closing' = IF p.pending = None THEN Revoking(c, p.grant)
                ELSE [closing EXCEPT ![c] = [step |-> "wait", on |-> p.pending, grant |-> None]]
  /\ UNCHANGED <<grants, start, unrevoked, overlapped>>

\* closeExternalPreview: the user closes it, the authority ends, a popup is found
\* closed, the scope is switched; selectEntry closes it together with the change.
Close(c) == Cleanup(c, page)

Select(entry, c) == entry # page.selected /\ Cleanup(c, [page EXCEPT !.selected = entry])

CloseWaited(c) ==
  /\ closing[c].step = "wait" /\ start[closing[c].on].step = "done"
  /\ closing' = Revoking(c, page.grant)
  /\ UNCHANGED <<grants, page, window, start, unrevoked, overlapped>>

CloseRevokes(c) ==
  LET grant == closing[c].grant
  IN  /\ closing[c].step = "revoke"
      /\ \E ok \in BOOLEAN :
           /\ Revoked(grant, ok)
           /\ page' = IF ok THEN ForgetGrant(page, grant) ELSE page
      /\ closing' = [closing EXCEPT ![c].step = "done"]
      /\ UNCHANGED <<window, start, overlapped>>

UserClosesPopup ==
  /\ window # None /\ window' = None
  /\ UNCHANGED <<grants, page, start, closing, unrevoked, overlapped>>

-----------------------------------------------------------------------------
Init ==
  /\ grants = [s \in Starts |-> "none"]
  /\ \E entry \in Entries :
       page = [gen |-> 0, controller |-> None, popup |-> None, grant |-> None,
               pending |-> None, selected |-> entry]
  /\ window = None
  /\ start = [s \in Starts |-> Idle]
  /\ closing = [c \in Closes |-> [step |-> "idle", on |-> None, grant |-> None]]
  /\ unrevoked = {} /\ overlapped = FALSE

Next ==
  \/ \E s \in Starts :
       \/ Begin(s) \/ CleansFirst(s) \/ ServerCreates(s) \/ CreateFails(s)
       \/ Connect(s) \/ GrantTooLate(s) \/ StartUndone(s) \/ GrantStale(s)
  \/ \E c \in Closes :
       \/ Close(c) \/ CloseWaited(c) \/ CloseRevokes(c)
       \/ \E entry \in Entries : Select(entry, c)
  \/ UserClosesPopup

-----------------------------------------------------------------------------
TypeOK ==
  /\ grants \in [Starts -> {"none", "live", "revoked"}]
  /\ {page.controller, page.grant, page.popup, page.pending, window} \subseteq Starts \cup {None}
  /\ page.gen \in Nat /\ page.selected \in Entries
  /\ unrevoked \subseteq Starts

Settled ==
  /\ \A s \in Starts : ~Running(s)
  /\ \A c \in Closes : closing[c].step \in {"idle", "done"}

Accounted ==
  \A s \in Starts : grants[s] = "live" => s \in unrevoked \/ (page.controller = s /\ page.grant = s)

\* Once nothing is under way, a session that can still be used is the one of the
\* preview that is open, or could not be revoked: late grants, closed popups and
\* closings that overtake an opening leave none behind.
NoSessionLeftOpen == Settled /\ ~overlapped => Accounted

\* apps/studio/src/App.tsx:211 speaks of a grant settlement and strict cleanup
\* barrier of its own; with two openings that overlap, the late grant of the
\* first one takes the place of the grant that the second one needs to close.
CleanupIsStrict == Settled => Accounted
=============================================================================
