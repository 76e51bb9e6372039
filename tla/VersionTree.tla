---------------------------- MODULE VersionTree -----------------------------
(***************************************************************************)
(* What the content repository promises (ADR 0002): versions are           *)
(* immutable, every version but the first of an entry's life is based on   *)
(* the head it replaced, and publication only moves references to existing *)
(* versions, for any number of entries at once.                            *)
(***************************************************************************)
CONSTANTS Entry, Rev, None

VARIABLES
    commit,  \* the versions written so far: the entry and the base of each
    head,    \* the current draft of each entry
    live     \* the published version of each entry

vars == <<commit, head, live>>

Unborn == [entry |-> None, base |-> None]

Versions(e) == {r \in Rev : commit[r].entry = e}

Init ==
    /\ commit = [r \in Rev |-> Unborn]
    /\ head = [e \in Entry |-> None]
    /\ live = [e \in Entry |-> None]

\* A new version on top of the head (of nothing, for a new entry).
Commit(e, r) ==
    /\ commit[r] = Unborn
    /\ commit' = [commit EXCEPT ![r] = [entry |-> e, base |-> head[e]]]
    /\ head' = [head EXCEPT ![e] = r]
    /\ UNCHANGED live

\* Published references of live entries move to versions of the same entry.
Promote ==
    /\ live' \in [Entry -> Rev \cup {None}]
    /\ \A e \in Entry : live'[e] # live[e] =>
          head[e] # None /\ live'[e] \in Versions(e)
    /\ UNCHANGED <<commit, head>>

Remove(e) ==
    /\ head' = [head EXCEPT ![e] = None]
    /\ live' = [live EXCEPT ![e] = None]
    /\ UNCHANGED commit

\* Some entries return to versions they have had.
Restore ==
    /\ head' \in [Entry -> Rev \cup {None}]
    /\ live' \in [Entry -> Rev \cup {None}]
    /\ \A e \in Entry : <<head'[e], live'[e]>> # <<head[e], live[e]>> =>
          head'[e] \in Versions(e) /\ live'[e] \in Versions(e) \cup {None}
    /\ UNCHANGED commit

Next ==
    \/ \E e \in Entry, r \in Rev : Commit(e, r)
    \/ Promote
    \/ \E e \in Entry : Remove(e)
    \/ Restore

Spec == Init /\ [][Next]_vars
=============================================================================
