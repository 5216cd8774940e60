---------------------------- MODULE BackupService ----------------------------
(***************************************************************************)
(* What the backup runs promise to the rest of the system, with no lock,   *)
(* no runs, no two hashes and no failures: a set of markers from which a   *)
(* marker goes only when its file needs it no more, to which only changes  *)
(* of files add, and which says what is stored.                            *)
(***************************************************************************)
CONSTANTS Path,         \* Paths of files
          Unmapped      \* Paths that belong to no repository

VARIABLES marked,       \* Paths that are to be backed up
          dirty,        \* Paths whose current content is in no snapshot
          unread        \* Dirty paths that were reported as unreadable

vars == <<marked, dirty, unread>>

Init == marked = {} /\ dirty = {} /\ unread = {}

\* A file is created or modified.
Modify(p) ==
    /\ marked' = marked \cup {p}
    /\ dirty' = dirty \cup {p}
    /\ unread' = unread \ {p}

\* A file is renamed.  The marker of the old name may stay.
Rename(p, q) ==
    /\ marked' \in {marked \cup {q}, (marked \ {p}) \cup {q}}
    /\ dirty' = (dirty \ {p}) \cup {q}
    /\ unread' = unread \ {p, q}

\* A file is deleted.
Delete(p) ==
    /\ dirty' = dirty \ {p}
    /\ unread' = unread \ {p}
    /\ UNCHANGED marked

\* Marked files, and no others, are stored or reported as unreadable.
Store ==
    /\ dirty' \subseteq dirty
    /\ dirty \ dirty' \subseteq marked
    /\ unread' \subseteq unread \cup (dirty' \cap marked)
    /\ unread \cap dirty' \subseteq unread'
    /\ UNCHANGED marked

\* Markers go: of files whose content is stored, which were reported, or which
\* no repository takes.
Clear ==
    /\ marked' \subseteq marked
    /\ (marked \ marked') \cap dirty \subseteq unread \cup Unmapped
    /\ UNCHANGED <<dirty, unread>>

Next ==
    \/ \E p \in Path : Modify(p) \/ Delete(p)
    \/ \E p, q \in Path : Rename(p, q)
    \/ Store
    \/ Clear

Spec == Init /\ [][Next]_vars

=============================================================================
