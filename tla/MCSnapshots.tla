---------------------------- MODULE MCSnapshots ----------------------------
(***************************************************************************)
(* Small instances of Snapshots for TLC.                                   *)
(***************************************************************************)
EXTENDS Snapshots

\* Two files of one repository, and one of a repository whose name is also
\* that of an object restic keeps in every repository.
MCFile == {<<"home", "s", "u", "a">>, <<"home", "s", "u", "b">>,
           <<"home", "s", "config", "c">>}

MCTwoFiles == {<<"home", "s", "u", "a">>, <<"home", "s", "u", "b">>}

MCBase == <<"home">>

=============================================================================
