------------------------------ MODULE MCAgent ------------------------------
(***************************************************************************)
(* Small instances of Agent for TLC.                                       *)
(***************************************************************************)
EXTENDS Agent

OneDevice == [p \in AllPath |-> "device"]

\* Every path on a device, or in a directory, of its own.
Own == [p \in AllPath |-> p]

\* Two directories with two names each.
TwoNames == {<<"d1", "a">>, <<"d1", "b">>, <<"d2", "a">>, <<"d2", "b">>}
FirstName == [p \in AllPath |-> p[1]]

=============================================================================
