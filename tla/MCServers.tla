----------------------------- MODULE MCServers ------------------------------
(***************************************************************************)
(* Instances of Servers for TLC.                                           *)
(***************************************************************************)
EXTENDS Servers, TLC

\* Apache boots with its web root in slot 0 and the other slots free; the etc
\* and logs directories of the code would only add names.
MCInitialDirs == [s \in Servers |-> [d \in 0..(MaxDirs - 1) |->
                     IF s = Apache /\ d = 0 THEN Www ELSE Free]]

\* What is left of a state without the name of the last command, which no guard
\* reads: only action properties ask for it, and they see every step.
Unaudited == <<active, fs, snapshots, session>>
=============================================================================
