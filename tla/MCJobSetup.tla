------------------------------- MODULE MCJobSetup -------------------------------
(***************************************************************************)
(* An organization with a unit inside a unit, one account that stands      *)
(* alone, and two operators who import different accounts.                 *)
(***************************************************************************)
EXTENDS JobSetup, TLC

CONSTANTS o1, c1, c2, mgmt, dev, alone, root, ou1, ou2

MCParentUnit == (ou1 :> root) @@ (ou2 :> ou1)
MCCallers == (c1 :> {mgmt, alone}) @@ (c2 :> {dev})
MCOneCaller == c1 :> {alone}

\* What the theorems about the registry ask for.
ASSUME ExternalId = {None} => CommandsApart
===================================================================================
