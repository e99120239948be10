-------------------------------- MODULE MCParallel --------------------------------
(***************************************************************************)
(* Two commands on one provider account.  Both accounts of the             *)
(* organization list the policies that AWS manages, as long as one of      *)
(* their users has them attached, and AWS may edit them between two        *)
(* fetches.  The first account has a user, with a row of the credential    *)
(* report; in the second one, users come and go unseen.                    *)
(***************************************************************************)
EXTENDS ParallelImports, TLC

CONSTANTS j1, j2, a1, a2, pol1, pol2, usr

MCTwoAccounts == (j1 :> a1) @@ (j2 :> a2)
MCOneAccount == (j1 :> a1) @@ (j2 :> a1)

Nothing == [u \in Uri |-> None]
Policies(p) == [u \in Uri |-> IF u = usr THEN None ELSE p]
MCSnapshots ==
  (a1 :> {[base |-> [Policies("d1") EXCEPT ![usr] = "d1"],
           docs |-> {<<usr, "d1">>}, links |-> {<<pol1, usr>>}],
          [base |-> [Nothing EXCEPT ![usr] = "d1"], docs |-> {}, links |-> {}]})
  @@ (a2 :> {[base |-> Policies("d2"), docs |-> {}, links |-> {}],
             [base |-> Nothing, docs |-> {}, links |-> {}]})

\* Nothing is stored yet.
MCEmpty == {EmptyFn}

\* What the theorem about documents asks for.
ASSUME AccountOf = MCTwoAccounts => DocumentsApart
===================================================================================
