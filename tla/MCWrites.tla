------------------------------ MODULE MCWrites ------------------------------
(* Values for the constants of OperatorWrites. *)
EXTENDS OperatorWrites

AnyDeployment == Settings

\* Nothing, one write, an incomplete replacement, everything.
SomePolicies == {Unreadable, {}, {"buzzer", "replace_offline", "replace_missing"} \cap Approvable, Approvable}
=============================================================================
