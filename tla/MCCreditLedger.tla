---------------------------- MODULE MCCreditLedger ----------------------------
(* CreditLedger for TLC: a small account, its keys interchangeable.        *)
EXTENDS CreditLedger, TLC

KeySymmetry == Permutations(Keys)
===============================================================================
