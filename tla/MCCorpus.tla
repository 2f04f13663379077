------------------------------ MODULE MCCorpus ------------------------------
(***************************************************************************)
(* Corpus for TLC: two payees, two hosts, a compaction that keeps fewer      *)
(* events than there are, two overlapping labelling runs.                    *)
(***************************************************************************)
EXTENDS Corpus, TLC

\* Settlements of two payers; one that is paid again has the key of the first.
MCTransfers == {[tx |-> 1, payer |-> "a", usdc |-> TRUE], [tx |-> 2, payer |-> "b", usdc |-> TRUE]}

\* Payees differ in nothing but their name.
PayeeSymmetry == Permutations(Payees)

\* A buy is snapshot or not; a check finds the mark or not, the balance or not.
Bought == {[verdict |-> "GO", snapshot |-> TRUE], [verdict |-> "STOP", snapshot |-> FALSE]}
Found == {[mark |-> {}, readable |-> TRUE], [mark |-> {TRUE}, readable |-> FALSE]}
=============================================================================
