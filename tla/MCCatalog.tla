----------------------------- MODULE MCCatalog -----------------------------
(***************************************************************************)
(* Instances of Catalog for TLC: one account that scans and tests, one     *)
(* that only tests.                                                        *)
(***************************************************************************)
EXTENDS CatalogProperties, TLC

CONSTANTS scanner, tester

\* Ten is what may happen in all: two ignored requests, an error or an ignored request beside
\* a new contract or a new account, both of these, or one event of another kind.
Weights == [kind \in EventKinds |-> CASE kind = "error" -> 6
                                      [] kind = "ignored" -> 5
                                      [] kind \in {"changed", "registered"} -> 4
                                      [] OTHER -> 10]
=============================================================================
