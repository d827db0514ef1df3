----------------------------- MODULE MCInvoices -----------------------------
(* Invoices, and with them Clients, for TLC.                                *)
EXTENDS Invoices, TLC

Text(whole, sign, digits) ==
  [minus |-> FALSE, whole |-> whole, sign |-> sign, digits |-> digits]

\* 2.5, 12.05, 300 (too much for the width), 0.-1 (refused by the database), -3 (refused
\* by parseMoney).
MCTexts ==
  { Text(2, "none", <<5>>), Text(12, "none", <<0, 5>>), Text(300, "none", <<>>),
    Text(0, "-", <<1>>), [Text(3, "none", <<>>) EXCEPT !.minus = TRUE] }

Symmetry ==
  Permutations(Orgs) \cup Permutations(Projects) \cup Permutations(Requests) \cup
  Permutations(InvoiceIds) \cup Permutations(Forms)
=============================================================================
