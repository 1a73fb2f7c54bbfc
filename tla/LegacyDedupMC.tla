--------------------------- MODULE LegacyDedupMC ---------------------------
EXTENDS LegacyDedup

P(m, f) == [mime |-> m, financial |-> f]

\* A mail between the pages of an invoice, and one after them; a scan; a mail only.
MCContent ==
    <<<<P(FALSE, FALSE), P(TRUE, FALSE), P(FALSE, TRUE), P(TRUE, FALSE)>>,
      <<P(FALSE, TRUE), P(TRUE, FALSE)>>,
      <<P(FALSE, FALSE), P(TRUE, FALSE)>>,
      <<P(FALSE, TRUE)>>,
      <<P(TRUE, FALSE)>>,
      <<P(FALSE, TRUE)>>>>

\* Two files of one number that is printed in two ways, with two totals; one of a
\* number that only a failed extraction knows, one that is stored with another total,
\* one without.
MCNumberOf == <<"a1", "A1", "b2", "c3", "none", "a1">>
MCTotalOf == <<10000, 30000, NoTotal, 20000, NoTotal, 10000>>
MCKeyOf == [n \in {"a1", "A1", "b2", "c3"} |-> IF n = "A1" THEN "a1" ELSE n]

MCRows == {[file |-> 6, number |-> "a9", total |-> 10000, success |-> TRUE],
           [file |-> 21, number |-> "b2", total |-> NoTotal, success |-> FALSE],
           [file |-> 22, number |-> "c3", total |-> 20099, success |-> TRUE],
           [file |-> 23, number |-> "c3", total |-> 20100, success |-> TRUE]}

=============================================================================
