--------------------------- MODULE MCCompanyLane ---------------------------
EXTENDS CompanyLane

CONSTANTS t1, t2

\* Handlers that are done before their lease, and two rows about a company.
Prompt == [requests |-> 0, renames |-> 0, failures |-> 0, rows |-> {t1, t2},
           prompt |-> TRUE, pictured |-> TRUE, signIns |-> FALSE, keyed |-> TRUE,
           domain |-> "a"]

MCBudgets ==
    { [Prompt EXCEPT !.prompt = FALSE, !.rows = {t1}, !.failures = 2],   \* late handlers
      [Prompt EXCEPT !.requests = 1],
      [Prompt EXCEPT !.renames = 1],
      [Prompt EXCEPT !.renames = 1, !.domain = NoDomain],
      [Prompt EXCEPT !.signIns = TRUE, !.keyed = FALSE],                 \* the key comes later
      [Prompt EXCEPT !.signIns = TRUE, !.failures = 1, !.rows = {t1}, !.pictured = FALSE] }
=============================================================================
