--------------------------- MODULE MCMailboxSync ---------------------------
(* The instances of MailboxSync that TLC checks. Three messages are one    *)
(* more than a pass takes (Batch = 2) and all that a page of Gmail's       *)
(* history holds (HistoryPage = 3), four are one more than the page; a     *)
(* second row needs a disconnect; an upset is one failure, crash, overlap  *)
(* of syncs or purge.                                                      *)
EXTENDS MailboxSync

I(s, m, r, u) == [source |-> s, mail |-> m, rows |-> r, upsets |-> u]

MCInstances ==
    {I("gmail", 1, 2, 0), I("gmail", 4, 1, 0)}
    \union {I(s, 3, 1, 0) : s \in {"gmail", "outlook", "calendar"}}
    \union {I(s, 2, 1, 1) : s \in {"gmail", "outlook", "calendar"}}
============================================================================
