------------------------------- MODULE MCProcess -------------------------------
\* Instances of Process for TLC.
EXTENDS Process

Table(stamped) == [keyed |-> TRUE, stamped |-> stamped]

Base == [accepted |-> TRUE, source |-> "", diff |-> FALSE, ttl |-> 0, renew |-> 0,
         tables |-> {Table(FALSE)}, encrypted |-> FALSE, metrics |-> FALSE]

\* Valid ones, and ones that break a rule.
SomeConfigs ==
  { Base, [Base EXCEPT !.accepted = FALSE],
    [Base EXCEPT !.encrypted = TRUE], [Base EXCEPT !.metrics = TRUE],
    [Base EXCEPT !.source = " polling", !.diff = TRUE],
    [Base EXCEPT !.source = " polling"], [Base EXCEPT !.source = "kafka"],
    [Base EXCEPT !.source = "polling"], [Base EXCEPT !.source = "Polling"],
    [Base EXCEPT !.source = "polling", !.tables = {Table(TRUE)}],
    [Base EXCEPT !.source = "Polling", !.tables = {Table(TRUE)}],
    [Base EXCEPT !.source = "polling", !.tables = {Table(TRUE), Table(FALSE)}],
    [Base EXCEPT !.source = "polling", !.tables = {Table(TRUE)}, !.diff = TRUE],
    [Base EXCEPT !.ttl = 5], [Base EXCEPT !.tables = {}] }
=============================================================================
