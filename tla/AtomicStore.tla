---------------------------- MODULE AtomicStore -----------------------------
(***************************************************************************)
(* What crontab(1) promises, without temporary files, helpers, editors or  *)
(* checks: each request takes effect on a crontab within its reach, at     *)
(* once and at most once.  It is answered "done" only if it has, "failed"  *)
(* only if it has not and will not; of one that is lost in a crash either  *)
(* may be true, or become true.  Requests for the same crontab are served  *)
(* in any order, and the last one wins.                                    *)
(***************************************************************************)
CONSTANTS
    Proc, User,
    Valid,      \* what may be installed as a crontab
    Absent      \* what a crontab may be once it is removed

VARIABLES
    request,    \* request[p] = [reach, op]: the crontabs p may act on, and what it is to do
    tab,        \* tab[u]: u's crontab
    served,     \* served[p]: it has taken effect
    answer      \* answer[p]: "pending", "done", "failed" or "lost"

vars == <<request, tab, served, answer>>

\* One crontab becomes one of contents.  It may well be what it was.
Serve(p, contents) ==
    /\ ~served[p] /\ answer[p] \in {"pending", "lost"}
    /\ \E u \in request[p].reach, c \in contents : tab' = [tab EXCEPT ![u] = c]
    /\ served' = [served EXCEPT ![p] = TRUE]
    /\ UNCHANGED <<request, answer>>

Install(p) == request[p].op \in {"replace", "edit"} /\ Serve(p, Valid)

Remove(p) == request[p].op = "remove" /\ Serve(p, Absent)

Answer(p, a) ==
    /\ answer[p] = "pending"
    /\ answer' = [answer EXCEPT ![p] = a]
    /\ UNCHANGED <<request, tab, served>>

Done(p) == served[p] /\ Answer(p, "done")

\* Refused or failed: nothing has happened.
Fail(p) == ~served[p] /\ Answer(p, "failed")

Crash(p) == Answer(p, "lost")

Init ==
    /\ tab \in [User -> Valid \cup Absent]
    /\ served = [p \in Proc |-> FALSE]
    /\ answer = [p \in Proc |-> "pending"]

Next == \E p \in Proc : Install(p) \/ Remove(p) \/ Done(p) \/ Fail(p) \/ Crash(p)

Spec == Init /\ [][Next]_vars
=============================================================================
