------------------------------ MODULE MCJobMail ------------------------------
(* A line in four versions: the usual one, another line with the same name,  *)
(* one that always mails and one that never does.                            *)
EXTENDS JobMail

Def(label, mailto, success, nometadata) ==
    [label |-> label, mailto |-> mailto, success |-> success, nometadata |-> nometadata]

MCDefinitions == {Def(1, "user", "nonempty", FALSE), Def(2, "paul", "nonempty", FALSE),
                  Def(1, "user", "always", TRUE), Def(2, "user", "never", FALSE), Def(1, "", "nonempty", FALSE)}

Host(onsuccess, mta, spaced) == [HAVE_ONSUCCESS |-> onsuccess, MTA |-> mta, spaced |-> spaced]

\* With and without OnSuccess=, with a sendmail or one that comes and goes.
MCHosts   == {Host(o, m, s) : o \in BOOLEAN, m \in {{TRUE}, BOOLEAN}, s \in BOOLEAN}
MCBusy    == {Host(TRUE, {TRUE}, FALSE)}
=============================================================================
