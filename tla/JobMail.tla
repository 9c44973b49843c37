------------------------------- MODULE JobMail ------------------------------
(***************************************************************************)
(* Mail about a job: the OnFailure= and OnSuccess= that the generator      *)
(* writes into its service, the instances of cron-mail@.service that       *)
(* systemd starts for them when a run of the job ends, and mail_for_job,   *)
(* which looks the job up again by the name of its unit.                   *)
(*                                                                         *)
(* The crontab may be edited and reloaded at any moment, and the job may   *)
(* run again while the mail about its last run is still on its way.        *)
(* systemd itself (runs, reloads, the journal) is external.                *)
(***************************************************************************)
EXTENDS Naturals, Sequences, FiniteSets

CONSTANTS
    Definitions,        \* what the line, with its variables, may be edited to
    MaxRuns,            \* bound: runs of the job
    MaxReloads,         \* bound: edits
    Hosts               \* [HAVE_ONSUCCESS, MTA, spaced]: systemd has OnSuccess= (249);
                        \* what looking for a sendmail may give; the job only runs
                        \* again once its mail is out

VARIABLES
    host,       \* the machine, one of Hosts
    def,        \* the definition loaded
    unit,       \* [state, run, told]: ActiveState=, InvocationID= (0: never ran),
                \* and whether the run has started its own mail
    journal,    \* of each run: the label it had, whether it printed, its result
    mailer,     \* of each instance of cron-mail@: where it is, and what it read
    sent,       \* the mails, in order
    due,        \* history: failed runs that a mail is due for
    reloads

vars == <<host, def, unit, journal, mailer, sent, due, reloads>>

\* The names of the instances, their flags included.
Instances == [state : {"Failure"}, nonempty : {FALSE}, nometadata : BOOLEAN]
               \cup [state : {"Success"}, nonempty : BOOLEAN, nometadata : BOOLEAN]

NoShow == [run |-> 0, failed |-> FALSE, label |-> 0, mailto |-> ""]
Idle   == [at |-> "idle", show |-> NoShow]

-----------------------------------------------------------------------------
(* generate_service and format_on_failure *)

\* An empty MAILTO opts out.
Mails(d) == d.mailto # ""

\* Slip: CRON_MAIL_SUCCESS=never silences failures as well.
OnFailure_Quiet(d) ==
    IF Mails(d) /\ d.success # "never"
    THEN {[state |-> "Failure", nonempty |-> FALSE, nometadata |-> d.nometadata]} ELSE {}

OnFailure(d) == IF Mails(d) THEN {[state |-> "Failure", nonempty |-> FALSE, nometadata |-> d.nometadata]} ELSE {}
OnSuccess(d) ==
    IF Mails(d) /\ d.success # "never"
    THEN {[state |-> "Success", nonempty |-> d.success = "nonempty", nometadata |-> d.nometadata]} ELSE {}

\* Without OnSuccess= a second ExecStart= of the job starts the mail itself, and is ordered before it.
HeldBack(i) == ~host.HAVE_ONSUCCESS /\ i.state = "Success" /\ unit.state = "activating"

\* A start of an instance that is not idle adds nothing: systemd merges it.
Trigger(I) == [i \in Instances |-> IF i \in I /\ mailer[i].at = "idle" THEN [Idle EXCEPT !.at = "queued"] ELSE mailer[i]]

-----------------------------------------------------------------------------
(* The job and systemd *)

Reload(d) ==
    /\ reloads < MaxReloads
    /\ def' = d /\ reloads' = reloads + 1
    /\ due' = IF Mails(d) THEN due ELSE {}
    /\ UNCHANGED <<host, unit, journal, mailer, sent>>

StartRun ==
    /\ unit.state # "activating" /\ unit.run < MaxRuns
    /\ host.spaced => \A i \in Instances : mailer[i] = Idle
    /\ unit' = [state |-> "activating", run |-> unit.run + 1, told |-> FALSE]
    /\ journal' = Append(journal, [label |-> def.label, printed |-> FALSE])
    /\ UNCHANGED <<host, def, mailer, sent, due, reloads>>

PrintLine ==
    /\ unit.state = "activating" /\ ~unit.told /\ ~journal[unit.run].printed
    /\ journal' = [journal EXCEPT ![unit.run].printed = TRUE]
    /\ UNCHANGED <<host, def, unit, mailer, sent, due, reloads>>

\* onsuccess_shim: the command has succeeded, and the mail is asked for.
TellSuccess ==
    /\ ~host.HAVE_ONSUCCESS /\ unit.state = "activating" /\ ~unit.told
    /\ unit' = [unit EXCEPT !.told = TRUE]
    /\ mailer' = Trigger(OnSuccess(def))
    /\ UNCHANGED <<host, def, journal, sent, due, reloads>>

\* Slip: a run that failed is announced as one that ended, too.
EndRun_Both(ok) ==
    /\ unit.state = "activating" /\ unit.told = (ok /\ ~host.HAVE_ONSUCCESS)
    /\ unit' = [unit EXCEPT !.state = IF ok THEN "inactive" ELSE "failed"]
    /\ mailer' = Trigger((IF ok THEN {} ELSE OnFailure(def)) \cup IF host.HAVE_ONSUCCESS THEN OnSuccess(def) ELSE {})
    /\ due' = IF ~ok /\ Mails(def) THEN due \cup {unit.run} ELSE due
    /\ UNCHANGED <<host, def, journal, sent, reloads>>

\* The definition that counts is the one loaded when the run ends.
EndRun(ok) ==
    /\ unit.state = "activating" /\ unit.told = (ok /\ ~host.HAVE_ONSUCCESS)
    /\ unit' = [unit EXCEPT !.state = IF ok THEN "inactive" ELSE "failed"]
    /\ mailer' = Trigger(IF ~ok THEN OnFailure(def) ELSE IF host.HAVE_ONSUCCESS THEN OnSuccess(def) ELSE {})
    /\ due' = IF ~ok /\ Mails(def) THEN due \cup {unit.run} ELSE due
    /\ UNCHANGED <<host, def, journal, sent, reloads>>

-----------------------------------------------------------------------------
(* mail_for_job *)

Goes(i, to) == mailer' = [mailer EXCEPT ![i] = to]

MailBegin(i, found) ==
    /\ mailer[i].at = "queued" /\ ~HeldBack(i)
    /\ Goes(i, IF found THEN [Idle EXCEPT !.at = "show"] ELSE Idle)
    /\ UNCHANGED <<host, def, unit, journal, sent, due, reloads>>

\* Slip: the opt-out of a line edited meanwhile is not heeded.
MailShow_OptedOut(i) ==
    /\ mailer[i].at = "show"
    /\ Goes(i, [at |-> IF i.nonempty THEN "check" ELSE "label",
                show |-> [run |-> unit.run, failed |-> unit.state = "failed",
                          label |-> def.label, mailto |-> def.mailto]])
    /\ UNCHANGED <<host, def, unit, journal, sent, due, reloads>>

\* systemctl show: the properties of one moment.
MailShow(i) ==
    /\ mailer[i].at = "show"
    /\ Goes(i, IF def.mailto = "" THEN Idle
               ELSE [at |-> IF i.nonempty THEN "check" ELSE "label",
                     show |-> [run |-> unit.run, failed |-> unit.state = "failed",
                               label |-> def.label, mailto |-> def.mailto]])
    /\ UNCHANGED <<host, def, unit, journal, sent, due, reloads>>

\* nonempty: nothing printed, nothing sent.
MailCheck(i) ==
    /\ mailer[i].at = "check"
    /\ Goes(i, IF journal[mailer[i].show.run].printed THEN [mailer[i] EXCEPT !.at = "label"] ELSE Idle)
    /\ UNCHANGED <<host, def, unit, journal, sent, due, reloads>>

\* Slip: the subject is always the description of the unit.
MailLabel_Description(i) ==
    /\ mailer[i].at = "label"
    /\ Goes(i, [mailer[i] EXCEPT !.at = "send"])
    /\ UNCHANGED <<host, def, unit, journal, sent, due, reloads>>

\* The subject is the CRON_JOB of the run, if it left anything in the journal;
\* else the description that systemctl showed.
MailLabel(i) ==
    /\ mailer[i].at = "label"
    /\ LET run == mailer[i].show.run
       IN  Goes(i, [mailer[i] EXCEPT !.at = "send",
                       !.show.label = IF journal[run].printed THEN journal[run].label ELSE @])
    /\ UNCHANGED <<host, def, unit, journal, sent, due, reloads>>

\* The journal is read again and handed to sendmail, which may take its time.
MailSend(i) ==
    /\ mailer[i].at = "send"
    /\ LET s == mailer[i].show
       IN  /\ sent' = Append(sent, [run |-> s.run, label |-> s.label, to |-> s.mailto, state |-> i.state, nonempty |-> i.nonempty,
                                    why |-> IF s.failed THEN "Failure" ELSE "Output",
                                    body |-> journal[s.run].printed])
           /\ due' = IF s.failed THEN due \ {s.run} ELSE due
    /\ Goes(i, Idle)
    /\ UNCHANGED <<host, def, unit, journal, reloads>>

Mailer(i) == (\E found \in host.MTA : MailBegin(i, found)) \/ MailShow(i) \/ MailCheck(i) \/ MailLabel(i) \/ MailSend(i)

Init ==
    /\ host \in Hosts
    /\ def \in Definitions
    /\ unit = [state |-> "inactive", run |-> 0, told |-> FALSE] /\ journal = <<>>
    /\ mailer = [i \in Instances |-> Idle] /\ sent = <<>> /\ due = {} /\ reloads = 0

Next ==
    \/ \E d \in Definitions : Reload(d)
    \/ StartRun \/ PrintLine \/ TellSuccess \/ \E ok \in BOOLEAN : EndRun(ok)
    \/ \E i \in Instances : Mailer(i)

Spec == Init /\ [][Next]_vars

\* systemd runs the instances it has queued, and sendmail returns; runs end.
Fairness ==
    /\ \A i \in Instances : WF_vars(Mailer(i))
    /\ WF_vars(TellSuccess \/ \E ok \in BOOLEAN : EndRun(ok))

FairSpec == Spec /\ Fairness

-----------------------------------------------------------------------------
\* "The journal output and e-mail subject are correct" (systemd.cron(7)), of
\* the mails sent for output (CRON_MAIL_SUCCESS=nonempty): they have some, and
\* the subject is the line as it was when the run whose journal is sent was
\* started, however often the crontab was edited since, and whatever run the
\* job is at by now.
OutputMailsCorrect ==
    \A n \in DOMAIN sent : sent[n].nonempty => sent[n].body /\ sent[n].label = journal[sent[n].run].label

\* A line that opted out (an empty MAILTO) when mail_for_job looked is not
\* mailed about, although it was not so yet when the mail was asked for.
OptOutHeeded == \A n \in DOMAIN sent : sent[n].to # ""

\* Where the runs are spaced, each run is mailed at most once, under the reason
\* it was mailed for, however its definition changed.
OneMailPerRun ==
    host.spaced => \A n \in DOMAIN sent :
        /\ \A k \in DOMAIN sent : sent[k].run = sent[n].run => k = n
        /\ sent[n].why = IF sent[n].state = "Failure" THEN "Failure" ELSE "Output"

\* Where the runs are spaced and there is a sendmail, every failed run is
\* mailed about as such, unless the line opted out meanwhile.
SpacedFailuresReported ==
    \A r \in 1 .. MaxRuns : (r \in due /\ host.spaced /\ host.MTA = {TRUE}) ~> (r \notin due)

\* "Mail is always sent for failed jobs" (crontab(5)), unless the line opted out
\* meanwhile.
FailuresReported == \A r \in 1 .. MaxRuns : (r \in due) ~> (r \notin due)

-----------------------------------------------------------------------------
(* The inductive invariants behind them. *)

Labels   == {d.label : d \in Definitions} \cup {0}
Mailtos  == {d.mailto : d \in Definitions} \cup {""}
Entries  == [label : Labels, printed : BOOLEAN]
Shows    == [run : Nat, failed : BOOLEAN, label : Labels, mailto : Mailtos]
Mail     == [run : Nat, label : Labels, to : Mailtos, state : {"Failure", "Success"},
             nonempty : BOOLEAN, why : {"Failure", "Output"}, body : BOOLEAN]

TypeOK ==
    /\ host \in Hosts /\ def \in Definitions
    /\ unit \in [state : {"inactive", "activating", "failed"}, run : Nat, told : BOOLEAN]
    /\ journal \in Seq(Entries) /\ sent \in Seq(Mail)
    /\ mailer \in [Instances -> [at : {"idle", "queued", "show", "check", "label", "send"}, show : Shows]]

\* mail_for_job has read the properties of the job.
Looked(i) == mailer[i].at \in {"check", "label", "send"}

\* What an instance has found out so far is still so: of the run it looked at,
\* the journal and the label.
ReadInv(i) ==
    /\ mailer[i].at # "idle" => unit.run > 0
    /\ Looked(i) => mailer[i].show.run \in DOMAIN journal /\ mailer[i].show.mailto # ""
    /\ i.nonempty /\ mailer[i].at \in {"label", "send"} => journal[mailer[i].show.run].printed
    /\ i.nonempty /\ mailer[i].at = "send" =>
           mailer[i].show.label = journal[mailer[i].show.run].label

MailInv ==
    /\ TypeOK
    /\ unit.run = Len(journal) /\ (unit.state = "activating" => unit.run > 0)
    /\ \A i \in Instances : ReadInv(i)
    /\ \A n \in DOMAIN sent : sent[n].run \in DOMAIN journal
    /\ OutputMailsCorrect /\ OptOutHeeded

\* A run asks for its mail once, when it ends or just before; that mail is about
\* this run, and under way only while none is out.
Unasked == unit.state = "activating" /\ ~unit.told
Mailed  == \E n \in DOMAIN sent : sent[n].run = unit.run

AskedInv ==
    /\ unit.told => ~host.HAVE_ONSUCCESS
    /\ Unasked => ~Mailed /\ \A i \in Instances : mailer[i].at = "idle"
    /\ \A i, k \in Instances : mailer[i].at # "idle" /\ mailer[k].at # "idle" => i = k

\* The result of the run is the one the instance was started for.
ReasonInv(i) ==
    mailer[i].at # "idle" =>
        /\ ~Mailed
        /\ IF i.state = "Failure" THEN unit.state = "failed"
           ELSE unit.state = "inactive" \/ (unit.state = "activating" /\ mailer[i].at = "queued")
        /\ Looked(i) => /\ mailer[i].show.run = unit.run
                        /\ mailer[i].show.failed = (i.state = "Failure")

SpacedInv ==
    /\ host.spaced => AskedInv /\ \A i \in Instances : ReasonInv(i)
    /\ OneMailPerRun
=============================================================================
