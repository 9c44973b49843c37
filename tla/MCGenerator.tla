----------------------------- MODULE MCGenerator -----------------------------
(* /etc/crontab, two files of /etc/cron.d whose names differ only in odd     *)
(* characters, two such scripts of /etc/cron.daily, /etc/anacrontab, a user's *)
(* crontab and one that crontab(1) is still writing.                         *)
EXTENDS Generator, TLC

MCFile == {"crontab", "a.b", "ab", "logrotate", "log.rotate", "anacrontab", "joe", "joe.tmp"}
MCStage == [f \in MCFile |->
    CASE f = "crontab" -> 1 [] f \in {"a.b", "ab"} -> 2 [] f \in {"logrotate", "log.rotate"} -> 3
      [] f = "anacrontab" -> 4 [] OTHER -> 5]
MCSkipped == {"joe.tmp"}
MCUser == {"root", "joe"}
MCJobId == [f \in MCFile |-> [u \in MCUser |->
    <<IF f \in {"a.b", "ab"} THEN "ab"
      ELSE IF f = "log.rotate" THEN "logrotate" ELSE f, u>>]]
MCId == {MCJobId[f][u] : f \in MCFile, u \in MCUser}

Set(v, x) == [is |-> "variable", var |-> v, val |-> x]
Inherit(vs) == [is |-> "inherit", vars |-> vs]
Job(period, at, user, cmd) ==
    [is |-> "job", valid |-> TRUE, period |-> period, at |-> at, user |-> user,
     cmd |-> cmd, runs |-> "none", hour |-> 0]
Broken(user) == [Job("", "", user, "") EXCEPT !.valid = FALSE]
RunDaily(period, h) == [Job(period, "", "root", "run-parts") EXCEPT !.runs = "daily", !.hour = h]

\* The scripts are run as they are, and so is "x"; "y" needs a shell.
MCProgram == {"logrotate", "log.rotate", "x"}

Part == <<Job("daily", "daily", "root", "logrotate")>>

\* Who asks for which names, and who inherits it.
Naming(f, u) ==
    { <<Job("", "5m", u, "x"), Set("PERSISTENT", "yes"), Job("", "5m", u, "x"), Job("", "9m", u, "x")>>,
      <<Set("PERSISTENT", "auto"), Job("daily", "daily", u, "x"), Set("CRON_UNIQUE_UNITS", "yes"), Job("", "5m", u, "y")>>,
      <<Job("reboot", "reboot", u, "x"), Set("PERSISTENT", "no"), Broken(u), Job("daily", "daily", u, "x")>> }

\* When to send a mail, and to whom: said in /etc/crontab at its end, said
\* by a crontab itself, given back, or to nobody ("-": MAILTO is empty).
Mailing(u) ==
    { <<Job("", "5m", u, "x"), Set("CRON_MAIL_SUCCESS", "never"), Set("MAILTO", "-"), Job("", "9m", u, "y"),
        Set("CRON_MAIL_SUCCESS", "inherit"), Job("", "9m", u, "y")>>,
      <<Set("CRON_MAIL_SUCCESS", "seldom"), Set("MAILTO", "joe"), Job("", "5m", u, "x")>> }

MailCrontabs ==
    { <<Job("", "5m", "root", "x"), Set("CRON_MAIL_SUCCESS", "always"), Set("MAILTO", "boss")>>,
      <<Set("MAILTO", "boss"), Set("CRON_MAIL_SUCCESS", "never"), Inherit({"MAILTO", "CRON_MAIL_SUCCESS"}),
        Set("CRON_MAIL_SUCCESS", "inherit")>> }

MCMailConfigs ==
    { ("crontab" :> c) @@ ("ab" :> a) @@ ("logrotate" :> Part) : c \in MailCrontabs, a \in Mailing("root") }
    \cup
    { ("crontab" :> c) @@ ("anacrontab" :> Part) @@ ("joe" :> j) : c \in MailCrontabs, j \in Mailing("joe") }

\* Two scripts of /etc/cron.daily, and CRON_UNIQUE_UNITS=yes above two lines that
\* run one command at two times: names that are shared.
MCShared ==
    { ("logrotate" :> Part) @@ ("log.rotate" :> <<Job("daily", "daily", "root", "log.rotate")>>)
        @@ ("joe" :> <<Set("CRON_UNIQUE_UNITS", "yes"), Job("reboot", "reboot", "joe", "y"), Job("", "5m", "joe", "y")>>) }

MCConfigs ==
    { ("crontab" :> c) @@ ("a.b" :> a) @@ ("ab" :> b) :
        c \in { <<Inherit({"PERSISTENT"}), Set("PERSISTENT", "yes"), Inherit({"PERSISTENT", "TZ"})>>,
                <<Set("PERSISTENT", "no"), Job("daily", "daily", "root", "x")>> },
        a \in Naming("a.b", "root"), b \in Naming("ab", "root") }
    \cup
    { ("crontab" :> c) @@ ("logrotate" :> Part) @@ ("anacrontab" :> Part) @@ ("joe" :> j) @@ ("joe.tmp" :> j) :
        c \in { <<Set("TZ", "UTC"), Inherit({"TZ"}), RunDaily("", 4)>>,
                <<RunDaily("daily", 0), RunDaily("", -1), Job("minutely", "", "root", "x")>> },
        j \in Naming("joe", "joe") }
    \cup MCMailConfigs \cup MCShared

=============================================================================
