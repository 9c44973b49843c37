---------------------------- MODULE JobMailProofs ----------------------------
(***************************************************************************)
(* Proofs about JobMail, for every set of definitions and of hosts and any *)
(* number of runs and edits: what the mails for output say, that an        *)
(* opt-out is heeded, and that spaced runs are mailed about once.          *)
(***************************************************************************)
EXTENDS JobMail, TLAPS

\* The instances, and what is written of them.
LEMMA InstanceFacts ==
    \A i \in Instances : i.state \in {"Failure", "Success"} /\ i.nonempty \in BOOLEAN
BY DEF Instances

LEMMA IdleFacts == Idle.at = "idle" /\ Idle \in [at : {"idle"}, show : Shows]
BY DEF Idle, NoShow, Shows, Labels, Mailtos

LEMMA AskedFacts ==
    ASSUME NEW d
    PROVE  /\ \A i, k \in OnFailure(d) : i = k /\ i.state = "Failure"
           /\ \A i, k \in OnSuccess(d) : i = k /\ i.state = "Success"
<1>1. \A i, k \in OnFailure(d) : i = k /\ i.state = "Failure"
  <2> DEFINE f == [state |-> "Failure", nonempty |-> FALSE, nometadata |-> d.nometadata]
  <2>1. f.state = "Failure"
    OBVIOUS
  <2>2. \A i \in OnFailure(d) : i = f
    BY DEF OnFailure
  <2> HIDE DEF f
  <2> QED BY <2>1, <2>2
<1>2. \A i, k \in OnSuccess(d) : i = k /\ i.state = "Success"
  <2> DEFINE s == [state |-> "Success", nonempty |-> d.success = "nonempty", nometadata |-> d.nometadata]
  <2>1. s.state = "Success"
    OBVIOUS
  <2>2. \A i \in OnSuccess(d) : i = s
    BY DEF OnSuccess
  <2> HIDE DEF s
  <2> QED BY <2>1, <2>2
<1> QED BY <1>1, <1>2

\* The journal is one of entries, by run.
LEMMA JournalFacts ==
    ASSUME TypeOK
    PROVE  /\ Len(journal) \in Nat /\ DOMAIN journal = 1 .. Len(journal)
           /\ \A r \in DOMAIN journal : /\ journal[r] \in Entries /\ journal[r].label \in Labels
                                        /\ journal[r].printed \in BOOLEAN
<1>1. Len(journal) \in Nat /\ DOMAIN journal = 1 .. Len(journal)
  BY DEF TypeOK
<1>2. \A r \in DOMAIN journal : journal[r] \in Entries
  BY DEF TypeOK
<1>3. \A e \in Entries : e.label \in Labels /\ e.printed \in BOOLEAN
  BY DEF Entries
<1> QED BY <1>1, <1>2, <1>3

\* What an instance keeps.
LEMMA MailerFacts ==
    ASSUME TypeOK, NEW i \in Instances
    PROVE  /\ mailer[i] \in [at : {"idle", "queued", "show", "check", "label", "send"}, show : Shows]
           /\ mailer[i].show \in Shows /\ mailer[i].show.label \in Labels
BY DEF TypeOK, Shows

\* Trigger() has some of the idle instances queued.
LEMMA TriggerFacts ==
    ASSUME TypeOK, NEW I, mailer' = Trigger(I)
    PROVE  /\ mailer' \in [Instances -> [at : {"idle", "queued", "show", "check", "label", "send"}, show : Shows]]
           /\ \A i \in Instances : \/ mailer'[i] = mailer[i]
                                   \/ i \in I /\ mailer[i].at = "idle" /\ mailer'[i].at = "queued"
<1> DEFINE q == [Idle EXCEPT !.at = "queued"]
<1>1. q.at = "queued" /\ q \in [at : {"queued"}, show : Shows]
  BY IdleFacts
<1>2. mailer' = [i \in Instances |-> IF i \in I /\ mailer[i].at = "idle" THEN q ELSE mailer[i]]
  BY DEF Trigger
<1> HIDE DEF q
<1> QED BY <1>1, <1>2 DEF TypeOK

\* Goes(i, to) moves the instance i, and leaves the others where they are.
LEMMA GoesFacts ==
    ASSUME TypeOK, NEW i \in Instances, NEW to, Goes(i, to)
    PROVE  mailer'[i] = to /\ \A k \in Instances : k # i => mailer'[k] = mailer[k]
BY DEF Goes, TypeOK

\* ... to a place that is one.
LEMMA GoesType ==
    ASSUME TypeOK, NEW i \in Instances, NEW to, Goes(i, to),
           to \in [at : {"idle", "queued", "show", "check", "label", "send"}, show : Shows]
    PROVE  mailer' \in [Instances -> [at : {"idle", "queued", "show", "check", "label", "send"}, show : Shows]]
BY DEF Goes, TypeOK

-----------------------------------------------------------------------------
(* What becomes of an instance. *)

\* The journal of a run only grows, and keeps the label.
JournalKept ==
    /\ \A r \in DOMAIN journal : /\ r \in DOMAIN journal'
                                 /\ journal'[r].label = journal[r].label
                                 /\ journal[r].printed => journal'[r].printed

\* What an instance has found out stays true while the journal is kept.
LEMMA ReadKept ==
    ASSUME TypeOK, NEW i \in Instances, ReadInv(i), JournalKept, unit'.run >= unit.run, unit'.run \in Nat,
           mailer'[i] = mailer[i]
    PROVE  ReadInv(i)'
<1>1. unit.run \in Nat
  BY DEF TypeOK
<1>2. mailer'[i].at # "idle" => unit'.run > 0
  <2>1. mailer[i].at # "idle" => unit.run > 0
    BY DEF ReadInv
  <2> QED BY <1>1, <2>1
<1>3. Looked(i)' => mailer'[i].show.run \in DOMAIN journal' /\ mailer'[i].show.mailto # ""
  BY DEF ReadInv, Looked, JournalKept
<1>4. ASSUME i.nonempty, mailer'[i].at \in {"label", "send"}
      PROVE  /\ journal'[mailer'[i].show.run].printed
             /\ mailer'[i].at = "send" => mailer'[i].show.label = journal'[mailer'[i].show.run].label
  <2>1. mailer[i].show.run \in DOMAIN journal /\ journal[mailer[i].show.run].printed
    BY <1>4 DEF ReadInv, Looked
  <2>2. mailer[i].at = "send" => mailer[i].show.label = journal[mailer[i].show.run].label
    BY <1>4 DEF ReadInv
  <2> QED BY <2>1, <2>2 DEF JournalKept
<1> QED BY <1>2, <1>3, <1>4 DEF ReadInv

\* An instance that is queued, or idle, has found out nothing.
LEMMA ReadNothing ==
    ASSUME NEW i \in Instances, mailer'[i].at \in {"idle", "queued", "show"},
           mailer'[i].at = "idle" \/ unit'.run > 0
    PROVE  ReadInv(i)'
BY DEF ReadInv, Looked

\* The mails that are out are about runs whose journal is kept.
LEMMA SentKept ==
    ASSUME MailInv, JournalKept, UNCHANGED sent
    PROVE  /\ \A n \in DOMAIN sent' : sent'[n].run \in DOMAIN journal'
           /\ OutputMailsCorrect' /\ OptOutHeeded'
BY DEF MailInv, JournalKept, OutputMailsCorrect, OptOutHeeded

\* The steps of the job itself: they leave the instances, or queue some.
LEMMA JobSteps ==
    ASSUME MailInv, TypeOK', JournalKept, UNCHANGED sent,
           unit'.run = Len(journal'), unit'.run >= unit.run, unit'.state = "activating" => unit'.run > 0,
           \A i \in Instances : mailer'[i] = mailer[i] \/ (mailer'[i].at = "queued" /\ unit'.run > 0)
    PROVE  MailInv'
<1>1. ASSUME NEW i \in Instances PROVE ReadInv(i)'
  <2>1. CASE mailer'[i] = mailer[i]
    BY <2>1, ReadKept DEF MailInv, TypeOK
  <2>2. CASE mailer'[i].at = "queued" /\ unit'.run > 0
    BY <2>2, ReadNothing
  <2> QED BY <2>1, <2>2
<1> QED BY <1>1, SentKept DEF MailInv

LEMMA StartRunKeeps == ASSUME MailInv, StartRun PROVE MailInv'
<1> DEFINE e == [label |-> def.label, printed |-> FALSE]
<1>1. /\ unit' = [state |-> "activating", run |-> unit.run + 1, told |-> FALSE]
      /\ journal' = Append(journal, e)
      /\ UNCHANGED <<host, def, mailer, sent>>
  BY DEF StartRun
<1>2. e \in Entries
  BY DEF MailInv, TypeOK, Entries, Labels
<1> HIDE DEF e
<1>3. /\ journal' \in Seq(Entries) /\ Len(journal') = Len(journal) + 1
      /\ \A r \in 1..Len(journal) : journal'[r] = journal[r]
  BY <1>1, <1>2 DEF MailInv, TypeOK
<1>4. TypeOK'
  BY <1>1, <1>3 DEF MailInv, TypeOK
<1>5. JournalKept
  BY <1>3 DEF JournalKept, MailInv, TypeOK
<1> QED BY <1>1, <1>3, <1>4, <1>5, JobSteps DEF MailInv, TypeOK

LEMMA PrintLineKeeps == ASSUME MailInv, PrintLine PROVE MailInv'
<1>1. /\ unit.run \in 1..Len(journal)
      /\ journal' = [journal EXCEPT ![unit.run].printed = TRUE]
      /\ UNCHANGED <<host, def, unit, mailer, sent>>
  BY DEF PrintLine, MailInv, TypeOK
<1>2. /\ journal' \in Seq(Entries) /\ Len(journal') = Len(journal)
      /\ \A r \in 1..Len(journal) : /\ journal'[r].label = journal[r].label
                                    /\ journal[r].printed => journal'[r].printed
  <2> DEFINE e == [journal[unit.run] EXCEPT !.printed = TRUE]
  <2>0. journal \in Seq(Entries)
    BY DEF MailInv, TypeOK
  <2>2. \A r \in 1..Len(journal) : journal[r] \in Entries
    BY <2>0
  <2>4. e \in Entries /\ journal' = [journal EXCEPT ![unit.run] = e]
    BY <1>1, <2>2 DEF Entries
  <2>1. /\ journal \in Seq(Entries) /\ journal' \in Seq(Entries) /\ Len(journal') = Len(journal)
        /\ \A r \in 1..Len(journal) :
              journal'[r] = IF r = unit.run THEN [journal[r] EXCEPT !.printed = TRUE] ELSE journal[r]
    <3> HIDE DEF e
    <3>1. journal' \in Seq(Entries) /\ Len(journal') = Len(journal)
      BY <1>1, <2>0, <2>4
    <3>2. \A r \in 1..Len(journal) : journal'[r] = IF r = unit.run THEN e ELSE journal[r]
      BY <1>1, <2>0, <2>4
    <3> QED BY <2>0, <3>1, <3>2 DEF e
  <2>3. ASSUME NEW r \in 1..Len(journal)
        PROVE  /\ journal'[r].label = journal[r].label
               /\ journal[r].printed => journal'[r].printed
    BY <2>1, <2>2 DEF Entries
  <2> QED BY <2>1, <2>3
<1>3. TypeOK'
  BY <1>1, <1>2 DEF MailInv, TypeOK
<1>4. JournalKept
  BY <1>2 DEF JournalKept, MailInv, TypeOK
<1> QED BY <1>1, <1>2, <1>3, <1>4, JobSteps DEF MailInv, TypeOK

\* A run that tells of its success, or ends, queues the instance it is for.
LEMMA EndKeeps ==
    ASSUME MailInv, NEW ok \in BOOLEAN, TellSuccess \/ EndRun(ok)
    PROVE  MailInv'
<1>1. PICK I : mailer' = Trigger(I)
  BY DEF TellSuccess, EndRun
<1>2. /\ unit.state = "activating" /\ unit'.run = unit.run
      /\ unit' \in [state : {"inactive", "activating", "failed"}, run : Nat, told : BOOLEAN]
      /\ UNCHANGED <<host, def, journal, sent>>
  BY DEF TellSuccess, EndRun, MailInv, TypeOK
<1>3. TypeOK' /\ \A i \in Instances : mailer'[i] = mailer[i] \/ mailer'[i].at = "queued"
  BY <1>1, <1>2, TriggerFacts DEF MailInv, TypeOK
<1>4. JournalKept
  BY <1>2 DEF JournalKept
<1> QED BY <1>2, <1>3, <1>4, JobSteps DEF MailInv, TypeOK

-----------------------------------------------------------------------------
(* The steps of mail_for_job. *)

\* A step before the mail is out: all but the instance stays.
LEMMA InstanceSteps ==
    ASSUME MailInv, NEW i \in Instances, UNCHANGED <<host, def, unit, journal, sent>>,
           NEW to \in [at : {"idle", "queued", "show", "check", "label", "send"}, show : Shows],
           Goes(i, to), ReadInv(i)'
    PROVE  MailInv'
<1>1. TypeOK'
  BY GoesType DEF MailInv, TypeOK
<1>2. JournalKept
  BY DEF JournalKept
<1>3. \A k \in Instances : ReadInv(k)'
  BY <1>2, GoesFacts, ReadKept DEF MailInv, TypeOK
<1> QED BY <1>1, <1>2, <1>3, SentKept DEF MailInv

LEMMA BeginKeeps ==
    ASSUME MailInv, NEW i \in Instances, NEW found \in host.MTA, MailBegin(i, found)
    PROVE  MailInv'
<1> DEFINE to == IF found THEN [Idle EXCEPT !.at = "show"] ELSE Idle
<1>1. to.at \in {"idle", "show"} /\ to \in [at : {"idle", "show"}, show : Shows]
  BY IdleFacts
<1>2. Goes(i, to) /\ UNCHANGED <<host, def, unit, journal, sent>> /\ mailer[i].at = "queued"
  BY DEF MailBegin
<1> HIDE DEF to
<1>3. mailer'[i] = to
  BY <1>2, GoesFacts DEF MailInv
<1>4. ReadInv(i)'
  BY <1>1, <1>2, <1>3, ReadNothing DEF MailInv, ReadInv
<1> QED BY <1>1, <1>2, <1>4, InstanceSteps

LEMMA ShowKeeps == ASSUME MailInv, NEW i \in Instances, MailShow(i) PROVE MailInv'
<1> DEFINE show == [run |-> unit.run, failed |-> unit.state = "failed",
                    label |-> def.label, mailto |-> def.mailto]
           to == IF def.mailto = "" THEN Idle
                 ELSE [at |-> IF i.nonempty THEN "check" ELSE "label", show |-> show]
<1>1. mailer[i].at = "show" /\ Goes(i, to) /\ UNCHANGED <<host, def, unit, journal, sent>>
  BY DEF MailShow
<1>2. show \in Shows
  BY DEF Shows, Labels, Mailtos, MailInv, TypeOK
<1>3. to \in [at : {"idle", "queued", "show", "check", "label", "send"}, show : Shows]
  BY <1>2, IdleFacts
<1>4. mailer'[i] = to
  <2> HIDE DEF to
  <2> QED BY <1>1, GoesFacts DEF MailInv
<1>5. unit.run > 0 /\ unit.run \in DOMAIN journal
  <2>1. unit.run > 0 /\ unit.run = Len(journal) /\ TypeOK
    BY <1>1 DEF MailInv, ReadInv
  <2> QED BY <2>1, JournalFacts
<1>6. ReadInv(i)'
  <2>1. CASE def.mailto = ""
    BY <1>4, <2>1, IdleFacts, ReadNothing
  <2>2. CASE def.mailto # ""
    <3> HIDE DEF show
    <3>1. /\ mailer'[i].at = (IF i.nonempty THEN "check" ELSE "label")
          /\ mailer'[i].show.run = unit.run /\ mailer'[i].show.mailto = def.mailto
      <4>1. show.run = unit.run /\ show.mailto = def.mailto
        BY DEF show
      <4>2. mailer'[i] = [at |-> IF i.nonempty THEN "check" ELSE "label", show |-> show]
        BY <1>4, <2>2
      <4> QED BY <4>1, <4>2
    <3> QED BY <1>1, <1>5, <2>2, <3>1 DEF ReadInv, Looked
  <2> QED BY <2>1, <2>2
<1> HIDE DEF to
<1> QED BY <1>1, <1>3, <1>6, InstanceSteps

LEMMA CheckKeeps == ASSUME MailInv, NEW i \in Instances, MailCheck(i) PROVE MailInv'
<1> DEFINE to == IF journal[mailer[i].show.run].printed THEN [mailer[i] EXCEPT !.at = "label"] ELSE Idle
<1>1. mailer[i].at = "check" /\ Goes(i, to) /\ UNCHANGED <<host, def, unit, journal, sent>>
  BY DEF MailCheck
<1>2. mailer[i] \in [at : {"idle", "queued", "show", "check", "label", "send"}, show : Shows]
  BY DEF MailInv, TypeOK
<1>3. to \in [at : {"idle", "queued", "show", "check", "label", "send"}, show : Shows]
  BY <1>2, IdleFacts
<1>4. mailer'[i] = to
  BY <1>1, GoesFacts DEF MailInv
<1>5. ReadInv(i)'
  <2>1. CASE journal[mailer[i].show.run].printed
    <3>1. mailer'[i].at = "label" /\ mailer'[i].show = mailer[i].show
      BY <1>2, <1>4, <2>1
    <3> QED BY <1>1, <2>1, <3>1 DEF ReadInv, Looked, MailInv
  <2>2. CASE ~journal[mailer[i].show.run].printed
    BY <1>4, <2>2, IdleFacts, ReadNothing
  <2> QED BY <2>1, <2>2
<1> HIDE DEF to
<1> QED BY <1>1, <1>3, <1>5, InstanceSteps

LEMMA LabelKeeps == ASSUME MailInv, NEW i \in Instances, MailLabel(i) PROVE MailInv'
<1> DEFINE run == mailer[i].show.run
           l == IF journal[run].printed THEN journal[run].label ELSE mailer[i].show.label
           to == [mailer[i] EXCEPT !.at = "send", !.show.label = l]
<1>1. /\ mailer[i].at = "label" /\ UNCHANGED <<host, def, unit, journal, sent>>
      /\ Goes(i, [mailer[i] EXCEPT !.at = "send",
                     !.show.label = IF journal[run].printed THEN journal[run].label ELSE @])
  BY DEF MailLabel
<1>2. /\ mailer[i] \in [at : {"idle", "queued", "show", "check", "label", "send"}, show : Shows]
      /\ mailer[i].show \in Shows
  BY DEF MailInv, TypeOK
<1>3. run \in 1..Len(journal) /\ run \in DOMAIN journal /\ mailer[i].show.mailto # ""
  <2>1. run \in DOMAIN journal /\ mailer[i].show.mailto # ""
    BY <1>1 DEF MailInv, ReadInv, Looked
  <2> QED BY <2>1, JournalFacts DEF MailInv
<1>4. l \in Labels
  BY <1>3, JournalFacts, MailerFacts DEF MailInv
<1>5. Goes(i, to)
  BY <1>1, <1>2 DEF Goes, Shows
<1> HIDE DEF l
<1>6. /\ to \in [at : {"idle", "queued", "show", "check", "label", "send"}, show : Shows]
      /\ to.at = "send" /\ to.show.run = run /\ to.show.label = l
      /\ to.show.mailto = mailer[i].show.mailto
  BY <1>2, <1>4 DEF Shows
<1>7. mailer'[i] = to
  BY <1>5, GoesFacts DEF MailInv
<1> HIDE DEF to
<1>8. ReadInv(i)'
  <2>1. i.nonempty => journal[run].printed /\ l = journal[run].label
    BY <1>1 DEF ReadInv, MailInv, l
  <2> QED BY <1>1, <1>3, <1>6, <1>7, <2>1 DEF ReadInv, Looked, MailInv
<1> QED BY <1>1, <1>5, <1>6, <1>8, InstanceSteps

\* The mail that i sends.
MailOf(i) ==
    [run |-> mailer[i].show.run, label |-> mailer[i].show.label, to |-> mailer[i].show.mailto,
     state |-> i.state, nonempty |-> i.nonempty,
     why |-> IF mailer[i].show.failed THEN "Failure" ELSE "Output",
     body |-> journal[mailer[i].show.run].printed]

LEMMA SendFacts ==
    ASSUME MailInv, NEW i \in Instances, MailSend(i)
    PROVE  /\ mailer[i].at = "send" /\ Goes(i, Idle) /\ UNCHANGED <<host, def, unit, journal>>
           /\ MailOf(i) \in Mail /\ sent' = Append(sent, MailOf(i))
           /\ sent' \in Seq(Mail) /\ DOMAIN sent' = DOMAIN sent \cup {Len(sent) + 1}
           /\ Len(sent) + 1 \notin DOMAIN sent /\ sent'[Len(sent) + 1] = MailOf(i)
           /\ \A n \in DOMAIN sent : sent'[n] = sent[n]
           /\ mailer'[i] = Idle /\ \A k \in Instances : k # i => mailer'[k] = mailer[k]
<1>1. mailer[i].at = "send" /\ Goes(i, Idle) /\ UNCHANGED <<host, def, unit, journal>>
  BY DEF MailSend
<1>2. sent' = Append(sent, MailOf(i))
  BY DEF MailSend, MailOf
<1>3. mailer[i].show \in Shows /\ mailer[i].show.run \in DOMAIN journal
  BY <1>1, MailerFacts DEF MailInv, ReadInv, Looked
<1>4. journal[mailer[i].show.run].printed \in BOOLEAN
  BY <1>3, JournalFacts DEF MailInv
<1>5. MailOf(i) \in Mail
  BY <1>3, <1>4, InstanceFacts DEF MailOf, Mail, Shows
<1>6. sent \in Seq(Mail)
  BY DEF MailInv, TypeOK
<1> QED BY <1>1, <1>2, <1>5, <1>6, GoesFacts DEF MailInv

LEMMA SendKeeps == ASSUME MailInv, NEW i \in Instances, MailSend(i) PROVE MailInv'
<1> DEFINE m == MailOf(i)
<1>1. TypeOK'
  BY SendFacts, IdleFacts, GoesType DEF MailInv, TypeOK
<1>2. JournalKept
  BY SendFacts DEF JournalKept
<1>3. \A k \in Instances : ReadInv(k)'
  <2> SUFFICES ASSUME NEW k \in Instances PROVE ReadInv(k)'
    OBVIOUS
  <2>1. CASE k = i
    BY <2>1, SendFacts, IdleFacts, ReadNothing
  <2>2. CASE k # i
    BY <1>2, <2>2, SendFacts, ReadKept DEF MailInv, TypeOK
  <2> QED BY <2>1, <2>2
<1>4. /\ m.run \in DOMAIN journal /\ m.to # ""
      /\ m.nonempty => m.body /\ m.label = journal[m.run].label
  BY SendFacts DEF MailInv, ReadInv, Looked, MailOf
<1> HIDE DEF m
<1>5. \A n \in DOMAIN sent' : (n \in DOMAIN sent /\ sent'[n] = sent[n]) \/ sent'[n] = m
  BY SendFacts DEF m
<1>6. \A n \in DOMAIN sent' : sent'[n].run \in DOMAIN journal'
  BY <1>4, <1>5, SendFacts DEF MailInv
<1>7. OutputMailsCorrect'
  BY <1>4, <1>5, SendFacts DEF MailInv, OutputMailsCorrect
<1>8. OptOutHeeded'
  BY <1>4, <1>5, SendFacts DEF MailInv, OptOutHeeded
<1>9. unit'.run = Len(journal') /\ (unit'.state = "activating" => unit'.run > 0)
  BY SendFacts DEF MailInv
<1> QED BY <1>1, <1>3, <1>6, <1>7, <1>8, <1>9 DEF MailInv

-----------------------------------------------------------------------------
LEMMA MailInitially == Init => MailInv
<1> SUFFICES ASSUME Init PROVE MailInv
  OBVIOUS
<1>1. TypeOK
  BY IdleFacts DEF Init, TypeOK
<1>2. \A i \in Instances : ReadInv(i)
  BY IdleFacts DEF Init, ReadInv, Looked
<1> QED BY <1>1, <1>2 DEF Init, MailInv, OutputMailsCorrect, OptOutHeeded

\* Every step keeps the invariant.
LEMMA MailInductive == MailInv /\ [Next]_vars => MailInv'
<1> SUFFICES ASSUME MailInv, [Next]_vars PROVE MailInv'
  OBVIOUS
<1>1. CASE (\E d \in Definitions : Reload(d)) \/ UNCHANGED vars
  <2>1. def' \in Definitions /\ UNCHANGED <<host, unit, journal, mailer, sent>>
    BY <1>1 DEF Reload, vars, MailInv, TypeOK
  <2>2. TypeOK'
    BY <2>1 DEF MailInv, TypeOK
  <2>3. JournalKept
    BY <2>1 DEF JournalKept
  <2> QED BY <2>1, <2>2, <2>3, JobSteps DEF MailInv, TypeOK
<1>2. CASE TellSuccess \/ \E ok \in BOOLEAN : EndRun(ok)
  BY <1>2, EndKeeps
<1>3. CASE \E i \in Instances : Mailer(i)
  BY <1>3, BeginKeeps, ShowKeeps, CheckKeeps, LabelKeeps, SendKeeps DEF Mailer
<1> QED BY <1>1, <1>2, <1>3, StartRunKeeps, PrintLineKeeps DEF Next

LEMMA MailInvariant == Spec => []MailInv
<1> QED BY MailInitially, MailInductive, PTL DEF Spec

\* However often the crontab is edited, and the job run again, between the
\* steps of mail_for_job: the mails for output have some, under the line of the
\* run that it is the output of.
THEOREM OutputMailsAreCorrect == Spec => []OutputMailsCorrect
<1>1. MailInv => OutputMailsCorrect
  BY DEF MailInv
<1> QED BY <1>1, MailInvariant, PTL

\* No mail goes to nobody: an empty MAILTO is heeded when mail_for_job looks.
THEOREM OptOutIsHeeded == Spec => []OptOutHeeded
<1>1. MailInv => OptOutHeeded
  BY DEF MailInv
<1> QED BY <1>1, MailInvariant, PTL

-----------------------------------------------------------------------------
(* Hosts on which the runs are spaced. *)

\* Mails are only about runs there were.
LEMMA SentRuns == ASSUME MailInv PROVE \A n \in DOMAIN sent : sent[n].run \in 1 .. unit.run
<1>1. DOMAIN journal = 1 .. unit.run
  BY JournalFacts DEF MailInv
<1> QED BY <1>1 DEF MailInv

\* What an instance is at depends on the state of the unit, the mails and its
\* own state only.
LEMMA AskedKept ==
    ASSUME AskedInv, \A i \in Instances : ReasonInv(i), UNCHANGED <<host, unit, mailer, sent>>
    PROVE  AskedInv' /\ \A i \in Instances : ReasonInv(i)'
BY DEF AskedInv, ReasonInv, Unasked, Mailed, Looked

LEMMA SentOnceKept ==
    ASSUME SpacedInv, UNCHANGED <<host, sent>> PROVE OneMailPerRun'
BY DEF SpacedInv, OneMailPerRun

\* A run starts when the mails about the last one are out.
LEMMA StartRunSpaced ==
    ASSUME MailInv, SpacedInv, host.spaced, StartRun
    PROVE  AskedInv' /\ \A i \in Instances : ReasonInv(i)'
<1>1. /\ unit' = [state |-> "activating", run |-> unit.run + 1, told |-> FALSE]
      /\ unit.run \in Nat /\ UNCHANGED <<host, mailer, sent>>
      /\ \A i \in Instances : mailer[i].at = "idle"
  BY IdleFacts DEF StartRun, MailInv, TypeOK
<1>2. unit'.run = unit.run + 1 /\ ~unit'.told
  BY <1>1
<1>3. ~Mailed'
  BY <1>1, <1>2, SentRuns DEF Mailed
<1>4. \A i \in Instances : mailer'[i].at = "idle"
  BY <1>1
<1> QED BY <1>2, <1>3, <1>4 DEF AskedInv, ReasonInv

\* The end of a run that has not asked for its mail yet, or the moment it does.
LEMMA FirstAsked ==
    ASSUME MailInv, AskedInv, Unasked, NEW I, mailer' = Trigger(I),
           UNCHANGED <<host, sent>>, unit'.run = unit.run, unit'.told => ~host.HAVE_ONSUCCESS,
           unit'.state # "activating" \/ unit'.told,
           \A i, k \in I : i = k,
           \A i \in I \cap Instances :
               IF i.state = "Failure" THEN unit'.state = "failed" ELSE unit'.state \in {"inactive", "activating"}
    PROVE  AskedInv' /\ \A i \in Instances : ReasonInv(i)'
<1>1. ~Mailed' /\ ~Unasked'
  BY DEF AskedInv, Mailed, Unasked
<1>2. \A i \in Instances : mailer'[i].at = "idle" \/ (i \in I /\ mailer'[i].at = "queued")
  BY TriggerFacts DEF AskedInv, MailInv
<1>3. AskedInv'
  BY <1>1, <1>2 DEF AskedInv
<1>4. \A i \in Instances : ReasonInv(i)'
  BY <1>1, <1>2 DEF ReasonInv, Looked
<1> QED BY <1>3, <1>4

LEMMA TellSuccessSpaced ==
    ASSUME MailInv, SpacedInv, host.spaced, TellSuccess
    PROVE  AskedInv' /\ \A i \in Instances : ReasonInv(i)'
<1>1. AskedInv /\ Unasked /\ ~host.HAVE_ONSUCCESS
  BY DEF SpacedInv, TellSuccess, Unasked
<1>2. mailer' = Trigger(OnSuccess(def)) /\ UNCHANGED <<host, sent>>
  BY DEF TellSuccess
<1>3. unit'.run = unit.run /\ unit'.told /\ unit'.state = "activating"
  BY <1>1 DEF TellSuccess, MailInv, TypeOK, Unasked
<1> QED BY <1>1, <1>2, <1>3, FirstAsked, AskedFacts

LEMMA EndRunSpaced ==
    ASSUME MailInv, SpacedInv, host.spaced, NEW ok \in BOOLEAN, EndRun(ok)
    PROVE  AskedInv' /\ \A i \in Instances : ReasonInv(i)'
<1>1. AskedInv /\ (\A i \in Instances : ReasonInv(i)) /\ unit.state = "activating"
  BY DEF SpacedInv, EndRun
<1>2. /\ unit'.run = unit.run /\ unit'.told = unit.told
      /\ unit'.state = (IF ok THEN "inactive" ELSE "failed")
      /\ UNCHANGED <<host, sent>>
  BY DEF EndRun, MailInv, TypeOK
<1>3. CASE unit.told
  <2>1. ok /\ ~host.HAVE_ONSUCCESS
    BY <1>3 DEF EndRun
  <2>2. mailer' = Trigger({})
    BY <2>1 DEF EndRun
  <2>3. \A i \in Instances : mailer'[i] = mailer[i]
    BY <2>2, TriggerFacts DEF MailInv
  <2>4. unit'.state = "inactive"
    BY <1>2, <2>1
  <2>5. AskedInv'
    BY <1>1, <1>2, <2>1, <2>3, <2>4 DEF AskedInv, Unasked
  <2>6. \A i \in Instances : ReasonInv(i)'
    BY <1>1, <1>2, <2>3, <2>4 DEF ReasonInv, Looked, Mailed
  <2> QED BY <2>5, <2>6
<1>4. CASE ~unit.told
  <2>1. Unasked
    BY <1>1, <1>4 DEF Unasked
  <2>2. CASE ok
    <3>1. mailer' = Trigger(OnSuccess(def))
      BY <1>4, <2>2 DEF EndRun
    <3>2. unit'.state = "inactive" /\ ~unit'.told
      BY <1>2, <1>4, <2>2
    <3> QED BY <1>1, <1>2, <2>1, <3>1, <3>2, FirstAsked, AskedFacts
  <2>3. CASE ~ok
    <3>1. mailer' = Trigger(OnFailure(def))
      BY <2>3 DEF EndRun
    <3>2. unit'.state = "failed" /\ ~unit'.told
      BY <1>2, <1>4, <2>3
    <3> QED BY <1>1, <1>2, <2>1, <3>1, <3>2, FirstAsked, AskedFacts
  <2> QED BY <2>2, <2>3
<1> QED BY <1>3, <1>4

\* A step of the one instance that is at work.
LEMMA InstanceSpaced ==
    ASSUME MailInv, SpacedInv, host.spaced, NEW i \in Instances, mailer[i].at # "idle",
           UNCHANGED <<host, unit, sent>>, NEW to, Goes(i, to),
           to.at \in {"idle", "show", "check", "label", "send"},
           mailer[i].at = "queued" => ~HeldBack(i),
           to.at \in {"check", "label", "send"} =>
               to.show.run = unit.run /\ to.show.failed = (unit.state = "failed")
    PROVE  AskedInv' /\ \A k \in Instances : ReasonInv(k)'
<1>1. mailer'[i] = to /\ \A k \in Instances : k # i => mailer'[k] = mailer[k]
  BY GoesFacts DEF MailInv
<1>2. AskedInv /\ ReasonInv(i) /\ ~Unasked
  BY DEF SpacedInv, AskedInv
<1>3. \A k \in Instances : k # i => mailer[k].at = "idle" /\ mailer'[k].at = "idle"
  BY <1>1, <1>2 DEF AskedInv
<1>4. AskedInv'
  BY <1>2, <1>3 DEF AskedInv, Unasked
<1>5. ReasonInv(i)'
  <2> SUFFICES ASSUME to.at # "idle" PROVE ReasonInv(i)'
    BY <1>1 DEF ReasonInv
  <2>1. ~Mailed'
    BY <1>2 DEF ReasonInv, Mailed
  <2>2. unit.state = IF i.state = "Failure" THEN "failed" ELSE "inactive"
    BY <1>2, InstanceFacts DEF ReasonInv, HeldBack, AskedInv, Unasked
  <2> QED BY <1>1, <2>1, <2>2 DEF ReasonInv, Looked
<1>6. ASSUME NEW k \in Instances, k # i PROVE ReasonInv(k)'
  BY <1>3, <1>6 DEF ReasonInv
<1> QED BY <1>4, <1>5, <1>6


LEMMA BeginSpaced ==
    ASSUME MailInv, SpacedInv, host.spaced, NEW i \in Instances, NEW found \in host.MTA, MailBegin(i, found)
    PROVE  AskedInv' /\ \A k \in Instances : ReasonInv(k)'
<1> DEFINE to == IF found THEN [Idle EXCEPT !.at = "show"] ELSE Idle
<1>1. to.at \in {"idle", "show"}
  BY IdleFacts
<1>2. Goes(i, to) /\ UNCHANGED <<host, unit, sent>> /\ mailer[i].at = "queued" /\ ~HeldBack(i)
  BY DEF MailBegin
<1> HIDE DEF to
<1> QED BY <1>1, <1>2, InstanceSpaced

LEMMA ShowSpaced ==
    ASSUME MailInv, SpacedInv, host.spaced, NEW i \in Instances, MailShow(i)
    PROVE  AskedInv' /\ \A k \in Instances : ReasonInv(k)'
<1> DEFINE show == [run |-> unit.run, failed |-> unit.state = "failed",
                    label |-> def.label, mailto |-> def.mailto]
           to == IF def.mailto = "" THEN Idle
                 ELSE [at |-> IF i.nonempty THEN "check" ELSE "label", show |-> show]
<1>1. mailer[i].at = "show" /\ Goes(i, to) /\ UNCHANGED <<host, unit, sent>>
  BY DEF MailShow
<1>2. show.run = unit.run /\ show.failed = (unit.state = "failed")
  OBVIOUS
<1> HIDE DEF show
<1>3. to.at \in {"idle", "check", "label"} /\ (to.at # "idle" => to.show = show)
  BY IdleFacts
<1> HIDE DEF to
<1> QED BY <1>1, <1>2, <1>3, InstanceSpaced

\* The later steps of an instance keep what it has read.
LEMMA ReadSpaced ==
    ASSUME MailInv, SpacedInv, host.spaced, NEW i \in Instances, Looked(i), UNCHANGED <<host, unit, sent>>,
           NEW to, Goes(i, to), to.at \in {"idle", "label", "send"},
           to.at # "idle" => to.show.run = mailer[i].show.run /\ to.show.failed = mailer[i].show.failed
    PROVE  AskedInv' /\ \A k \in Instances : ReasonInv(k)'
<1>1. ReasonInv(i) /\ mailer[i].at # "idle" /\ mailer[i].at # "queued"
  BY DEF SpacedInv, Looked
<1>2. mailer[i].show.run = unit.run /\ mailer[i].show.failed = (unit.state = "failed")
  BY <1>1, InstanceFacts DEF ReasonInv
<1> QED BY <1>1, <1>2, InstanceSpaced

LEMMA CheckSpaced ==
    ASSUME MailInv, SpacedInv, host.spaced, NEW i \in Instances, MailCheck(i)
    PROVE  AskedInv' /\ \A k \in Instances : ReasonInv(k)'
<1> DEFINE to == IF journal[mailer[i].show.run].printed THEN [mailer[i] EXCEPT !.at = "label"] ELSE Idle
<1>1. Looked(i) /\ Goes(i, to) /\ UNCHANGED <<host, unit, sent>>
  BY DEF MailCheck, Looked
<1>2. to.at \in {"idle", "label"} /\ (to.at # "idle" => to.show = mailer[i].show)
  BY IdleFacts, MailerFacts DEF MailInv
<1> HIDE DEF to
<1> QED BY <1>1, <1>2, ReadSpaced

LEMMA LabelSpaced ==
    ASSUME MailInv, SpacedInv, host.spaced, NEW i \in Instances, MailLabel(i)
    PROVE  AskedInv' /\ \A k \in Instances : ReasonInv(k)'
<1> DEFINE run == mailer[i].show.run
           to == [mailer[i] EXCEPT !.at = "send",
                     !.show.label = IF journal[run].printed THEN journal[run].label ELSE @]
<1>1. Looked(i) /\ Goes(i, to) /\ UNCHANGED <<host, unit, sent>>
  BY DEF MailLabel, Looked
<1>2. to.at = "send" /\ to.show.run = run /\ to.show.failed = mailer[i].show.failed
  BY MailerFacts DEF MailInv, Shows
<1> HIDE DEF to
<1> QED BY <1>1, <1>2, ReadSpaced

\* The mail is the first about the run, and says why it was asked for.
LEMMA SendSpaced ==
    ASSUME MailInv, SpacedInv, host.spaced, NEW i \in Instances, MailSend(i)
    PROVE  AskedInv' /\ (\A k \in Instances : ReasonInv(k)') /\ OneMailPerRun'
<1> DEFINE m == MailOf(i)
<1>1. AskedInv /\ ReasonInv(i) /\ mailer[i].at = "send" /\ Looked(i)
  BY SendFacts DEF SpacedInv, Looked
<1>2. ~Unasked /\ ~Mailed
  BY <1>1 DEF AskedInv, ReasonInv
<1>3. \A k \in Instances : mailer'[k].at = "idle"
  BY <1>1, SendFacts, IdleFacts DEF AskedInv
<1>4. UNCHANGED <<host, unit>>
  BY SendFacts
<1>5. AskedInv'
  BY <1>1, <1>2, <1>3, <1>4 DEF AskedInv, Unasked
<1>6. \A k \in Instances : ReasonInv(k)'
  BY <1>3 DEF ReasonInv
<1>7. mailer[i].show.run = unit.run /\ mailer[i].show.failed = (i.state = "Failure")
  BY <1>1 DEF ReasonInv
<1>8. m.run = unit.run /\ m.why = IF m.state = "Failure" THEN "Failure" ELSE "Output"
  BY <1>7 DEF MailOf
<1> HIDE DEF m
<1>9. /\ DOMAIN sent' = DOMAIN sent \cup {Len(sent) + 1} /\ Len(sent) + 1 \notin DOMAIN sent
      /\ sent'[Len(sent) + 1] = m /\ \A n \in DOMAIN sent : sent'[n] = sent[n]
  BY SendFacts DEF m
<1>10. \A n \in DOMAIN sent : sent[n].run # m.run
  BY <1>2, <1>8 DEF Mailed
<1>11. OneMailPerRun'
  <2> SUFFICES ASSUME NEW n \in DOMAIN sent'
               PROVE  /\ \A k \in DOMAIN sent' : sent'[k].run = sent'[n].run => k = n
                      /\ sent'[n].why = IF sent'[n].state = "Failure" THEN "Failure" ELSE "Output"
    BY DEF OneMailPerRun
  <2>1. CASE n = Len(sent) + 1
    BY <1>8, <1>9, <1>10, <2>1
  <2>2. CASE n \in DOMAIN sent
    BY <1>9, <1>10, <2>2 DEF SpacedInv, OneMailPerRun
  <2> QED BY <1>9, <2>1, <2>2
<1> QED BY <1>5, <1>6, <1>11

LEMMA SpacedInitially == Init => SpacedInv
BY IdleFacts DEF Init, SpacedInv, AskedInv, ReasonInv, OneMailPerRun, Unasked

\* No step of the job or of an instance but sending changes the mails.
LEMMA OthersSendNothing ==
    ASSUME [Next]_vars
    PROVE  UNCHANGED host /\ (UNCHANGED sent \/ \E i \in Instances : MailSend(i))
BY DEF Next, vars, Reload, StartRun, PrintLine, TellSuccess, EndRun, Mailer, MailBegin, MailShow,
       MailCheck, MailLabel, MailSend

\* Every step keeps the invariant.
LEMMA SpacedInductive == MailInv /\ SpacedInv /\ [Next]_vars => SpacedInv'
<1> SUFFICES ASSUME MailInv, SpacedInv, [Next]_vars PROVE SpacedInv'
  OBVIOUS
<1>1. CASE ~host.spaced
  BY <1>1, OthersSendNothing DEF SpacedInv, OneMailPerRun
<1>2. CASE host.spaced /\ \E i \in Instances : MailSend(i)
  BY <1>2, SendSpaced DEF SpacedInv
<1>3. CASE host.spaced /\ UNCHANGED sent
  <2>1. OneMailPerRun'
    BY <1>3, OthersSendNothing, SentOnceKept
  <2>2. CASE (\E d \in Definitions : Reload(d)) \/ PrintLine \/ UNCHANGED vars
    <3>1. UNCHANGED <<host, unit, mailer, sent>>
      BY <2>2 DEF Reload, PrintLine, vars
    <3> QED BY <1>3, <2>1, <3>1, AskedKept DEF SpacedInv
  <2>3. CASE StartRun \/ TellSuccess \/ \E ok \in BOOLEAN : EndRun(ok)
    BY <1>3, <2>1, <2>3, StartRunSpaced, TellSuccessSpaced, EndRunSpaced DEF SpacedInv
  <2>4. CASE \E i \in Instances : Mailer(i)
    BY <1>3, <2>1, <2>4, BeginSpaced, ShowSpaced, CheckSpaced, LabelSpaced, SendSpaced DEF SpacedInv, Mailer
  <2> QED BY <2>2, <2>3, <2>4 DEF Next
<1> QED BY <1>1, <1>2, <1>3, OthersSendNothing

\* A job that runs again only once its mail is out is mailed about at most once
\* a run, under the reason the mail was asked for, however its crontab is edited
\* and whether systemd has OnSuccess= or the job starts its mail itself.
THEOREM SpacedRunsMailedOnce == Spec => []OneMailPerRun
<1>1. Init => MailInv /\ SpacedInv
  BY MailInitially, SpacedInitially
<1>2. MailInv /\ SpacedInv /\ [Next]_vars => MailInv' /\ SpacedInv'
  BY MailInductive, SpacedInductive
<1>3. SpacedInv => OneMailPerRun
  BY DEF SpacedInv
<1> QED BY <1>1, <1>2, <1>3, PTL DEF Spec
=============================================================================
