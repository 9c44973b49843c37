----------------------------- MODULE FilesProofs -----------------------------
(***************************************************************************)
(* What the programs keep on disk: the crontabs crontab(1) installs        *)
(* (CrontabStore), and the stamps and timers of persistent jobs (Stamps).  *)
(*                                                                         *)
(* For any number of users and of concurrent runs of crontab(1), whatever  *)
(* fails or is killed: what is in CRONTAB_DIR passed the check, each run    *)
(* takes effect at once or not at all, and nobody but root reaches another *)
(* user's crontab - as long as no I/O error within a copy goes unnoticed.  *)
(*                                                                         *)
(* For every schedule of the job and of the cleaner, any number of days    *)
(* and of edits: no run of a persistent job is missed, and neither a stamp *)
(* nor a timer outlives its line.                                          *)
(***************************************************************************)
EXTENDS CrontabStore, Stamps, TLAPS

-----------------------------------------------------------------------------
(* The inductive invariants: KeepInv behind EditKept, whatever happens to  *)
(* copies; PathInv behind NoLitter and OnlyTargetChanged; StoreInv behind  *)
(* OnlyCheckedInstalled and, with the others, SuccessMeansDone and the     *)
(* refinement, where no I/O error within a copy goes unnoticed.            *)

Installable(c) == c # NoFile /\ c.extent = "whole" /\ c.text \in Good
Installing == {"reopen", "install", "rename", "helper"}

\* What is wanted is only known once there was an editor, an exit status of 0
\* is only there after an exit, what is installed has passed the check, and
\* an edit that is given up has had no effect.
OwnEdit(p) ==
    /\ pc[p] \in Installing \/ helper[p] \in {"copy", "rename"} => tmp[p] # NoFile
    /\ pc[p] \in {"start", "fetch", "editor", "unlink"} => wanted[p] = NoFile
    /\ pc[p] \in {"start", "fetch", "editor", "check", "reopen"} => effect[p] = NoFile
    /\ pc[p] \in {"wait", "killed", "exit"} \/ helper[p] = "off"
    /\ pc[p] \notin {"exit", "aborted"} => exit[p] # 0

\* Where the steps lead: to the helper only who works on the crontab of his
\* current_user, to rename() only root; what has had an effect, and which
\* temporary files there are.
OwnPath(p) ==
    /\ pc[p] = "rename" => Root(p)
    /\ pc[p] = "helper" \/ helper[p] # "off" => Me(p) = Target(p) /\ ~Root(p)
    /\ pc[p] = "unlink" => Op(p) = "remove"
    /\ pc[p] \in Installing \cup {"fetch", "editor", "check", "wait", "aborted"} \/ helper[p] # "off" =>
           Op(p) \in {"replace", "edit"}
    /\ helper[p] \in Working => pc[p] \in {"wait", "killed"}
    /\ pc[p] \in Labels \ {"wait", "done", "exit", "killed"} => effect[p] = NoFile
    /\ pc[p] = "done" => effect[p] # NoFile
    /\ pc[p] = "wait" => helper[p] # "off"
    /\ helper[p] \in {"copy", "rename", "failed", "missing"} => effect[p] = NoFile
    /\ helper[p] \in {"renamed", "ok"} => effect[p] # NoFile
    /\ pc[p] = "exit" /\ exit[p] = 0 /\ "EROFS" \notin Errors => effect[p] # NoFile
    /\ pc[p] = "exit" /\ exit[p] # 0 /\ helper[p] # "killed" => effect[p] = NoFile
    /\ \/ temp[p] = NoFile \/ pc[p] \in {"rename", "killed"} \/ helper[p] \in {"rename", "killed"}
       \/ (pc[p] = "exit" /\ Root(p) /\ exit[p] = 1 /\ temp[p] = Empty)
    /\ pc[p] \notin Final => exit[p] = 255

\* Past the check, the file installed from is the one that was asked for and
\* checked, its copy is one, and so is what was installed.
OwnInstall(p) ==
    /\ tmp[p] # NoFile => tmp[p].extent = "whole"
    /\ pc[p] \in Installing \/ helper[p] \in {"copy", "rename"} => Installable(tmp[p])
    /\ pc[p] \in Installing \cup {"check"} \/ helper[p] \in {"copy", "rename"} => tmp[p] = wanted[p]
    /\ pc[p] = "rename" \/ helper[p] = "rename" => temp[p] = tmp[p]
    /\ effect[p] # NoFile =>
         /\ IF Op(p) = "remove" THEN effect[p].content \in {NoFile, Empty}
                                ELSE effect[p].content = wanted[p]
         /\ IF ~Root(p) /\ Me(p) = Target(p) THEN effect[p].user \in {Target(p), Uid(p)}
                                             ELSE effect[p].user = Target(p)

KeepInv == TypeOK /\ EditKept /\ \A p \in Proc : OwnEdit(p)

PathInv == \A p \in Proc : OwnPath(p)

StoreInv == KeepInv /\ OnlyCheckedInstalled /\ \A p \in Proc : OwnInstall(p)
-----------------------------------------------------------------------------
(* The crontabs. *)

\* Without such errors a copy is what was copied.
LEMMA CopiesExact == ASSUME ~LostWrites, NEW c PROVE Copies(c) = {c}
BY DEF Copies

\* A copy is a content, whatever became of it.
LEMMA CopiesAreContent ==
    ASSUME NEW c \in Content PROVE Copies(c) \subseteq Content
BY DEF Copies, Content

\* A whole text is a content, and no text is the absence of a file.
LEMMA WholeContent ==
    ASSUME NEW t \in Text
    PROVE  /\ Whole(t) \in Content /\ Whole(t) # NoFile
           /\ Whole(t).extent = "whole" /\ Whole(t).text = t
BY NoFileAssumption DEF Whole, Content

LEMMA EmptyIsGood ==
    Empty \in Content /\ Empty # NoFile /\ Empty.extent = "whole" /\ Empty.text \in Good
BY WholeContent, TextAssumption DEF Empty

LEMMA EffectContent ==
    ASSUME NEW u \in User, NEW c \in Content \cup {NoFile}
    PROVE  /\ [user |-> u, content |-> c] \in Effects
           /\ [user |-> u, content |-> c] # NoFile
BY NoEffectAssumption DEF Effects

\* The users a process has to do with.
LEMMA RoleUsers ==
    ASSUME TypeOK, NEW p \in Proc PROVE Uid(p) \in User /\ Me(p) \in User /\ Target(p) \in User
BY RoleAssumption DEF TypeOK, Uid, Me, Target

\* What edit() starts from is a text.
LEMMA FetchesContent ==
    ASSUME TypeOK, NEW p \in Proc PROVE Direct(p) \cup Shown(p) \subseteq Content
<1>1. \A u \in User : tab[u] # NoFile => Copies(tab[u]) \subseteq Content
  BY CopiesAreContent DEF TypeOK
<1>2. \A u \in User : Opened(tab[u]) \subseteq Content
  BY <1>1, EmptyIsGood DEF Opened, Empty
<1> QED BY <1>2, RoleUsers, EmptyIsGood DEF Direct, Shown, Empty

\* What a step of process p may do, seen from the other processes: nothing.
Others(p) ==
    /\ role' = role
    /\ \A q \in Proc \ {p} : /\ pc'[q] = pc[q] /\ exit'[q] = exit[q] /\ temp'[q] = temp[q]
                             /\ tmp'[q] = tmp[q] /\ wanted'[q] = wanted[q]
                             /\ helper'[q] = helper[q] /\ effect'[q] = effect[q]

LEMMA StepIsOwn == ASSUME TypeOK, NEW p \in Proc, Step(p) PROVE Others(p)
<1> USE DEF Others, TypeOK, Goto, Leave, Exit, DropTmp, Helper, Put, Failed, Installed
<1>1. CASE Start(p) \/ Fetch(p) \/ Editor(p) \/ Check(p) \/ Reopen(p)
  BY <1>1 DEF Start, Fetch, Editor, Check, Reopen
<1>2. CASE Copy(p) \/ Rename(p) \/ Call(p) \/ Reap(p) \/ Finish(p) \/ Kill(p)
  BY <1>2 DEF Copy, Rename, Call, Reap, Finish, Kill
<1>3. CASE Unlink(p)
  BY <1>3 DEF Unlink, UnlinkItself, UnlinkOther
<1>4. CASE HelperCopy(p) \/ HelperRename(p) \/ HelperExit(p) \/ KillHelper(p)
  BY <1>4 DEF HelperCopy, HelperRename, HelperExit, KillHelper
<1> QED BY <1>1, <1>2, <1>3, <1>4 DEF Step

-----------------------------------------------------------------------------
(* What holds even where copies are cut short. *)

OwnKept(p) ==
    Op(p) = "edit" /\ wanted[p] # NoFile =>
        IF pc[p] = "aborted"
          THEN tmp[p] = NoFile /\ effect[p] = NoFile /\ exit[p] \in {0, 127}
          ELSE tmp[p] = wanted[p] \/ exit[p] = 0

OwnKeep(p) == OwnEdit(p) /\ OwnKept(p)

\* Every step of a process keeps its own part of the invariant.
LEMMA StepKeeps ==
    ASSUME TypeOK, NEW p \in Proc, OwnKeep(p), Step(p)
    PROVE  TypeOK' /\ OwnKeep(p)'
<1> USE DEF Goto, Leave, Exit, DropTmp, Helper, Put, Installed, TypeOK, OwnKeep, OwnEdit, OwnKept, Labels, Final,
            Installing, Working, Ended, Op
<1>0. /\ Uid(p) \in User /\ Target(p) \in User
      /\ \A t \in Text : Whole(t) \in Content /\ Whole(t) # NoFile
      /\ \A u \in User, c \in Content \cup {NoFile} : [user |-> u, content |-> c] \in Effects
  BY RoleUsers, WholeContent, EffectContent
<1>1. CASE Start(p)
  BY <1>0, <1>1 DEF Start
<1>2. CASE Fetch(p)
  <2>1. Direct(p) \cup Shown(p) \subseteq Content
    BY FetchesContent
  <2>2. \/ /\ pc' = [pc EXCEPT ![p] = "editor"] /\ exit' = exit
           /\ \E c \in Content : tmp' = [tmp EXCEPT ![p] = c]
        \/ /\ pc' = [pc EXCEPT ![p] = "exit"] /\ tmp' = tmp
           /\ \E s \in {1, 125, 137} : exit' = [exit EXCEPT ![p] = s]
    BY <1>2, <2>1 DEF Fetch
  <2>3. pc[p] = "fetch" /\ UNCHANGED <<role, tab, temp, helper, wanted, effect>>
    BY <1>2 DEF Fetch
  <2>4. NoFile \notin Content
    BY NoFileAssumption
  <2> QED BY <2>2, <2>3, <2>4
<1>3. CASE Editor(p)
  BY <1>0, <1>3 DEF Editor, Saves
<1>4. CASE Check(p) \/ Reopen(p)
  BY <1>4 DEF Check, MayPass, Reopen, Checked
<1>5. CASE Copy(p) \/ HelperCopy(p)
  <2>1. tmp[p] # NoFile /\ Copies(tmp[p]) \subseteq Content
    BY <1>5, CopiesAreContent DEF Copy, HelperCopy
  <2> QED BY <1>5, <2>1, EmptyIsGood DEF Copy, HelperCopy, Failed
<1>6. CASE Rename(p)
  BY <1>0, <1>6 DEF Rename, Failed
<1>7. CASE HelperRename(p) \/ HelperExit(p) \/ KillHelper(p)
  BY <1>0, <1>7 DEF HelperRename, HelperExit, KillHelper
<1>8. CASE Call(p) \/ Finish(p) \/ Kill(p)
  BY <1>8 DEF Call, Finish, Kill
<1>9. CASE Reap(p)
  <2>1. HelperStatus["ok"] = 0 /\ \A s \in Ended \ {"ok"} : HelperStatus[s] \in {1, 127, 137}
    BY DEF HelperStatus
  <2> QED BY <1>9, <2>1 DEF Reap
<1>10. CASE Unlink(p)
  <2>1. pc[p] = "unlink" /\ UNCHANGED <<role, temp, tmp, helper, wanted>>
    BY <1>10 DEF Unlink, UnlinkItself, UnlinkOther
  <2>2. \/ /\ \E s \in {0, 1} : Exit(p, s)
           /\ UNCHANGED <<tab, effect>>
        \/ \E u \in User, c \in {NoFile, Empty} : Put(p, u, c) /\ Goto(p, "done")
    BY <1>0, <1>10 DEF Unlink, UnlinkItself, UnlinkOther
  <2> QED BY <1>0, <2>1, <2>2, EmptyIsGood
<1> QED BY <1>1, <1>2, <1>3, <1>4, <1>5, <1>6, <1>7, <1>8, <1>9, <1>10 DEF Step

\* KeepInv, by processes.
LEMMA KeepByProcess == KeepInv <=> TypeOK /\ \A p \in Proc : OwnKeep(p)
BY DEF KeepInv, EditKept, OwnKeep, OwnKept

LEMMA KeepInitially == Init => KeepInv
<1> SUFFICES ASSUME Init PROVE KeepInv
  OBVIOUS
<1>1. tab \in [User -> Content \cup {NoFile}]
  <2>1. \A t \in Good : Whole(t) \in Content
    BY WholeContent, TextAssumption
  <2> QED BY <2>1 DEF Init
<1>2. TypeOK
  BY <1>1 DEF Init, TypeOK, Labels
<1> QED BY <1>2 DEF Init, KeepInv, EditKept, OwnEdit, Installing

\* Every step keeps KeepInv.
LEMMA KeepInductive == KeepInv /\ [Next]_vars => KeepInv'
<1> SUFFICES ASSUME KeepInv, [Next]_vars PROVE KeepInv'
  OBVIOUS
<1>1. CASE UNCHANGED vars
  BY <1>1 DEF vars, KeepInv, TypeOK, OwnEdit, EditKept, Op
<1>2. ASSUME NEW p \in Proc, Step(p) PROVE KeepInv'
  <2>1. TypeOK /\ \A q \in Proc : OwnKeep(q)
    BY KeepByProcess
  <2>2. TypeOK' /\ OwnKeep(p)' /\ Others(p)
    BY <1>2, <2>1, StepKeeps, StepIsOwn
  <2>3. \A q \in Proc : OwnKeep(q)'
    BY <2>1, <2>2 DEF OwnKeep, OwnEdit, OwnKept, Others, Op
  <2> QED BY <2>2, <2>3 DEF KeepInv, EditKept, OwnKeep, OwnKept
<1> QED BY <1>1, <1>2 DEF Next

\* The types of the crontabs, the temporary files and the exit statuses
\* (TypeOK), even where copies are cut short.
THEOREM TypeCorrect == Spec => []TypeOK
<1>1. KeepInv => TypeOK
  BY DEF KeepInv
<1> QED BY <1>1, KeepInitially, KeepInductive, PTL DEF Spec

\* What a user wrote in crontab -e stays in the temporary file until it is
\* installed, whatever fails or is killed (EditKept): but for an editor that
\* returns 127 and a file that cannot be opened again.
THEOREM EditsAreKept == Spec => []EditKept
<1>1. KeepInv => EditKept
  BY DEF KeepInv
<1> QED BY <1>1, KeepInitially, KeepInductive, PTL DEF Spec

-----------------------------------------------------------------------------
(* Where the steps lead. *)

\* Every step of a process keeps its own part of PathInv.
LEMMA StepPath ==
    ASSUME TypeOK, NEW p \in Proc, OwnEdit(p), OwnPath(p), Step(p)
    PROVE  OwnPath(p)'
<1> USE DEF Goto, Leave, Exit, Helper, TypeOK, OwnPath, OwnEdit, Labels, Final, Installing, Working, Ended
<1>0. /\ Op(p)' = Op(p) /\ Root(p)' = Root(p) /\ Me(p)' = Me(p) /\ Target(p)' = Target(p)
      /\ Op(p) \in {"replace", "edit", "remove"}
      /\ Uid(p) \in User /\ Target(p) \in User
  <2>1. role' = role
    BY StepIsOwn DEF Others
  <2> QED BY <2>1, RoleUsers, RoleAssumption DEF Op, Root, Me, Target
<1>e. \A u, c : Put(p, u, c) => tab' = [tab EXCEPT ![u] = c] /\ (u \in User /\ c \in Content \cup {NoFile} => effect'[p] # NoFile)
  BY EffectContent DEF Put
<1>1. CASE Start(p)
  BY <1>0, <1>1 DEF Start
<1>2. CASE Fetch(p)
  BY <1>0, <1>2 DEF Fetch
<1>3. CASE Editor(p)
  BY <1>0, <1>3 DEF Editor
<1>4. CASE Check(p) \/ Reopen(p)
  BY <1>0, <1>4 DEF Check, Reopen, Checked
<1>5. CASE Copy(p)
  BY <1>0, <1>5 DEF Copy, Failed, HAVE_SETGID
<1>6. CASE Rename(p)
  <2>1. temp[p] \in Content \cup {NoFile}
    OBVIOUS
  <2>2. \/ effect'[p] # NoFile /\ Goto(p, "done")
        \/ Exit(p, 1) /\ effect' = effect
    BY <1>0, <1>6, <1>e, <2>1 DEF Rename, Failed, HAVE_SETGID
  <2> QED BY <1>0, <1>6, <2>2 DEF Rename
<1>7. CASE Call(p) \/ Finish(p)
  BY <1>0, <1>7 DEF Call, Finish
<1>8. CASE Reap(p)
  <2>1. HelperStatus["ok"] = 0 /\ \A s \in Ended \ {"ok"} : HelperStatus[s] # 0
    BY DEF HelperStatus
  <2> QED BY <1>0, <1>8, <2>1 DEF Reap
<1>9. CASE Unlink(p)
  <2>1. pc[p] = "unlink" /\ UNCHANGED <<temp, tmp, helper, wanted>>
    BY <1>9 DEF Unlink
  <2>2. \/ Exit(p, 1) /\ effect' = effect
        \/ "EROFS" \in Errors /\ Exit(p, 0) /\ effect' = effect
        \/ effect'[p] # NoFile /\ Goto(p, "done")
    BY <1>0, <1>9, <1>e, EmptyIsGood DEF Unlink, UnlinkItself, UnlinkOther
  <2> QED BY <1>0, <2>1, <2>2
<1>10. CASE Kill(p)
  BY <1>0, <1>10 DEF Kill
<1>11. CASE HelperCopy(p) \/ HelperExit(p) \/ KillHelper(p)
  BY <1>0, <1>11 DEF HelperCopy, HelperExit, KillHelper
<1>12. CASE HelperRename(p)
  <2>1. temp[p] \in Content \cup {NoFile}
    OBVIOUS
  <2>2. \/ effect'[p] # NoFile /\ Helper(p, "renamed")
        \/ effect' = effect /\ Helper(p, "failed")
    BY <1>0, <1>12, <1>e, <2>1 DEF HelperRename
  <2> QED BY <1>0, <1>12, <2>2 DEF HelperRename
<1> QED BY <1>1, <1>2, <1>3, <1>4, <1>5, <1>6, <1>7, <1>8, <1>9, <1>10, <1>11, <1>12 DEF Step

\* Every step keeps PathInv.
LEMMA PathInductive == KeepInv /\ PathInv /\ [Next]_vars => PathInv'
<1> SUFFICES ASSUME KeepInv, PathInv, [Next]_vars PROVE PathInv'
  OBVIOUS
<1>1. CASE UNCHANGED vars
  BY <1>1 DEF vars, PathInv, OwnPath, Op, Root, Me, Target
<1>2. ASSUME NEW p \in Proc, Step(p) PROVE PathInv'
  <2>1. OwnPath(p)' /\ Others(p)
    BY <1>2, StepPath, StepIsOwn DEF KeepInv, PathInv
  <2> QED BY <2>1 DEF PathInv, OwnPath, Others, Op, Root, Me, Target
<1> QED BY <1>1, <1>2 DEF Next

LEMMA PathsTaken == Spec => [](KeepInv /\ PathInv)
<1>1. Init => PathInv
  <2> SUFFICES ASSUME Init, NEW p \in Proc PROVE OwnPath(p)
    BY DEF PathInv
  <2>1. /\ pc[p] = "start" /\ helper[p] = "off" /\ exit[p] = 255
        /\ effect[p] = NoFile /\ temp[p] = NoFile
    BY DEF Init
  <2> QED BY <2>1 DEF OwnPath, Installing, Labels, Final, Working
<1>2. Init => KeepInv /\ PathInv
  BY <1>1, KeepInitially
<1>3. KeepInv /\ PathInv /\ [Next]_vars => KeepInv' /\ PathInv'
  BY KeepInductive, PathInductive
<1> QED BY <1>2, <1>3, PTL DEF Spec

\* A run of crontab(1) that comes to its end leaves no text behind in
\* CRONTAB_DIR (the autodeleting_path of replace_crontab(), the unlink() of
\* crontab_setgid w); where fdopen() fails, root's may leave an empty file.
THEOREM TempsAreRemoved == Spec => []NoLitter
<1>1. KeepInv /\ PathInv => NoLitter
  <2> SUFFICES ASSUME KeepInv, PathInv, NEW p \in Proc,
                      pc[p] \in {"exit", "aborted"}, helper[p] # "killed"
               PROVE  temp[p] = NoFile \/ (temp[p] = Empty /\ Root(p) /\ exit[p] = 1)
    BY DEF NoLitter
  <2> QED BY DEF KeepInv, PathInv, OwnPath, OwnEdit, Working
<1> QED BY <1>1, PathsTaken, PTL

\* What a step does to the crontabs: nothing, or it puts a crontab where the
\* process reaches, for the first time.
LEMMA StepTouches ==
    ASSUME TypeOK, NEW p \in Proc, OwnPath(p), Step(p)
    PROVE  \/ tab' = tab /\ effect' = effect
           \/ /\ effect[p] = NoFile /\ effect'[p] # NoFile
              /\ \/ helper[p] = "rename" /\ UNCHANGED <<pc, exit>>
                 \/ pc[p] \in {"rename", "unlink"} /\ Goto(p, "done")
              /\ Op(p) = "remove" => pc[p] = "unlink"
              /\ \E u \in Reach(p) \cup {Target(p)}, c \in Content \cup {NoFile} :
                   /\ Put(p, u, c)
                   /\ u \in Reach(p) \/ tab' = tab
                   /\ IF Op(p) = "remove" THEN c \in {NoFile, Empty} ELSE c = temp[p]
                   /\ IF ~Root(p) /\ Me(p) = Target(p) THEN u \in {Target(p), Uid(p)} ELSE u = Target(p)
<1> USE DEF TypeOK, OwnPath, Working, Final
<1>0. Uid(p) \in User /\ Target(p) \in User /\ Op(p) \in {"replace", "edit", "remove"}
  BY RoleUsers, RoleAssumption DEF Op
<1>e. \A u \in User, c \in Content \cup {NoFile} : Put(p, u, c) => effect'[p] # NoFile
  BY EffectContent DEF Put
<1>1. CASE Start(p) \/ Fetch(p) \/ Editor(p) \/ Check(p) \/ Reopen(p) \/ Copy(p) \/ Call(p) \/ Finish(p) \/ Reap(p)
           \/ Kill(p) \/ HelperCopy(p) \/ HelperExit(p) \/ KillHelper(p)
  BY <1>1 DEF Start, Fetch, Editor, Check, Reopen, Copy, Call, Finish, Reap, Kill, HelperCopy, HelperExit, KillHelper
<1>2. CASE Rename(p)
  <2>1. pc[p] = "rename" /\ Root(p) /\ Op(p) # "remove" /\ effect[p] = NoFile
    BY <1>0, <1>2 DEF Rename, Installing, Labels
  <2> QED BY <1>0, <1>e, <1>2, <2>1 DEF Rename, Goto, Reach
<1>3. CASE HelperRename(p)
  <2>1. helper[p] = "rename" /\ pc[p] \in {"wait", "killed"} /\ ~Root(p) /\ Me(p) = Target(p) /\ Op(p) # "remove"
        /\ effect[p] = NoFile
    BY <1>0, <1>3 DEF HelperRename
  <2> QED BY <1>0, <1>e, <1>3, <2>1 DEF HelperRename, Reach
<1>4. CASE Unlink(p)
  <2>1. pc[p] = "unlink" /\ Op(p) = "remove" /\ effect[p] = NoFile
    BY <1>4 DEF Unlink, Labels
  <2>2. tab[Target(p)] = NoFile => [tab EXCEPT ![Target(p)] = NoFile] = tab
    BY <1>0
  <2>3. \A u, c : Put(p, u, c) => tab' = [tab EXCEPT ![u] = c]
    BY DEF Put
  <2>4. \/ tab' = tab /\ effect' = effect
        \/ Put(p, Target(p), NoFile) /\ Goto(p, "done") /\ (Root(p) \/ tab' = tab)
        \/ Put(p, Uid(p), NoFile) /\ Goto(p, "done") /\ ~Root(p) /\ Me(p) = Target(p)
        \/ Put(p, Target(p), Empty) /\ Goto(p, "done") /\ ~Root(p) /\ Uid(p) = Target(p) /\ Me(p) = Target(p)
    BY <1>4, <2>2, <2>3 DEF Unlink, UnlinkItself, UnlinkOther
  <2> QED BY <1>0, <1>e, <2>1, <2>4, EmptyIsGood DEF Goto, Reach
<1> QED BY <1>1, <1>2, <1>3, <1>4 DEF Step

\* Whatever -u and $LOGNAME say, nobody but root changes the crontab of anybody
\* else, and root only that of -u (crontab_setgid acts on that of its uid,
\* replace_crontab() and remove() on cron_file).
THEOREM TargetOnly == Spec => OnlyTargetChanged
<1>1. KeepInv /\ PathInv /\ [Next]_vars =>
        [\A p \in Proc : pc'[p] # pc[p] \/ helper'[p] # helper[p] =>
            \A u \in User \ Reach(p) : tab'[u] = tab[u]]_vars
  <2> SUFFICES ASSUME KeepInv, PathInv, NEW q \in Proc, Step(q),
                      NEW p \in Proc, pc'[p] # pc[p] \/ helper'[p] # helper[p],
                      NEW u \in User \ Reach(p)
               PROVE  tab'[u] = tab[u]
    BY DEF Next, vars
  <2>1. TypeOK /\ OwnPath(q)
    BY DEF KeepInv, PathInv
  <2>2. p = q
    BY <2>1, StepIsOwn DEF Others
  <2>3. tab' = tab \/ \E v \in Reach(q), c \in Content \cup {NoFile} : tab' = [tab EXCEPT ![v] = c]
    BY <2>1, StepTouches DEF Put
  <2> QED BY <2>1, <2>2, <2>3 DEF TypeOK
<1> QED BY <1>1, PathsTaken, PTL DEF Spec, OnlyTargetChanged

-----------------------------------------------------------------------------
(* Where no I/O error goes unnoticed, only checked texts are installed.    *)

LEMMA FetchesWhole ==
    ASSUME ~LostWrites, TypeOK, OnlyCheckedInstalled, NEW p \in Proc, NEW c \in Direct(p) \cup Shown(p)
    PROVE  c.extent = "whole"
<1>1. \A u \in User : tab[u] # NoFile => Copies(tab[u]) = {tab[u]} /\ tab[u].extent = "whole"
  BY CopiesExact DEF OnlyCheckedInstalled
<1>2. \A u \in User : \A d \in Opened(tab[u]) : d.extent = "whole"
  BY <1>1, EmptyIsGood DEF Opened, Empty
<1> QED BY <1>2, RoleUsers, EmptyIsGood DEF Direct, Shown, Empty

\* Every step of a process keeps its own part of StoreInv.
LEMMA StepInstall ==
    ASSUME ~LostWrites, TypeOK, OnlyCheckedInstalled,
           NEW p \in Proc, OwnEdit(p), OwnPath(p), OwnInstall(p), Step(p)
    PROVE  OwnInstall(p)' /\ OnlyCheckedInstalled'
<1> USE DEF Goto, Leave, Exit, DropTmp, Helper, TypeOK, OwnInstall, Installing
<1>0. /\ Op(p)' = Op(p) /\ Root(p)' = Root(p) /\ Me(p)' = Me(p) /\ Target(p)' = Target(p) /\ Uid(p)' = Uid(p)
      /\ Uid(p) \in User /\ Target(p) \in User
  BY StepIsOwn, RoleUsers DEF Others, Op, Root, Me, Target, Uid
<1>w. \A t \in Text : /\ Whole(t) \in Content /\ Whole(t) # NoFile
                      /\ Whole(t).extent = "whole" /\ Whole(t).text = t
  BY WholeContent
<1>c. OnlyCheckedInstalled'
  <2>1. pc[p] = "rename" \/ helper[p] = "rename" => Installable(temp[p])
    OBVIOUS
  <2>2. CASE tab' = tab
    BY <2>2 DEF OnlyCheckedInstalled
  <2>3. ASSUME NEW u \in User, NEW c \in {NoFile, Empty, temp[p]}, Put(p, u, c),
               c = temp[p] => pc[p] \in {"rename", "unlink"} \/ helper[p] = "rename",
               pc[p] = "unlink" => c \in {NoFile, Empty}
        PROVE  OnlyCheckedInstalled'
    <3>1. tab' = [tab EXCEPT ![u] = c]
      BY <2>3 DEF Put
    <3>2. c = NoFile \/ (c.extent = "whole" /\ c.text \in Good)
      BY <2>1, <2>3, EmptyIsGood DEF Installable
    <3> QED BY <3>1, <3>2 DEF OnlyCheckedInstalled
  <2>4. Reach(p) \subseteq User /\ (pc[p] = "unlink" => Op(p) = "remove")
    BY <1>0 DEF Reach, OwnPath
  <2> QED BY <1>0, <2>2, <2>3, <2>4, StepTouches
<1>e. ASSUME effect'[p] # NoFile, effect[p] = NoFile, wanted' = wanted,
             pc[p] \in {"rename", "unlink"} \/ helper[p] = "rename"
      PROVE  /\ IF Op(p) = "remove" THEN effect'[p].content \in {NoFile, Empty}
                                    ELSE effect'[p].content = wanted'[p]
             /\ IF ~Root(p) /\ Me(p) = Target(p) THEN effect'[p].user \in {Target(p), Uid(p)}
                                                 ELSE effect'[p].user = Target(p)
  <2>1. PICK u \in Reach(p) \cup {Target(p)}, c \in Content \cup {NoFile} :
          /\ Put(p, u, c)
          /\ IF Op(p) = "remove" THEN c \in {NoFile, Empty} ELSE c = temp[p]
          /\ IF ~Root(p) /\ Me(p) = Target(p) THEN u \in {Target(p), Uid(p)} ELSE u = Target(p)
    BY <1>e, StepTouches
  <2>2. effect'[p] = [user |-> u, content |-> c]
    BY <2>1 DEF Put
  <2>3. pc[p] = "unlink" => Op(p) = "remove"
    BY DEF OwnPath
  <2>4. Op(p) # "remove" => temp[p] = wanted[p]
    BY <1>e, <2>3
  <2> QED BY <1>e, <2>1, <2>2, <2>4
<1> SUFFICES OwnInstall(p)'
  BY <1>c
<1>1. CASE Start(p)
  BY <1>0, <1>1, <1>w DEF Start, OwnPath, OwnEdit, Labels
<1>2. CASE Fetch(p)
  <2>1. \/ /\ pc' = [pc EXCEPT ![p] = "editor"]
           /\ \E c : c.extent = "whole" /\ tmp' = [tmp EXCEPT ![p] = c]
        \/ pc' = [pc EXCEPT ![p] = "exit"] /\ tmp' = tmp
    BY <1>2, FetchesWhole DEF Fetch
  <2>2. pc[p] = "fetch" /\ UNCHANGED <<role, tab, temp, helper, wanted, effect>> /\ helper[p] = "off"
    BY <1>2 DEF Fetch, OwnEdit
  <2> QED BY <1>0, <2>1, <2>2
<1>3. CASE Editor(p)
  <2>1. helper[p] = "off" /\ effect[p] = NoFile /\ wanted[p] = NoFile
    BY <1>3 DEF Editor, OwnEdit
  <2>2. \A c \in Saves(p) : c # NoFile => c.extent = "whole"
    BY <1>w DEF Saves
  <2> QED BY <1>0, <1>3, <2>1, <2>2 DEF Editor
<1>4. CASE Check(p)
  <2>1. pc'[p] \in Installing => Installable(tmp[p])
    BY <1>4 DEF Check, MayPass, Installable
  <2>2. pc'[p] # "rename" /\ helper[p] = "off"
    BY <1>4 DEF Check, Checked, OwnEdit
  <2> QED BY <1>0, <1>4, <2>1, <2>2 DEF Check
<1>5. CASE Reopen(p)
  BY <1>0, <1>5 DEF Reopen, OwnEdit
<1>6. CASE Copy(p)
  <2>1. Copies(tmp[p]) = {tmp[p]} /\ helper[p] = "off" /\ effect[p] = NoFile
    BY <1>6, CopiesExact DEF Copy, OwnEdit, OwnPath, Labels
  <2> QED BY <1>0, <1>6, <2>1 DEF Copy, Failed, Installable
<1>7. CASE Rename(p)
  <2>1. helper[p] = "off" /\ effect[p] = NoFile /\ pc[p] = "rename" /\ UNCHANGED <<role, tmp, helper, wanted>>
    BY <1>7 DEF Rename, OwnEdit, OwnPath, Installing, Labels, Failed
  <2>2. \/ Goto(p, "done")
        \/ Exit(p, 1) /\ effect' = effect
    BY <1>7 DEF Rename, Failed, HAVE_SETGID, OwnPath
  <2> QED BY <1>0, <1>e, <2>1, <2>2
<1>8. CASE Call(p)
  BY <1>0, <1>8 DEF Call, OwnPath, Labels
<1>9. CASE Reap(p)
  <2>1. helper[p] \notin {"copy", "rename"}
    BY <1>9 DEF Reap, Ended
  <2> QED BY <1>0, <1>9, <2>1 DEF Reap, Installed
<1>10. CASE Finish(p)
  <2>1. helper[p] = "off"
    BY <1>10 DEF Finish, OwnEdit
  <2> QED BY <1>0, <1>10, <2>1 DEF Finish, Installed
<1>11. CASE Unlink(p)
  <2>1. helper[p] = "off" /\ effect[p] = NoFile /\ pc[p] = "unlink" /\ UNCHANGED <<role, temp, tmp, helper, wanted>>
    BY <1>11 DEF Unlink, OwnEdit, OwnPath, Labels, UnlinkItself, UnlinkOther
  <2>2. Goto(p, "done") \/ \E s : Exit(p, s)
    BY <1>11 DEF Unlink, UnlinkItself, UnlinkOther
  <2> QED BY <1>0, <1>e, <2>1, <2>2
<1>12. CASE Kill(p)
  BY <1>0, <1>12 DEF Kill
<1>13. CASE HelperCopy(p)
  <2>1. Copies(tmp[p]) = {tmp[p]} /\ pc[p] # "rename"
    BY <1>13, CopiesExact DEF HelperCopy, OwnPath, Working
  <2> QED BY <1>0, <1>13, <2>1 DEF HelperCopy
<1>14. CASE HelperRename(p)
  <2>1. helper[p] = "rename" /\ effect[p] = NoFile /\ pc[p] \in {"wait", "killed"}
        /\ UNCHANGED <<role, tmp, pc, exit, wanted>>
    BY <1>14 DEF HelperRename, OwnPath, Working
  <2>2. helper'[p] \in {"renamed", "failed"}
    BY <1>14 DEF HelperRename
  <2> QED BY <1>0, <1>e, <2>1, <2>2
<1>15. CASE HelperExit(p) \/ KillHelper(p)
  <2>1. helper'[p] \notin {"copy", "rename"}
    BY <1>15 DEF HelperExit, KillHelper
  <2> QED BY <1>0, <1>15, <2>1 DEF HelperExit, KillHelper
<1> QED BY <1>1, <1>2, <1>3, <1>4, <1>5, <1>6, <1>7, <1>8, <1>9, <1>10, <1>11, <1>12, <1>13, <1>14, <1>15 DEF Step

\* Init establishes the invariants.
LEMMA StoreInitially == Init => StoreInv /\ PathInv
<1> SUFFICES ASSUME Init PROVE StoreInv /\ PathInv
  OBVIOUS
<1>1. \A u \in User : tab[u] = NoFile \/ \E t \in Good : tab[u] = Whole(t)
  BY DEF Init
<1>2. OnlyCheckedInstalled
  BY <1>1, WholeContent, TextAssumption DEF OnlyCheckedInstalled
<1>3. \A p \in Proc : /\ pc[p] = "start" /\ helper[p] = "off" /\ exit[p] = 255
                      /\ effect[p] = NoFile /\ temp[p] = NoFile /\ tmp[p] = NoFile
  BY DEF Init
<1>4. (\A p \in Proc : OwnInstall(p)) /\ PathInv
  BY <1>3 DEF OwnInstall, PathInv, OwnPath, Installing, Labels, Final, Working
<1> QED BY <1>2, <1>4, KeepInitially DEF StoreInv

\* Every step keeps the invariants.
LEMMA StoreInductive ==
    ASSUME ~LostWrites PROVE StoreInv /\ PathInv /\ [Next]_vars => StoreInv' /\ PathInv'
<1> SUFFICES ASSUME StoreInv, PathInv, [Next]_vars PROVE StoreInv' /\ PathInv'
  OBVIOUS
<1>0. KeepInv' /\ PathInv'
  BY KeepInductive, PathInductive DEF StoreInv
<1>1. CASE UNCHANGED vars
  BY <1>0, <1>1 DEF vars, StoreInv, OnlyCheckedInstalled, OwnInstall, Installable, Op, Root, Me, Target, Uid
<1>2. ASSUME NEW p \in Proc, Step(p) PROVE StoreInv'
  <2>0. TypeOK /\ OnlyCheckedInstalled /\ OwnEdit(p) /\ OwnPath(p) /\ \A q \in Proc : OwnInstall(q)
    BY DEF StoreInv, KeepInv, PathInv
  <2>1. OwnInstall(p)' /\ OnlyCheckedInstalled' /\ Others(p)
    BY <1>2, <2>0, StepInstall, StepIsOwn
  <2>2. \A q \in Proc : OwnInstall(q)'
    BY <2>0, <2>1 DEF OwnInstall, Others, Installable, Op, Root, Me, Target, Uid
  <2> QED BY <1>0, <2>1, <2>2 DEF StoreInv
<1> QED BY <1>0, <1>1, <1>2 DEF Next

LEMMA StoreHolds == ASSUME ~LostWrites PROVE Spec => [](StoreInv /\ PathInv)
BY StoreInitially, StoreInductive, PTL DEF Spec

\* "Crontabs are checked before installing": with any number of users and
\* processes, whatever fails or is killed, each crontab in place is a
\* complete text that passed the check (replace_crontab(), crontab_setgid w).
THEOREM InstalledIsChecked ==
    ASSUME ~LostWrites PROVE Spec => []OnlyCheckedInstalled
<1>1. StoreInv => OnlyCheckedInstalled
  BY DEF StoreInv
<1> QED BY <1>1, StoreHolds, PTL

\* An exit status of 0, but for "edit aborted", is only given where the text
\* asked for has gone into the crontab asked for, or the crontab was removed: on
\* each way to it (replace_crontab(), crontab_setgid w and d, remove()).  Where
\* $LOGNAME names somebody else, it may have been the caller's own crontab.
\* EROFS is left out because remove() then claims success (crontab.cpp:260).
THEOREM SuccessIsHonest ==
    ASSUME ~LostWrites, "EROFS" \notin Errors PROVE Spec => []SuccessMeansDone
<1>1. StoreInv /\ PathInv => SuccessMeansDone
  BY DEF StoreInv, PathInv, OwnPath, OwnInstall, SuccessMeansDone
<1> QED BY <1>1, StoreHolds, PTL

-----------------------------------------------------------------------------
(* The refinement of AtomicStore. *)

\* An answer, once given, stays; it is "done" where there was an effect, and
\* "failed" where there was none.
LEMMA OutcomeStep ==
    ASSUME TypeOK, TypeOK', "EROFS" \notin Errors, NEW p \in Proc, OwnEdit(p), OwnPath(p), OwnPath(p)', Step(p)
    PROVE  /\ Outcome(p) \in {"pending", "done", "failed", "lost"} /\ Outcome(p)' \in {"pending", "done", "failed", "lost"}
           /\ Outcome(p) # "pending" => Outcome(p)' = Outcome(p)
           /\ Outcome(p)' = "done" => effect'[p] # NoFile
           /\ Outcome(p)' = "failed" => effect'[p] = NoFile
<1>1. /\ Outcome(p) \in {"pending", "done", "failed", "lost"} /\ Outcome(p)' \in {"pending", "done", "failed", "lost"}
      /\ Outcome(p)' = "done" => effect'[p] # NoFile
      /\ Outcome(p)' = "failed" => effect'[p] = NoFile
  BY DEF Outcome, OwnPath, Installing, Labels, Final
<1>2. ASSUME pc[p] \in Final
      PROVE  UNCHANGED <<pc, exit>> /\ (pc[p] # "killed" => helper' = helper)
  BY <1>2 DEF Final, OwnPath, OwnEdit, Working, Installing, Step, Start, Fetch, Editor, Check, Reopen, Copy, Rename, Call, Reap,
              Unlink, Finish, Kill, HelperCopy, HelperRename, HelperExit, KillHelper
<1>3. pc[p] \notin Final => Outcome(p) = "pending"
  BY DEF Final, Outcome
<1> QED BY <1>1, <1>2, <1>3 DEF Outcome

\* Every step of a process is one of the abstract store, or a stutter.
LEMMA StepIsAtomic ==
    ASSUME ~LostWrites, "EROFS" \notin Errors, StoreInv, PathInv, NEW p \in Proc, Step(p)
    PROVE  [Store!Next]_Store!vars
<1>0. /\ TypeOK /\ TypeOK' /\ OwnPath(p) /\ OwnPath(p)' /\ OwnEdit(p) /\ OwnInstall(p) /\ Others(p)
      /\ Reach(p) \cup {Target(p)} \subseteq User
  <2>1. StoreInv' /\ PathInv'
    BY StoreInductive DEF Next
  <2> QED BY <2>1, StepIsOwn, RoleUsers DEF StoreInv, KeepInv, PathInv, Reach
<1> DEFINE served == [q \in Proc |-> effect[q] # NoFile]
           answer == [q \in Proc |-> Outcome(q)]
           request == [q \in Proc |-> [reach |-> Reach(q) \cup {Target(q)}, op |-> Op(q)]]
<1>1. /\ request' = request
      /\ \A q \in Proc \ {p} : Outcome(q)' = Outcome(q) /\ effect'[q] = effect[q]
  BY <1>0 DEF Others, Outcome, Reach, Target, Uid, Root, Op
<1>2. CASE tab' = tab /\ effect' = effect
  <2>1. served' = served
    BY <1>2
  <2>2. CASE Outcome(p)' = Outcome(p)
    <3>1. answer' = answer
      BY <1>1, <2>2
    <3> QED BY <1>1, <1>2, <2>1, <3>1 DEF Store!vars
  <2>3. CASE Outcome(p)' # Outcome(p)
    <3>1. Outcome(p) = "pending" /\ Outcome(p)' \in {"done", "failed", "lost"}
      BY <1>0, <2>3, OutcomeStep
    <3>2. answer[p] = "pending" /\ answer' = [answer EXCEPT ![p] = Outcome(p)']
      BY <1>1, <3>1
    <3>3. Store!Answer(p, Outcome(p)')
      BY <1>1, <1>2, <2>1, <3>2 DEF Store!Answer
    <3>4. /\ Outcome(p)' = "done" => served[p]
          /\ Outcome(p)' = "failed" => ~served[p]
      BY <1>0, <1>2, OutcomeStep
    <3> QED BY <3>1, <3>3, <3>4 DEF Store!Next, Store!Done, Store!Fail, Store!Crash
  <2> QED BY <2>2, <2>3
<1>3. CASE effect[p] = NoFile /\ effect'[p] # NoFile
  <2>1. PICK u \in Reach(p) \cup {Target(p)}, c \in Content \cup {NoFile} :
          /\ Put(p, u, c)
          /\ IF Op(p) = "remove" THEN c \in {NoFile, Empty} ELSE c = temp[p]
          /\ Op(p) = "remove" => pc[p] = "unlink"
    BY <1>0, <1>3, StepTouches
  <2>2. \/ helper[p] = "rename" /\ UNCHANGED <<pc, exit>>
        \/ pc[p] \in {"rename", "unlink"} /\ Goto(p, "done")
    BY <1>0, <1>3, StepTouches
  <2>3. served' = [served EXCEPT ![p] = TRUE] /\ ~served[p]
    <3>1. \A q \in Proc : (effect'[q] # NoFile) <=> (IF q = p THEN TRUE ELSE effect[q] # NoFile)
      BY <1>1, <1>3
    <3> QED BY <1>3, <3>1, Zenon
  <2>4. Outcome(p) \in {"pending", "lost"} /\ Outcome(p)' = Outcome(p)
    <3>1. pc[p] \in {"rename", "unlink"} \/ (helper[p] = "rename" /\ pc[p] \in {"wait", "killed"})
      BY <1>0, <2>2 DEF OwnPath, Working
    <3> QED BY <1>0, <2>2, <3>1 DEF Outcome, Goto, TypeOK
  <2>5. answer' = answer /\ answer[p] \in {"pending", "lost"}
    BY <1>1, <2>4
  <2>6. tab' = [tab EXCEPT ![u] = c] /\ u \in request[p].reach
    BY <2>1 DEF Put
  <2>7. CASE Op(p) = "remove"
    <3>1. Store!Serve(p, {NoFile, Empty})
      BY <1>1, <2>1, <2>3, <2>5, <2>6, <2>7 DEF Store!Serve
    <3> QED BY <2>7, <3>1 DEF Store!Next, Store!Remove
  <2>8. CASE Op(p) # "remove"
    <3>1. Op(p) \in {"replace", "edit"}
      BY <2>8, <1>0, RoleAssumption DEF TypeOK, Op
    <3>2. Installable(c) /\ c \in Content
      BY <1>0, <2>1, <2>2, <2>8 DEF OwnInstall, OwnPath, Installing, Installable
    <3>3. c \in {Whole(t) : t \in Good}
      BY <3>2 DEF Installable, Content, Whole
    <3>4. Store!Serve(p, {Whole(t) : t \in Good})
      BY <1>1, <2>3, <2>5, <2>6, <3>3 DEF Store!Serve
    <3> QED BY <3>1, <3>4 DEF Store!Next, Store!Install
  <2> QED BY <2>7, <2>8
<1> QED BY <1>0, <1>2, <1>3, StepTouches

\* crontab(1) implements the atomic store: however many runs there are of any
\* users, however their steps interleave and wherever they or their helpers
\* fail or are killed, a crontab changes at once, to a checked text or to
\* nothing, by a run that was asked to and reaches it, once.  A run that exits
\* with 0 has done so, one that fails has not and will not.
THEOREM RunsAreAtomic ==
    ASSUME ~LostWrites, "EROFS" \notin Errors PROVE Spec => ActsAtomically
<1>1. Init => Store!Init
  <2> SUFFICES ASSUME Init PROVE Store!Init
    OBVIOUS
  <2>1. \A p \in Proc : Outcome(p) = "pending" /\ effect[p] = NoFile
    BY DEF Init, Outcome
  <2> QED BY <2>1 DEF Init, Store!Init
<1>2. StoreInv /\ PathInv /\ [Next]_vars => [Store!Next]_Store!vars
  <2> SUFFICES ASSUME StoreInv, PathInv, [Next]_vars PROVE [Store!Next]_Store!vars
    OBVIOUS
  <2>1. CASE UNCHANGED vars
    BY <2>1 DEF vars, Store!vars, Outcome, Reach, Target, Uid, Root, Op
  <2> QED BY <2>1, StepIsAtomic DEF Next
<1> QED BY <1>1, <1>2, StoreHolds, PTL DEF Spec, ActsAtomically, Store!Spec

-----------------------------------------------------------------------------
(* The stamps. *)

LEMMA MachineFacts ==
    ASSUME StampsTypeOK PROVE machine.separateVar \in BOOLEAN /\ machine.racing \in BOOLEAN
BY MachineAssumption DEF StampsTypeOK

-----------------------------------------------------------------------------
(* Stale stamps and timers, on every machine. *)

LEMMA StaleInitially == StampsInit => StaleInv
<1> SUFFICES ASSUME StampsInit PROVE StaleInv
  OBVIOUS
<1>1. Flags
  BY DEF StampsInit, Flags
<1>2. StampsTypeOK
  BY <1>1 DEF StampsInit, StampsTypeOK
<1> QED BY <1>2 DEF StampsInit, StaleInv, LineInv

LEMMA FlagsStep == ASSUME StampsTypeOK, [StampsNext]_stampsvars PROVE Flags'
<1>1. Flags /\ machine.separateVar \in BOOLEAN
  BY MachineFacts DEF StampsTypeOK
<1> QED BY <1>1 DEF Flags, StampsNext, stampsvars, Boot, PowerOff, StartTimer, Elapse, Edit, ReloadBegin, ReloadEnd,
                    CleanerFind, CleanerTest, CleanerRemove, Tick

LEMMA TypeStep == ASSUME StampsTypeOK, [StampsNext]_stampsvars PROVE StampsTypeOK'
<1> USE FlagsStep DEF StampsTypeOK
<1>1. CASE Boot
  BY <1>1 DEF Boot
<1>2. CASE PowerOff
  BY <1>2 DEF PowerOff
<1>3. CASE StartTimer
  BY <1>3 DEF StartTimer
<1>4. CASE Elapse
  BY <1>4 DEF Elapse
<1>5. CASE Edit
  BY <1>5 DEF Edit
<1>6. CASE ReloadBegin \/ ReloadEnd
  BY <1>6 DEF ReloadBegin, ReloadEnd
<1>7. CASE CleanerFind \/ CleanerTest \/ CleanerRemove
  BY <1>7 DEF CleanerFind, CleanerTest, CleanerRemove
<1>8. CASE Tick \/ UNCHANGED stampsvars
  BY <1>8 DEF Tick, stampsvars
<1> QED BY <1>1, <1>2, <1>3, <1>4, <1>5, <1>6, <1>7, <1>8 DEF StampsNext

LEMMA LineStep == ASSUME StampsTypeOK, LineInv, [StampsNext]_stampsvars PROVE LineInv'
<1> USE DEF LineInv
<1>1. CASE Boot
  BY <1>1 DEF Boot
<1>2. CASE PowerOff
  BY <1>2 DEF PowerOff
<1>3. CASE StartTimer
  BY <1>3 DEF StartTimer
<1>4. CASE Elapse
  BY <1>4 DEF Elapse
<1>5. CASE Edit
  BY <1>5 DEF Edit
<1>6. CASE ReloadBegin
  BY <1>6 DEF ReloadBegin
<1>7. CASE ReloadEnd
  BY <1>7 DEF ReloadEnd, StampsTypeOK
<1>8. CASE CleanerFind \/ CleanerTest \/ CleanerRemove
  BY <1>8 DEF CleanerFind, CleanerTest, CleanerRemove, CleanerDue
<1>9. CASE Tick \/ UNCHANGED stampsvars
  BY <1>9 DEF Tick, stampsvars
<1> QED BY <1>1, <1>2, <1>3, <1>4, <1>5, <1>6, <1>7, <1>8, <1>9 DEF StampsNext

LEMMA StaleInductive == StaleInv /\ [StampsNext]_stampsvars => StaleInv'
<1> SUFFICES ASSUME StaleInv, [StampsNext]_stampsvars PROVE StaleInv'
  OBVIOUS
<1> DEFINE Swept == ~asked /\ stamp # 0 => swept <= since \/ swept < stamp + 11
<1>1. StampsTypeOK /\ LineInv /\ StampsTypeOK' /\ LineInv' /\ swept <= day /\ Swept
  BY TypeStep, LineStep DEF StaleInv
<1> SUFFICES swept' <= day' /\ Swept'
  BY <1>1 DEF StaleInv
<1> USE <1>1 DEF StampsTypeOK
<1>2. CASE Boot \/ PowerOff \/ ReloadBegin \/ ReloadEnd \/ UNCHANGED stampsvars
  BY <1>2 DEF Boot, PowerOff, ReloadBegin, ReloadEnd, stampsvars
<1>3. CASE StartTimer
  \* There is a timer to start only for a line that is there.
  BY <1>3 DEF StartTimer, LineInv
<1>4. CASE Elapse
  BY <1>4 DEF Elapse
<1>5. CASE Edit
  BY <1>5 DEF Edit
<1>6. CASE CleanerFind
  BY <1>6 DEF CleanerFind, Old
<1>7. CASE CleanerTest
  BY <1>7 DEF CleanerTest, LineInv
<1>8. CASE CleanerRemove
  BY <1>8 DEF CleanerRemove
<1>9. CASE Tick
  BY <1>9 DEF Tick
<1> QED BY <1>2, <1>3, <1>4, <1>5, <1>6, <1>7, <1>8, <1>9 DEF StampsNext

LEMMA StaleInvariant == StampsSpec => []StaleInv
BY StaleInitially, StaleInductive, PTL DEF StampsSpec

\* Whatever the schedules, the edits and the reloads that race with the cleaner:
\* a stamp that was old, its line gone, when remove_stale_stamps came to its end
\* is not there any more, and no timer is left of a line that is gone.
THEOREM NothingIsStale == StampsSpec => []NothingStale
<1>1. StaleInv => NothingStale
  BY DEF StaleInv, StampsTypeOK, LineInv, NothingStale, Settled
<1> QED BY <1>1, StaleInvariant, PTL

-----------------------------------------------------------------------------
(* Missed runs, where the timers are there whenever the cleaner looks. *)

LEMMA CalmInitially == StampsInit => CalmInv
BY DEF StampsInit, CalmInv

LEMMA CalmInductive == StaleInv /\ CalmInv /\ [StampsNext]_stampsvars => CalmInv'
<1> SUFFICES ASSUME StaleInv, CalmInv, [StampsNext]_stampsvars, Calm' PROVE CalmInv'
  BY DEF CalmInv
<1>1. StampsTypeOK /\ LineInv /\ StampsTypeOK' /\ Calm
  <2>1. UNCHANGED machine
    BY DEF StampsNext, stampsvars, Boot, PowerOff, StartTimer, Elapse, Edit, ReloadBegin, ReloadEnd,
           CleanerFind, CleanerTest, CleanerRemove, Tick
  <2> QED BY <2>1, TypeStep DEF StaleInv, Calm
<1> USE <1>1 DEF CalmInv, StampsTypeOK
<1>2. CASE Boot
  BY <1>2 DEF Boot, LineInv, Calm
<1>3. CASE PowerOff
  BY <1>3 DEF PowerOff
<1>4. CASE StartTimer
  \* A job that has run has its stamp, from no later than that.
  BY <1>4 DEF StartTimer, LineInv
<1>5. CASE Elapse
  BY <1>5 DEF Elapse
<1>6. CASE Edit
  BY <1>6 DEF Edit, Calm
<1>7. CASE ReloadBegin
  BY <1>7 DEF ReloadBegin, Calm
<1>8. CASE ReloadEnd
  BY <1>8 DEF ReloadEnd
<1>9. CASE CleanerFind
  BY <1>9 DEF CleanerFind, Calm
<1>10. CASE CleanerTest
  \* The timer is not there: the machine is on, so the line is gone.
  BY <1>10 DEF CleanerTest, LineInv
<1>11. CASE CleanerRemove
  BY <1>11 DEF CleanerRemove
<1>12. CASE Tick \/ UNCHANGED stampsvars
  BY <1>12 DEF Tick, stampsvars
<1> QED BY <1>2, <1>3, <1>4, <1>5, <1>6, <1>7, <1>8, <1>9, <1>10, <1>11, <1>12 DEF StampsNext

LEMMA CalmInvariant == StampsSpec => [](StaleInv /\ CalmInv)
<1>1. StampsInit => StaleInv /\ CalmInv
  BY StaleInitially, CalmInitially
<1>2. StaleInv /\ CalmInv /\ [StampsNext]_stampsvars => StaleInv' /\ CalmInv'
  BY StaleInductive, CalmInductive
<1> QED BY <1>1, <1>2, PTL DEF StampsSpec

\* For every schedule: however long the machine was off, and whatever was edited
\* and cleaned up meanwhile, at the end of a day with the machine on the job has
\* run since its schedule last elapsed.
THEOREM PersistentJobsCatchUp == StampsSpec => []CaughtUp
<1>1. StaleInv /\ CalmInv => CaughtUp
  <2> SUFFICES ASSUME StaleInv, CalmInv, Calm, on, done # 0, Settled
               PROVE  Between(Elapses, done, day) = {}
    BY DEF CaughtUp, Calm
  <2>1. asked /\ generated
    BY DEF CalmInv, Settled
  <2>2. timer = "waiting" /\ Between(Elapses, last, day) = {}
    BY <2>1 DEF Settled
  <2>3. last <= done /\ last \in Nat /\ done \in Nat /\ day \in Nat
    BY <2>2 DEF CalmInv, StaleInv, StampsTypeOK
  <2> SUFFICES ASSUME NEW e \in Elapses, done < e, e <= day PROVE FALSE
    BY DEF Between
  <2>4. e \in Nat
    BY DaysAssumption
  <2>5. last < e
    BY <2>3, <2>4
  <2> QED BY <2>2, <2>5 DEF Between
<1> QED BY <1>1, CalmInvariant, PTL

=============================================================================
