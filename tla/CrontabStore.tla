---------------------------- MODULE CrontabStore ----------------------------
(***************************************************************************)
(* crontab(1) and its helper crontab_setgid: concurrent invocations that   *)
(* replace, edit or remove the crontabs in CRONTAB_DIR                     *)
(* (src/src/bin/crontab.cpp, src/src/bin/crontab_setgid.c).                *)
(*                                                                         *)
(* A new crontab is written beside the old one, as user.XXXXXX, and        *)
(* renamed over it.  Root does that itself; for anybody else CRONTAB_DIR   *)
(* is closed and crontab(1) turns to the helper, which acts on the crontab *)
(* of whoever runs it: of the uid, where crontab(1) goes by $LOGNAME.      *)
(* Any call may fail, any process may be killed; the helper is a process   *)
(* of its own and goes on when crontab(1) is.                              *)
(*                                                                         *)
(* A crontab is a text, whole or cut short.  Not modelled: a power cut     *)
(* (nothing is synced before rename()), and an editor that goes on writing *)
(* after it has returned.                                                  *)
(***************************************************************************)
EXTENDS Integers

CONSTANTS
    Proc, User,
    Roles,        \* what a process may be asked to do, by whom
    Denied,       \* users cron.allow or cron.deny turns away
    Text, Good,   \* texts, and those --check accepts
    Template,     \* the text an edit of no crontab starts from
    NoFile,
    Errors,       \* what CRONTAB_DIR may answer root with
    LostWrites    \* an I/O error within a copy may happen

\* A run of crontab(1): whose uid it has, the current_user it finds in its
\* environment, the -u it is given, what it is to do, whether its euid is 0,
\* whether it finds crontab_setgid installed.
ASSUME RoleAssumption ==
    Roles \subseteq [uid : User, me : User, target : User, op : {"replace", "edit", "remove"},
                    root : BOOLEAN, helped : BOOLEAN]
ASSUME TextAssumption == /\ Template \in Good /\ Good \subseteq Text
                         /\ LostWrites \in BOOLEAN

Content == [text : Text, extent : {"whole", "part"}]
ASSUME NoFileAssumption == NoFile \notin Content
Whole(t) == [text |-> t, extent |-> "whole"]
Empty == Whole(Template)     \* an empty file is as good as one of comments

\* What a run did to the crontabs.
Effects == [user : User, content : Content \cup {NoFile}]
ASSUME NoEffectAssumption == NoFile \notin Effects

VARIABLES
    role,      \* role[p]: what p was started for
    tab,       \* tab[u]: CRONTAB_DIR/u
    temp,      \* temp[p]: the CRONTAB_DIR/u.XXXXXX that p, or its helper, has made
    tmp,       \* tmp[p]: the file p installs from
    pc,
    helper,    \* helper[p]: the crontab_setgid w that p has started
    exit,      \* exit[p]: p's exit status
    wanted,    \* wanted[p]: the text p is to install, of the FILE or of the editor (history)
    effect     \* effect[p]: what p has done (history)

vars == <<role, tab, temp, tmp, pc, helper, exit, wanted, effect>>

Final == {"exit", "aborted", "killed"}
Labels == {"start", "fetch", "editor", "check", "reopen", "install", "rename", "helper",
           "wait", "unlink", "done"} \cup Final

Root(p) == role[p].root
HAVE_SETGID(p) == role[p].helped /\ ~Root(p)
Op(p) == role[p].op
Uid(p) == role[p].uid
Me(p) == role[p].me
Target(p) == role[p].target

Leave(p, l, status) ==
    /\ pc' = [pc EXCEPT ![p] = l]
    /\ exit' = [exit EXCEPT ![p] = status]
    /\ UNCHANGED role

Exit(p, status) == Leave(p, "exit", status)

Goto(p, l) ==
    /\ pc' = [pc EXCEPT ![p] = l]
    /\ UNCHANGED <<exit, role>>

\* The autodeleting_path of edit(), armed.
DropTmp(p) == tmp' = [tmp EXCEPT ![p] = NoFile]

\* copy_FILE(): what a copy of c may turn out as, unnoticed.
Copies(c) == {c} \cup IF LostWrites THEN {[c EXCEPT !.extent = "part"]} ELSE {}

\* u's crontab becomes c, or none.
Put(p, u, c) ==
    /\ tab' = [tab EXCEPT ![u] = c]
    /\ effect' = [effect EXCEPT ![p] = [user |-> u, content |-> c]]

-----------------------------------------------------------------------------
\* For replace(): FILE, or what has arrived of the standard input.
Start(p) ==
    /\ pc[p] = "start"
    /\ Goto(p, CASE Op(p) = "replace" -> "check" [] Op(p) = "edit" -> "fetch" [] OTHER -> "unlink")
    /\ IF Op(p) = "replace"
         THEN \E t \in Text : /\ wanted' = [wanted EXCEPT ![p] = Whole(t)]
                              /\ tmp' = [tmp EXCEPT ![p] = Whole(t)]
         ELSE UNCHANGED <<tmp, wanted>>
    /\ UNCHANGED <<tab, temp, helper, effect>>

\* What edit() starts from: the template, or a copy of the crontab.
Opened(c) == IF c = NoFile THEN {Whole(Template)} ELSE Copies(c)

\* What edit() finds itself: anything for root, one's own crontab or that
\* there is none for anybody who may look into CRONTAB_DIR.
Direct(p) ==
    IF Root(p) \/ Uid(p) = Target(p) \/ tab[Target(p)] = NoFile
      THEN Opened(tab[Target(p)]) ELSE {}

\* What crontab_setgid r shows it; the template if that is gone since (127).
Shown(p) ==
    IF Me(p) = Target(p) /\ HAVE_SETGID(p)
      THEN Opened(tab[Uid(p)]) \cup {Whole(Template)} ELSE {}

\* edit(), first part.
Fetch(p) ==
    /\ pc[p] = "fetch"
    /\ \/ /\ \E c \in Direct(p) \cup Shown(p) : tmp' = [tmp EXCEPT ![p] = c]
          /\ Goto(p, "editor")
       \/ /\ \E s \in {1} \cup IF HAVE_SETGID(p) THEN {125, 137} ELSE {} : Exit(p, s)
          /\ UNCHANGED tmp
    /\ UNCHANGED <<tab, temp, helper, wanted, effect>>

\* What the user may leave in the editor.
Saves(p) == {tmp[p]} \cup {Whole(t) : t \in Text}

\* Slip: the edit is not kept when the editor fails.
Editor_Drop(p) ==
    /\ pc[p] = "editor"
    /\ \E c \in Saves(p) :
         /\ wanted' = [wanted EXCEPT ![p] = c]
         /\ \/ Goto(p, "check") /\ tmp' = [tmp EXCEPT ![p] = c]
            \/ Exit(p, 1) /\ DropTmp(p)
    /\ UNCHANGED <<tab, temp, helper, effect>>

\* Slip: the wait status is not taken apart.
Editor_WaitStatus(p) ==
    /\ pc[p] = "editor"
    /\ \E c \in Saves(p) :
         /\ wanted' = [wanted EXCEPT ![p] = c]
         /\ tmp' = [tmp EXCEPT ![p] = c]
         /\ Goto(p, "check") \/ Exit(p, 256)
    /\ UNCHANGED <<tab, temp, helper, effect>>

\* The editor: the user saves some text or leaves the one there is, or removes
\* the file, and the editor succeeds or not; or it cannot be started.  An editor
\* that returns 127 is one that was not found, whatever it saved.
Editor(p) ==
    /\ pc[p] = "editor"
    /\ \/ \E c \in Saves(p) :
            /\ wanted' = [wanted EXCEPT ![p] = c]
            /\ \/ tmp' = [tmp EXCEPT ![p] = c] /\ (Goto(p, "check") \/ Exit(p, 1))
               \/ DropTmp(p) /\ Leave(p, "aborted", 127)
       \/ /\ DropTmp(p) /\ UNCHANGED wanted
          /\ Goto(p, "check") \/ Exit(p, 1) \/ Exit(p, 125)
    /\ UNCHANGED <<tab, temp, helper, effect>>

\* The verdict of the generator's --check on c, either one for half a text.
MayPass(c) == c # NoFile /\ (c.extent = "whole" => c.text \in Good)
MayFail(c) == c # NoFile => (c.extent = "whole" => c.text \notin Good)

Checked(p) == IF Op(p) = "edit" THEN "reopen" ELSE "install"

\* Slip: the verdict is only shown.
Check_Ignored(p) ==
    /\ pc[p] = "check" /\ tmp[p] # NoFile
    /\ Goto(p, Checked(p))
    /\ UNCHANGED <<tab, temp, tmp, helper, wanted, effect>>

Check(p) ==
    /\ pc[p] = "check"
    /\ \/ MayPass(tmp[p]) /\ Goto(p, Checked(p))
       \/ MayFail(tmp[p]) /\ Exit(p, 1)
    /\ UNCHANGED <<tab, temp, tmp, helper, wanted, effect>>

\* edit() opens the file again; any failure to is taken for a removal.
Reopen(p) ==
    /\ pc[p] = "reopen"
    /\ \/ Goto(p, "install") /\ UNCHANGED tmp
       \/ Leave(p, "aborted", 0) /\ DropTmp(p)
    /\ UNCHANGED <<tab, temp, helper, wanted, effect>>

-----------------------------------------------------------------------------
(* replace_crontab(), and what its callers do when it fails *)

\* Slip: whose crontab is asked for is not compared.
Failed_AnyUser(p, err) ==
    IF err \notin {"ENOSPC", "EROFS"} /\ HAVE_SETGID(p) THEN Goto(p, "helper") ELSE Exit(p, 1)

Failed(p, err) ==
    IF Me(p) = Target(p) /\ err \notin {"ENOSPC", "EROFS"} /\ HAVE_SETGID(p)
      THEN Goto(p, "helper") ELSE Exit(p, 1)

\* mkostemp(), fdopen(), copy_FILE(), fflush().  Where fdopen() fails the file
\* stays: its path is armed only after it.
Copy(p) ==
    /\ pc[p] = "install"
    /\ \/ /\ Root(p)
          /\ \E c \in Copies(tmp[p]) : temp' = [temp EXCEPT ![p] = c]
          /\ Goto(p, "rename")
       \/ /\ \E err \in Errors \cup {"EACCES"} : Failed(p, err)
          /\ UNCHANGED temp \/ (Root(p) /\ temp' = [temp EXCEPT ![p] = Empty])
    /\ UNCHANGED <<tab, tmp, helper, wanted, effect>>

\* Slip: final_tmp_path is not armed.
Rename_Unarmed(p) ==
    /\ pc[p] = "rename"
    /\ \/ /\ Put(p, Target(p), temp[p])
          /\ temp' = [temp EXCEPT ![p] = NoFile]
          /\ Goto(p, "done")
       \/ \E err \in Errors : Failed(p, err) /\ UNCHANGED <<tab, temp, effect>>
    /\ UNCHANGED <<tmp, helper, wanted>>

\* Slip: rename() succeeds, and the caller is told that it did not.
Rename_Misreported(p) ==
    /\ pc[p] = "rename"
    /\ \/ Put(p, Target(p), temp[p])
       \/ UNCHANGED <<tab, effect>>
    /\ \E err \in Errors : Failed(p, err)
    /\ temp' = [temp EXCEPT ![p] = NoFile]
    /\ UNCHANGED <<tmp, helper, wanted>>

\* rename(); on failure the temporary file is deleted.
Rename(p) ==
    /\ pc[p] = "rename"
    /\ \/ Put(p, Target(p), temp[p]) /\ Goto(p, "done")
       \/ \E err \in Errors : Failed(p, err) /\ UNCHANGED <<tab, effect>>
    /\ temp' = [temp EXCEPT ![p] = NoFile]
    /\ UNCHANGED <<tmp, helper, wanted>>

\* What becomes of the file installed from: an edit that made it is deleted.
Installed(p) == IF Op(p) = "edit" THEN DropTmp(p) ELSE UNCHANGED tmp

\* The rest of the way to an exit status of 0.
Finish(p) ==
    /\ pc[p] = "done"
    /\ Installed(p) /\ Exit(p, 0)
    /\ UNCHANGED <<tab, temp, helper, wanted, effect>>

-----------------------------------------------------------------------------
(* crontab_setgid w, a child of crontab(1) *)

Helper(p, l) == helper' = [helper EXCEPT ![p] = l]
Working == {"copy", "rename", "renamed"}
Ended == {"ok", "failed", "missing", "killed"}
HelperStatus == [s \in Ended |-> CASE s = "ok" -> 0 [] s = "failed" -> 1 [] s = "missing" -> 127 [] OTHER -> 137]

\* vfork(), and the exec() of the helper.
Call(p) ==
    /\ pc[p] = "helper"
    /\ \/ Goto(p, "wait") /\ (Helper(p, "copy") \/ Helper(p, "missing"))
       \/ Exit(p, 125) /\ UNCHANGED helper
    /\ UNCHANGED <<tab, temp, tmp, wanted, effect>>

\* The lists, then the temporary file.  A write that fails is noticed and the
\* file deleted; a read that fails ends the copy.
HelperCopy(p) ==
    /\ helper[p] = "copy"
    /\ \/ /\ Uid(p) \notin Denied
          /\ \E c \in Copies(tmp[p]) : temp' = [temp EXCEPT ![p] = c]
          /\ Helper(p, "rename")
       \/ Helper(p, "failed") /\ UNCHANGED temp
    /\ UNCHANGED <<role, tab, tmp, pc, exit, wanted, effect>>

HelperRename(p) ==
    /\ helper[p] = "rename"
    /\ \/ Put(p, Uid(p), temp[p]) /\ Helper(p, "renamed")
       \/ UNCHANGED <<tab, effect>> /\ Helper(p, "failed")
    /\ temp' = [temp EXCEPT ![p] = NoFile]
    /\ UNCHANGED <<role, tmp, pc, exit, wanted>>

HelperExit(p) ==
    /\ helper[p] = "renamed"
    /\ Helper(p, "ok")
    /\ UNCHANGED <<role, tab, temp, tmp, pc, exit, wanted, effect>>

\* crontab(1) passes the helper's exit status on.
Reap(p) ==
    /\ pc[p] = "wait" /\ helper[p] \in Ended
    /\ IF helper[p] = "ok" THEN Installed(p) ELSE UNCHANGED tmp
    /\ Exit(p, HelperStatus[helper[p]])
    /\ UNCHANGED <<tab, temp, helper, wanted, effect>>

-----------------------------------------------------------------------------
\* remove(): the unlink() of crontab(1), where it finds a crontab to remove or
\* none.  EROFS with the crontab still there is reported as there being none.
UnlinkItself(p) ==
    \/ /\ Root(p) \/ tab[Target(p)] = NoFile
       /\ Put(p, Target(p), NoFile) /\ Goto(p, "done")
    \/ /\ Root(p) /\ tab[Target(p)] # NoFile /\ UNCHANGED <<tab, effect>>
       /\ \E err \in Errors : Exit(p, IF err = "EROFS" THEN 0 ELSE 1)

\* remove() by anybody but root: not another's crontab, the unlink() of
\* crontab_setgid d, which takes the place of crontab(1), or without it at least
\* an empty file.
UnlinkOther(p) ==
    \/ Exit(p, 1) /\ UNCHANGED <<tab, effect>>
    \/ /\ Me(p) = Target(p) /\ HAVE_SETGID(p)
       /\ Put(p, Uid(p), NoFile) /\ Goto(p, "done")
    \/ /\ Me(p) = Target(p) /\ ~HAVE_SETGID(p) /\ Uid(p) = Target(p) /\ tab[Target(p)] # NoFile
       /\ Put(p, Target(p), Empty) /\ Goto(p, "done")

Unlink(p) ==
    /\ pc[p] = "unlink"
    /\ UnlinkItself(p) \/ (~Root(p) /\ UnlinkOther(p))
    /\ UNCHANGED <<temp, tmp, helper, wanted>>

\* SIGKILL or a crash of crontab(1): files stay as they are, and the helper
\* that it has started goes on.
Kill(p) ==
    /\ pc[p] \notin Final
    /\ Leave(p, "killed", 137)
    /\ UNCHANGED <<tab, temp, tmp, helper, wanted, effect>>

\* The same of the helper.
KillHelper(p) ==
    /\ helper[p] \in Working
    /\ Helper(p, "killed")
    /\ UNCHANGED <<role, tab, temp, tmp, pc, exit, wanted, effect>>

Init ==
    /\ role \in [Proc -> Roles]
    /\ tab \in [User -> {NoFile} \cup {Whole(t) : t \in Good}]
    /\ temp = [p \in Proc |-> NoFile]
    /\ tmp = [p \in Proc |-> NoFile]
    /\ pc = [p \in Proc |-> "start"]
    /\ helper = [p \in Proc |-> "off"]
    /\ exit = [p \in Proc |-> 255]
    /\ wanted = [p \in Proc |-> NoFile]
    /\ effect = [p \in Proc |-> NoFile]

Step(p) ==
    \/ Start(p) \/ Fetch(p) \/ Editor(p) \/ Check(p) \/ Reopen(p)
    \/ Copy(p) \/ Rename(p) \/ Call(p) \/ Reap(p) \/ Unlink(p) \/ Finish(p) \/ Kill(p)
    \/ HelperCopy(p) \/ HelperRename(p) \/ HelperExit(p) \/ KillHelper(p)

Next == \E p \in Proc : Step(p)

Spec == Init /\ [][Next]_vars

-----------------------------------------------------------------------------
TypeOK ==
    /\ role \in [Proc -> Roles]
    /\ tab \in [User -> Content \cup {NoFile}]
    /\ temp \in [Proc -> Content \cup {NoFile}]
    /\ tmp \in [Proc -> Content \cup {NoFile}]
    /\ wanted \in [Proc -> Content \cup {NoFile}]
    /\ effect \in [Proc -> Effects \cup {NoFile}]
    /\ pc \in [Proc -> Labels]
    /\ helper \in [Proc -> {"off"} \cup Working \cup Ended]
    /\ exit \in [Proc -> {0, 1, 125, 127, 137, 255}]

\* "Crontabs are checked before installing": whatever fails, and whoever is
\* killed or working on the same crontab, the file that is in place is a
\* complete text that passed the check.
OnlyCheckedInstalled ==
    \A u \in User : tab[u] # NoFile => tab[u].extent = "whole" /\ tab[u].text \in Good

\* What the user wrote in crontab -e stays in the file whose name it prints,
\* until it is in place.  It is given up, without having had any effect, in
\* exactly two cases: the editor returned 127 (whatever it saved,
\* crontab.cpp:387), or the file could not be opened again after the check
\* (for whatever reason, with status 0, crontab.cpp:402).
EditKept ==
    \A p \in Proc : Op(p) = "edit" /\ wanted[p] # NoFile =>
        IF pc[p] = "aborted"
          THEN tmp[p] = NoFile /\ effect[p] = NoFile /\ exit[p] \in {0, 127}
          ELSE tmp[p] = wanted[p] \/ exit[p] = 0

\* Exit status 0 of a run that did not say "edit aborted": the text asked for
\* went into the crontab asked for, or the crontab was removed.  The crontab
\* asked for is that of -u, or of the user $LOGNAME names - but where it names
\* another than the uid, the helper's success is one with the crontab of the
\* uid, whatever crontab(1) was told.
SuccessMeansDone ==
    \A p \in Proc : pc[p] = "exit" /\ exit[p] = 0 =>
        /\ effect[p] # NoFile
        /\ IF Op(p) = "remove" THEN effect[p].content \in {NoFile, Empty}
                               ELSE effect[p].content = wanted[p]
        /\ IF ~Root(p) /\ Me(p) = Target(p) THEN effect[p].user \in {Target(p), Uid(p)}
                                            ELSE effect[p].user = Target(p)

\* The crontabs a step of p may change: root's is that of -u; anybody else's is
\* that of their own uid, whatever -u and $LOGNAME say.
Reach(p) == {IF Root(p) THEN Target(p) ELSE Uid(p)}

\* Nobody but root changes the crontab of anybody else.
OnlyTargetChanged ==
    [][\A p \in Proc : pc'[p] # pc[p] \/ helper'[p] # helper[p] =>
           \A u \in User \ Reach(p) : tab'[u] = tab[u]]_vars

\* Only a process that was killed leaves a text in CRONTAB_DIR; a run of root's
\* that failed may leave an empty user.XXXXXX, where fdopen() did
\* (crontab.cpp:298).
NoLitter ==
    \A p \in Proc : pc[p] \in {"exit", "aborted"} /\ helper[p] # "killed" =>
        temp[p] = NoFile \/ (temp[p] = Empty /\ Root(p) /\ exit[p] = 1)

\* All of it together: however the steps of concurrent runs interleave, and
\* whatever fails or is killed, the crontabs change as if every run took effect
\* in a single step.  One that exits with 0 has, one that fails has not and
\* will not; of one that was killed, or whose helper was, either may be true,
\* and its helper may still be on its way.
Outcome(p) ==
    CASE pc[p] = "exit" /\ exit[p] = 0 -> "done"
      [] pc[p] = "killed" \/ (pc[p] = "exit" /\ helper[p] = "killed") -> "lost"
      [] pc[p] = "aborted" \/ (pc[p] = "exit" /\ exit[p] # 0 /\ helper[p] # "killed") -> "failed"
      [] OTHER -> "pending"

Store == INSTANCE AtomicStore WITH
    Valid <- {Whole(t) : t \in Good}, Absent <- {NoFile, Empty},
    request <- [p \in Proc |-> [reach |-> Reach(p) \cup {Target(p)}, op |-> Op(p)]],
    served <- [p \in Proc |-> effect[p] # NoFile],
    answer <- [p \in Proc |-> Outcome(p)]

ActsAtomically == Store!Spec

=============================================================================
