--------------------------- MODULE MCCrontabStore ---------------------------
(* Processes that work on Joe's crontab: Joe's own, with and without the    *)
(* helper, Ann's, who may not, Ann's with $LOGNAME set to joe, and root's.  *)
EXTENDS CrontabStore, TLC

CONSTANTS p1, p2, joe, ann

Role(u, m, o, r, h) == [uid |-> u, me |-> m, target |-> joe, op |-> o, root |-> r, helped |-> h]

MCRoles ==
    {Role(joe, joe, "edit", FALSE, TRUE), Role(joe, joe, "remove", FALSE, FALSE)}
        \cup {Role(ann, me, op, FALSE, TRUE) : me \in {ann, joe}, op \in {"replace", "edit", "remove"}}
        \cup {Role(ann, ann, op, TRUE, TRUE) : op \in {"replace", "edit", "remove"}}

MCSymmetry == Permutations(Proc)

=============================================================================
