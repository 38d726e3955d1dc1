---------------------------- MODULE GitHistory ----------------------------
(***************************************************************************)
(* What the driver needs to know of git: histories, ancestry and rebase.   *)
(*                                                                         *)
(* A commit is named by the set of commit objects in its history, so two   *)
(* names are equal exactly when git's commit ids are, and the empty set    *)
(* stands for the repository's first commit, which every history holds.    *)
(* A commit object is a pair <<change, copy>>: the change is the content   *)
(* it carries, and the copy number tells the object of one commit of that  *)
(* change from the objects a rebase, a squash or a cherry-pick makes of    *)
(* it. Copy 0 is the copy a person makes, copy 1 the original, and each    *)
(* rebase makes the next one.                                              *)
(***************************************************************************)
EXTENDS Naturals

CONSTANT Changes    \* what commits can carry: pod writes and foreign work

Objects == Changes \X Nat

Histories == SUBSET Objects

\* The content a history carries, whichever objects carry it.
ChangesOf(history) == { object[1] : object \in history }

\* git merge-base --is-ancestor: workTree.ancestor.
Ancestor(first, second) == first \subseteq second

\* A new commit of a change on top of a history.
Committed(history, work) == history \cup { <<change, 1>> : change \in work }

\* git rebase in the scratch tree: a tree that already holds upstream is
\* left alone; otherwise the commits upstream lacks are copied onto it,
\* and a commit whose patch upstream already carries is dropped.
Replay(head, upstream) ==
    IF Ancestor(upstream, head)
    THEN head
    ELSE upstream \cup
         { <<object[1], object[2] + 1>> :
               object \in { one \in head \ upstream :
                                one[1] \notin ChangesOf(upstream) } }

\* The remote takes a push to a branch it holds only as a fast-forward.
FastForward(held, pushed) == Ancestor(held, pushed)

=============================================================================
