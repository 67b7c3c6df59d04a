---------------------------- MODULE ChapterShelf ----------------------------
(***************************************************************************)
(* What a reader of the library may expect of one chapter: a copy that is  *)
(* replaced at once or not at all, never by a worse one.  The "pica"       *)
(* downloads of ChapterCommit implement it.                                *)
(***************************************************************************)
EXTENDS Integers

CONSTANTS Manifests, Length, MaxPages, NoDir

VARIABLE copy

Pages == 1..MaxPages
Copies == [manifest : Manifests,
           file : [Pages -> Manifests \cup {"none", "broken", "damaged"}]]

Good(c, p) == c.file[p] = c.manifest

Init == copy = NoDir

\* The new copy is complete; a page is bad only if it was bad before.
Replace ==
    /\ copy' \in Copies
    /\ \A p \in Pages :
        IF p \in 1..Length[copy'.manifest]
        THEN \/ Good(copy', p)
             \/ /\ copy # NoDir
                /\ copy.manifest = copy'.manifest
                /\ ~Good(copy, p)
        ELSE copy'.file[p] = "none"

\* Outside of the program: a page is lost or damaged.
Spoil ==
    /\ copy # NoDir
    /\ \E p \in Pages, b \in {"none", "broken", "damaged"} :
        copy' = [copy EXCEPT !.file[p] = b]

Next == Replace \/ Spoil

Spec == Init /\ [][Next]_copy
=============================================================================
