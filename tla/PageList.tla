------------------------------ MODULE PageList ------------------------------
(***************************************************************************)
(* The list of the images of a chapter, as the reader of pages asks it     *)
(* from upstream.  Pica gives it in parts, which are read side by side and *)
(* put together in the order of their numbers; JM gives it at once, to     *)
(* whoever knows the chapter.  Lists are kept for ten minutes.  Meanwhile  *)
(* upstream adds images, gives and takes their addresses, and publishes    *)
(* the chapter; a part may come short, and the total may be left out.      *)
(***************************************************************************)
EXTENDS Integers, Sequences, FiniteSets, SequencesExt, FiniteSetsExt

CONSTANTS Listers,      \* requests that may list the chapter
          PartSize,     \* images in a part: 40 upstream
          MaxImages,    \* bound on the images of the chapter
          MaxUnready,   \* bound on the images without an address
          PartSlots,    \* parts that one request reads at a time: 4
          NoList

ASSUME ListAssumption ==
    /\ {PartSize, PartSlots, MaxImages} \subseteq Nat \ {0}
    /\ MaxUnready \in Nat
    /\ NoList \notin Seq(0..MaxImages)

VARIABLES
    service,    \* which upstream it is
    images,     \* upstream: the chapter has the images 1..images
    unready,    \* upstream: the images that have no address
    published,  \* upstream: the chapter is in the list of the comic
    chapters,   \* chapCache: what is known of the list of the comic
    kept,       \* urlCache or imgCache: the list that was kept
    lister      \* where each request is

listVars == <<service, images, unready, published, chapters, kept, lister>>
upstreamVars == <<service, images, unready, published>>

\* From each image to the next one the numbers rise.
Rising(list) == \A i, j \in DOMAIN list : i < j => list[i] < list[j]

\* The images of a set, in their order: it has one element.
InTurn(S) == {list \in [1..Cardinality(S) -> S] : Rising(list)}

\* The images of part p.
ImagesOf(p) == ((p - 1) * PartSize + 1)..Min({p * PartSize, images})

\* What upstream may answer for part p: some of its images, in their order.
Docs(p) == UNION {InTurn(S) : S \in SUBSET ImagesOf(p)}

\* 0 stands for an image that has no address.
Addressed(docs) ==
    [i \in DOMAIN docs |-> IF docs[i] \in unready THEN 0 ELSE docs[i]]

\* The number of parts: there is always one.
PartCount == Max({1, (images + PartSize - 1) \div PartSize})

NoLister == [at |-> "idle", total |-> 0, waiting |-> {}, reading |-> {},
             parts |-> <<>>, failed |-> FALSE, known |-> FALSE,
             list |-> NoList, shown |-> {}]

ListInit ==
    /\ service \in {"pica", "jm"}
    /\ images \in 0..1
    /\ unready = {}
    /\ published = FALSE
    /\ chapters = "unknown"
    /\ kept = NoList
    /\ lister = [l \in Listers |-> NoLister]

(***************************************************************************)
(* Upstream, and the clock.                                                *)
(***************************************************************************)
Publish ==
    /\ ~published
    /\ published' = TRUE
    /\ UNCHANGED <<service, images, unready, chapters, kept, lister>>

Grow ==
    /\ images < MaxImages
    /\ images' = images + 1
    /\ UNCHANGED <<service, unready, published, chapters, kept, lister>>

\* Images get their addresses, or lose them.
Readdress ==
    /\ unready' \in SUBSET (1..images)
    /\ unready' # unready /\ Cardinality(unready') <= MaxUnready
    /\ UNCHANGED <<service, images, published, chapters, kept, lister>>

\* Ten minutes have passed for what is kept.
KeptExpires ==
    /\ \/ kept # NoList /\ kept' = NoList /\ UNCHANGED chapters
       \/ chapters # "unknown" /\ chapters' = "unknown" /\ UNCHANGED kept
    /\ UNCHANGED <<service, images, unready, published, lister>>

(***************************************************************************)
(* A request.  The field shown is a history: the images that upstream has  *)
(* answered with.                                                          *)
(***************************************************************************)
Goes(l, at) == lister' = [lister EXCEPT ![l].at = at]

\* Pages or PageImage is called; known says whether the chapter was there.
AskList(l) ==
    /\ lister[l].at = "idle"
    /\ lister' = [lister EXCEPT
          ![l].at = IF service = "jm" THEN "resolving" ELSE "looking",
          ![l].known = published]
    /\ UNCHANGED <<chapters, kept>>

\* resolveChapter: the list that is kept has the chapter.
Resolved(l) ==
    /\ lister[l].at = "resolving"
    /\ chapters = "with"
    /\ Goes(l, "looking")
    /\ UNCHANGED <<chapters, kept>>

\* resolveChapter: it has not, or none is kept, and Detail is asked.
AskDetail(l) ==
    /\ lister[l].at = "resolving"
    /\ chapters # "with"
    /\ \E at \in {IF published THEN "with" ELSE "without", "failed"} :
          Goes(l, at)
    /\ UNCHANGED <<chapters, kept>>

\* resolveChapter: the new list is kept, and searched for the chapter.
KeepDetail(l) ==
    /\ lister[l].at \in {"with", "without"}
    /\ chapters' = lister[l].at
    /\ Goes(l, IF lister[l].at = "with" THEN "looking" ELSE "missing")
    /\ UNCHANGED kept

\* The list that is kept is taken, else upstream is asked.
LookUp(l) ==
    /\ lister[l].at = "looking"
    /\ lister' = [lister EXCEPT ![l] =
          IF kept # NoList
          THEN [@ EXCEPT !.at = "ok", !.list = kept, !.total = Len(kept),
                         !.shown = ToSet(kept)]
          ELSE [@ EXCEPT !.at = "asking"]]
    /\ UNCHANGED <<chapters, kept>>

(* JM.chapterImages: names that are blank are left out, wherever they are, *)
(* and the others counted and numbered without them; no names are an error.*)
JmList(l) ==
    /\ service = "jm" /\ lister[l].at = "asking"
    /\ \E names \in InTurn((1..images) \ unready) :
          lister' = [lister EXCEPT ![l] =
              IF names = <<>> THEN [@ EXCEPT !.at = "failed"]
              ELSE [@ EXCEPT !.at = "keeping", !.list = names,
                             !.total = Len(names), !.shown = ToSet(names)]]
    /\ UNCHANGED <<chapters, kept>>

(* chapterImageURLs: the first part tells how many parts and images there  *)
(* are; a total that is left out is 0.                                     *)
FirstPart(l) ==
    /\ service = "pica" /\ lister[l].at = "asking"
    /\ \E docs \in Docs(1), total \in {images, 0} :
          lister' = [lister EXCEPT ![l] =
              [@ EXCEPT !.at = "collecting", !.total = total,
                        !.parts = <<<<1, Addressed(docs)>>>>,
                        !.shown = ToSet(Addressed(docs)),
                        !.waiting = 2..PartCount]]
    /\ UNCHANGED <<chapters, kept>>

\* Upstream answers the request for part p with these.
Gets(l, p, docs) ==
    lister' = [lister EXCEPT
        ![l].waiting = @ \ {p},
        ![l].reading = @ \cup {<<p, Addressed(docs)>>},
        ![l].shown = @ \cup ToSet(Addressed(docs))]

\* Wrong variant of ReadPart: all parts are read at once.
ReadPartAtOnce(l, p) ==
    /\ p \in lister[l].waiting
    /\ \E docs \in Docs(p) : Gets(l, p, docs)
    /\ UNCHANGED <<chapters, kept>>

(* A goroutine gets one of the places and asks for its part.  Upstream     *)
(* answers with the part, with some of it, or with no images at all.       *)
ReadPart(l, p) ==
    /\ p \in lister[l].waiting
    /\ Cardinality(lister[l].reading) < PartSlots
    /\ \E docs \in Docs(p) : Gets(l, p, docs)
    /\ UNCHANGED <<chapters, kept>>

\* collect: the parts are appended in the order in which they arrive.
PartArrives(l, part) ==
    /\ lister' = [lister EXCEPT ![l].reading = @ \ {part},
                                ![l].parts = Append(@, part)]
    /\ UNCHANGED <<chapters, kept>>

\* A part cannot be read.
PartFails(l, part) ==
    /\ lister' = [lister EXCEPT ![l].reading = @ \ {part},
                                ![l].failed = TRUE]
    /\ UNCHANGED <<chapters, kept>>

\* The request is over before there is a place.
PartGivenUp(l, p) ==
    /\ lister' = [lister EXCEPT ![l].waiting = @ \ {p}, ![l].failed = TRUE]
    /\ UNCHANGED <<chapters, kept>>

\* Wrong variant of InOrder: the parts stay as they arrived.
InArrivalOrder(parts) == FlattenSeq([i \in DOMAIN parts |-> parts[i][2]])

\* The parts, sorted by their numbers, in one list.
InOrder(parts) ==
    LET all == ToSet(parts)
        Place(part) == Cardinality({q \in all : q[1] <= part[1]})
    IN  FlattenSeq([k \in DOMAIN parts |->
                        (CHOOSE part \in all : Place(part) = k)[2]])

(* Every image has an address, and there are as many as the first part     *)
(* said, if it said.                                                       *)
Complete(list, total) ==
    /\ 0 \notin ToSet(list)
    /\ total > 0 => Len(list) = total

\* wg.Wait is over.
PartsJoined(l) ==
    LET c == lister[l]
        list == InOrder(c.parts)
    IN  /\ c.at = "collecting"
        /\ c.waiting = {} /\ c.reading = {}
        /\ lister' = [lister EXCEPT ![l] =
              IF c.failed \/ ~Complete(list, c.total)
              THEN [@ EXCEPT !.at = "failed"]
              ELSE [@ EXCEPT !.at = "keeping", !.list = list]]
        /\ UNCHANGED <<chapters, kept>>

\* The list is kept, also when another request has kept a newer one.
Keep(l) ==
    /\ lister[l].at = "keeping"
    /\ kept' = lister[l].list
    /\ Goes(l, "ok")
    /\ UNCHANGED chapters

\* The upstream call for the list fails.
ListFails(l) ==
    /\ lister[l].at = "asking"
    /\ Goes(l, "failed")
    /\ UNCHANGED <<chapters, kept>>

\* The client has its answer.
ListAnswered(l) ==
    /\ lister[l].at \in {"ok", "failed", "missing"}
    /\ lister' = [lister EXCEPT ![l] = NoLister]
    /\ UNCHANGED <<chapters, kept>>

Listing(l) ==
    /\ \/ Resolved(l) \/ AskDetail(l) \/ KeepDetail(l)
       \/ LookUp(l) \/ JmList(l) \/ FirstPart(l)
       \/ \E p \in lister[l].waiting : ReadPart(l, p) \/ PartGivenUp(l, p)
       \/ \E part \in lister[l].reading :
             PartArrives(l, part) \/ PartFails(l, part)
       \/ PartsJoined(l) \/ Keep(l) \/ ListFails(l) \/ ListAnswered(l)
    /\ UNCHANGED upstreamVars

ListNext ==
    \/ \E l \in Listers :
          Listing(l) \/ (AskList(l) /\ UNCHANGED upstreamVars)
    \/ Publish \/ Grow \/ Readdress \/ KeptExpires

ListSpec == ListInit /\ [][ListNext]_listVars

(***************************************************************************)
(* Properties.                                                             *)
(***************************************************************************)
ListTypeOK ==
    /\ service \in {"pica", "jm"}
    /\ images \in 0..MaxImages
    /\ unready \subseteq 1..images /\ published \in BOOLEAN
    /\ chapters \in {"unknown", "with", "without"}
    /\ kept = NoList \/ kept \in Seq(1..MaxImages)
    /\ \A l \in Listers :
          /\ lister[l].at \in
                {"idle", "resolving", "with", "without", "looking", "asking",
                 "collecting", "keeping", "ok", "failed", "missing"}
          /\ lister[l].waiting \subseteq 2..MaxImages
          /\ Cardinality(lister[l].reading) <= PartSlots

(* The list that is served and kept has the images that upstream answered  *)
(* with, no fewer, none twice, none without an address, and in their       *)
(* order: whatever the order in which parts arrived, however short they    *)
(* came, and although the chapter grew and addresses came and went in      *)
(* between.  It has as many as the first part said, if it said; one with   *)
(* as many as the chapter has is thus the chapter.  JM's list is never     *)
(* empty.  And a chapter is said to be missing only if it was when it was  *)
(* asked for, also when an older list of the comic is kept.                *)
ListTruthful ==
    \A l \in Listers :
        LET c == lister[l]
        IN  /\ c.at \in {"keeping", "ok"} =>
                  /\ Rising(c.list)
                  /\ ToSet(c.list) = c.shown /\ c.shown \subseteq 1..images
                  /\ c.total > 0 => Len(c.list) = c.total
                  /\ service = "jm" => c.list # <<>>
            /\ c.at = "missing" => ~c.known
=============================================================================
