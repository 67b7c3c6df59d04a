----------------------------- MODULE Descramble -----------------------------
(***************************************************************************)
(* The pages of JM come cut into horizontal strips in reversed order.  How *)
(* many strips there are depends on the chapter, on a threshold that is    *)
(* asked from upstream once for each chapter, and on the page; the strips  *)
(* are put back before the page is shown or saved.                         *)
(***************************************************************************)
EXTENDS Integers, Sequences

CONSTANTS Aids,         \* chapters, by their numbers
          Thresholds,   \* what upstream may answer
          Heights,      \* of the pages
          Askers        \* requests and downloads of one chapter

ASSUME DescrambleAssumption ==
    /\ Aids \subseteq Nat
    /\ Thresholds \subseteq Nat \ {0}
    /\ Heights \subseteq Nat \ {0}

VARIABLES
    chapter,    \* the chapter, with its threshold upstream
    cached,     \* scrambleCache: the threshold of the chapter, 0 if none
    asker,      \* where each request is, and the threshold it goes by
    shown       \* a page on its way to the reader, or to the disk

scrambleVars == <<chapter, cached, asker, shown>>

DefaultThreshold == 220980
Ten == 268850       \* below: ten strips
Wide == 421926      \* below: up to twenty strips, from here on up to sixteen

NoChapter == [aid |-> 0, threshold |-> 0]
NoPage == [height |-> 0, cuts |-> 0, believed |-> 0, rows |-> <<>>]
NoAsker == [at |-> "idle", believed |-> 0]

ScrambleInit ==
    /\ chapter = NoChapter
    /\ cached = 0
    /\ asker = [a \in Askers |-> NoAsker]
    /\ shown = NoPage

(***************************************************************************)
(* The strips.                                                             *)
(***************************************************************************)
\* The last digit of an MD5 sum in hexadecimal, as a character.
HexDigits == 48..57 \cup 97..102

\* jmSegNum for a page that is no GIF: 0 if the page is whole.
SegNum(threshold, aid, digit) ==
    IF aid < threshold THEN 0
    ELSE IF aid < Ten THEN 10
    ELSE (digit % (IF aid < Wide THEN 10 ELSE 8)) * 2 + 2

(* External: the first of n strips is taller by what does not divide, the  *)
(* strips are reversed.  A page is the sequence of its rows from 1; row r   *)
(* of the cut page is in the first strip, or k strips precede its own.     *)
Cut(height, n) ==
    LET step == height \div n
        over == height % n
    IN  [r \in 1..height |->
            IF r > (n - 1) * step
            THEN r - (n - 1) * step
            ELSE LET k == (r - 1) \div step
                 IN  over + (n - 1 - k) * step + (r - k * step)]

Scrambled(height, n) ==
    IF n = 0 THEN [r \in 1..height |-> r] ELSE Cut(height, n)

\* A copy of rows within an image: a strip that would not fit is left out.
Copy(height, move, ySrc, yDst) ==
    IF move <= 0 \/ ySrc < 0 \/ yDst < 0
       \/ ySrc + move > height \/ yDst + move > height
    THEN [rows |-> {}, shift |-> 0]
    ELSE [rows |-> (yDst + 1)..(yDst + move), shift |-> ySrc - yDst]

\* Wrong variant of Strip: the remainder is not added below the first strip.
StripEven(height, n, i) ==
    LET step == height \div n
        over == height % n
    IN  Copy(height, IF i = 0 THEN step + over ELSE step,
             height - step * (i + 1) - over, step * i)

\* jmDescramble: the turn of its loop that puts strip i back.
Strip(height, n, i) ==
    LET step == height \div n
        over == height % n
    IN  Copy(height, IF i = 0 THEN step + over ELSE step,
             height - step * (i + 1) - over,
             IF i = 0 THEN 0 ELSE step * i + over)

\* The rows after all turns; a row that no turn has written is blank, 0.
Descrambled(rows, n) ==
    LET height == Len(rows)
        turns == {Strip(height, n, i) : i \in 0..(n - 1)}
    IN  IF n = 0 THEN rows
        ELSE [r \in 1..height |->
                 IF \E t \in turns : r \in t.rows
                 THEN rows[r + (CHOOSE t \in turns : r \in t.rows).shift]
                 ELSE 0]

(***************************************************************************)
(* Asking the threshold, and the pages.                                    *)
(***************************************************************************)
\* A chapter is opened, or downloaded.
Open(aid, threshold) ==
    /\ chapter = NoChapter
    /\ chapter' = [aid |-> aid, threshold |-> threshold]
    /\ UNCHANGED <<cached, asker, shown>>

\* scrambleID: the threshold is cached, or upstream is asked.
AskThreshold(a) ==
    /\ chapter # NoChapter
    /\ asker[a].at = "idle"
    /\ asker' = [asker EXCEPT ![a] =
          IF cached # 0 THEN [at |-> "knows", believed |-> cached]
                        ELSE [at |-> "asking", believed |-> 0]]
    /\ UNCHANGED <<chapter, cached, shown>>

(* The answer, or the default if there is none that can be read.  Either   *)
(* is cached, and replaces what another request has cached meanwhile.      *)
Learn(a) ==
    /\ asker[a].at = "asking"
    /\ \E t \in {chapter.threshold, DefaultThreshold} :
          /\ cached' = t
          /\ asker' = [asker EXCEPT ![a] = [at |-> "knows", believed |-> t]]
    /\ UNCHANGED <<chapter, shown>>

(* jmEncodePage, jmSaveImage: the page is restored, and encoded without    *)
(* loss.  A GIF is taken as it is, which is how upstream has it.           *)
Show(a, height, digit, gif) ==
    LET Cuts(t) == IF gif THEN 0 ELSE SegNum(t, chapter.aid, digit)
        n == Cuts(asker[a].believed)
    IN  /\ asker[a].at = "knows"
        /\ shown = NoPage
        /\ shown' = [height |-> height, cuts |-> n,
                     believed |-> asker[a].believed,
                     rows |-> Descrambled(
                         Scrambled(height, Cuts(chapter.threshold)), n)]
        /\ asker' = [asker EXCEPT ![a] = NoAsker]
        /\ UNCHANGED <<chapter, cached>>

\* The page cannot be fetched or decoded, or has no legal size.
Spoilt(a) ==
    /\ asker[a].at = "knows"
    /\ asker' = [asker EXCEPT ![a] = NoAsker]
    /\ UNCHANGED <<chapter, cached, shown>>

\* The page has been sent or written.
Sent ==
    /\ shown # NoPage
    /\ shown' = NoPage
    /\ UNCHANGED <<chapter, cached, asker>>

ScrambleNext ==
    \/ Sent
    \/ \E aid \in Aids, t \in Thresholds : Open(aid, t)
    \/ \E a \in Askers :
          \/ AskThreshold(a) \/ Learn(a) \/ Spoilt(a)
          \/ \E height \in Heights, digit \in HexDigits, gif \in BOOLEAN :
                Show(a, height, digit, gif)

ScrambleSpec == ScrambleInit /\ [][ScrambleNext]_scrambleVars

(***************************************************************************)
(* Properties.                                                             *)
(***************************************************************************)
ScrambleTypeOK ==
    /\ chapter \in {NoChapter} \cup [aid : Aids, threshold : Thresholds]
    /\ cached \in {0, DefaultThreshold} \cup Thresholds
    /\ asker \in [Askers -> [at : {"idle", "asking", "knows"},
                             believed : {0, DefaultThreshold} \cup Thresholds]]
    /\ Len(shown.rows) = shown.height

(* A page that was restored by the right threshold has every row of the    *)
(* original once and in its place, also if the strips do not divide the    *)
(* height, or there are more strips than rows.  (By a wrong threshold,     *)
(* which the default may be, nothing is promised.)                         *)
RowsRestored ==
    shown # NoPage /\ shown.believed = chapter.threshold =>
        shown.rows = [r \in 1..shown.height |-> r]
=============================================================================
