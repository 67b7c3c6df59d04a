----------------------------- MODULE ToggleCall -----------------------------
(***************************************************************************)
(* Adding a comic to the favourites upstream, and taking it out.  Upstream *)
(* has one call for both: it turns the favourite on or off, and says which *)
(* it did.  The call is repeated when it fails, also when only its answer  *)
(* was lost; then it is done twice.                                        *)
(***************************************************************************)
EXTENDS Integers, FiniteSets

CONSTANTS Handlers,     \* addFavorite and delFavorite requests for one comic
          Tries         \* attempts of one call: 3 of apiCall, one for each
                        \* domain of JM.do

ASSUME ToggleAssumption == Tries \in Nat \ {0}

VARIABLES
    source,     \* which upstream it is
    favourite,  \* upstream: the comic is a favourite
    handler     \* the handlers, each with the toggle it is at

toggleVars == <<source, favourite, handler>>

(* What an attempt may come to.  lost: no response, or the context of the  *)
(* request is over; unread: the body cannot be read, or is too long;       *)
(* limited: 429; busy: 5xx; refused: another status; garbled: no envelope, *)
(* or one without data; rejected: an envelope with another code; answered: *)
(* data that tells what was done, or data that does not.                   *)
Outcomes == {"answered", "lost", "unread", "unauthorized", "limited", "busy",
             "refused", "garbled", "rejected"}

\* Upstream may have done it although there is no answer that says so.
MayBeDone(outcome) == outcome \in {"lost", "unread", "busy", "garbled"}

\* apiCall: these are tried again, unless upstream asks for too long a pause.
PicaRetries == {"lost", "limited", "busy"}

\* JM.do: with these the next domain is asked.
JmRetries == {"lost", "unread", "busy", "refused", "garbled"}

Retries == IF source = "pica" THEN PicaRetries ELSE JmRetries

NoToggle == [at |-> "idle", want |-> TRUE, round |-> 1, try |-> 1,
             blind |-> FALSE]

ToggleInit ==
    /\ source \in {"pica", "jm"}
    /\ favourite \in BOOLEAN
    /\ handler = [h \in Handlers |-> NoToggle]

Request(h, want) ==
    /\ handler[h].at = "idle"
    /\ handler' = [handler EXCEPT ![h].at = "calling", ![h].want = want]
    /\ UNCHANGED <<source, favourite>>

\* An attempt without an answer; done says whether upstream has done it.
Unanswered(h, outcome, done) ==
    /\ handler[h].at = "calling"
    /\ done => MayBeDone(outcome)
    /\ favourite' = (favourite # done)
    /\ UNCHANGED source

\* picaRetryWait, or the next domain.
TryAgain(h, outcome, done) ==
    /\ outcome \in Retries
    /\ handler[h].try < Tries
    /\ Unanswered(h, outcome, done)
    /\ handler' = [handler EXCEPT ![h].try = @ + 1]

(* The error goes to the client: it is not one to try again, or was the    *)
(* last attempt, or the pause would be too long, or the three minutes of   *)
(* the request end while it waits.                                         *)
CallFails(h, outcome, done) ==
    /\ outcome # "answered"
    /\ Unanswered(h, outcome, done)
    /\ handler' = [handler EXCEPT ![h].at = "failed"]

\* Wrong variant of PicaNext: the first toggle is taken for the right one.
PicaNextOnce(g, now) == [g EXCEPT !.at = "ok"]

\* Pica: AddFavorite and DelFavorite toggle once more, if the first one did
\* the opposite, and do not look at what the second one did.
PicaNext(g, now) ==
    IF now = g.want THEN [g EXCEPT !.at = "ok"]
    ELSE IF g.round = 1 THEN [g EXCEPT !.round = 2, !.try = 1]
    ELSE [g EXCEPT !.at = "ok", !.blind = TRUE]

\* JM: toggleFavorite toggles at most twice, until type is what is wanted.
JmNext(g, now) ==
    IF now = g.want THEN [g EXCEPT !.at = "ok"]
    ELSE IF g.round = 1 THEN [g EXCEPT !.round = 2, !.try = 1]
    ELSE [g EXCEPT !.at = "failed"]

\* Upstream has done it, and its answer says what the favourite is now.
Answered(h) ==
    /\ handler[h].at = "calling"
    /\ favourite' = ~favourite
    /\ handler' = [handler EXCEPT ![h] =
                      IF source = "pica" THEN PicaNext(@, ~favourite)
                                         ELSE JmNext(@, ~favourite)]
    /\ UNCHANGED source

(* Pica: an answer without an action that can be read is an answer: the    *)
(* error of decoding it is dropped, and no action is not the opposite.     *)
PicaUnclear(g) == {[g EXCEPT !.at = "ok", !.blind = TRUE]}

(* JM: an answer that cannot be decoded is an error, and so is a status    *)
(* other than ok; without a type it is as if the opposite had been done.   *)
JmUnclear(g) == {[g EXCEPT !.at = "failed"], JmNext(g, ~g.want)}

\* Upstream answers with data that does not say what the favourite is now.
AnsweredUnclear(h, done) ==
    /\ handler[h].at = "calling"
    /\ favourite' = (favourite # done)
    /\ \E g \in IF source = "pica" THEN PicaUnclear(handler[h])
                                    ELSE JmUnclear(handler[h]) :
          handler' = [handler EXCEPT ![h] = g]
    /\ UNCHANGED source

Toggling(h) ==
    \/ Answered(h)
    \/ \E done \in BOOLEAN : AnsweredUnclear(h, done)
    \/ \E o \in Outcomes, done \in BOOLEAN :
          TryAgain(h, o, done) \/ CallFails(h, o, done)

\* The clients have their answers, and may ask for something else.
Rest ==
    /\ \E h \in Handlers : handler[h].at # "idle"
    /\ \A h \in Handlers : handler[h].at # "calling"
    /\ handler' = [h \in Handlers |-> NoToggle]
    /\ UNCHANGED <<source, favourite>>

ToggleNext ==
    \/ \E h \in Handlers :
          Toggling(h) \/ \E want \in BOOLEAN : Request(h, want)
    \/ Rest

ToggleSpec == ToggleInit /\ [][ToggleNext]_toggleVars

(***************************************************************************)
(* Properties.                                                             *)
(***************************************************************************)
ToggleTypeOK ==
    /\ source \in {"pica", "jm"}
    /\ favourite \in BOOLEAN
    /\ handler \in [Handlers -> [at : {"idle", "calling", "ok", "failed"},
                                 want : BOOLEAN, round : {1, 2},
                                 try : 1..Tries, blind : BOOLEAN]]

Done(h) == handler[h].at = "ok"

(* When requests that want the same have all been answered with ok, the    *)
(* favourite is what they want, also when they overlapped and although     *)
(* attempts were repeated which upstream had already done.  For JM this    *)
(* holds whenever upstream's answers, as far as they tell what was done,   *)
(* tell it truly.  Pica also says ok when an answer did not tell what was  *)
(* done, and when the second toggle came to the opposite again, at whose   *)
(* answer nobody looks; so for Pica it holds only if no such answer was    *)
(* among them.                                                             *)
ToggleHonest ==
    \A want \in BOOLEAN :
        /\ \E h \in Handlers : Done(h)
        /\ \A h \in Handlers :
              handler[h].at # "idle" =>
                  Done(h) /\ handler[h].want = want /\ ~handler[h].blind
        => favourite = want
=============================================================================
