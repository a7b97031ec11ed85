----------------------------- MODULE DiffReview ------------------------------
(***************************************************************************)
(* openDiff of the VS Code adapter (vscode-adapter.ts): a proposed text is  *)
(* written to a temporary directory and shown beside the original, and the  *)
(* call is answered when the document of that text is closed.  The editor   *)
(* is shown before the listeners are registered, with an await between.     *)
(***************************************************************************)
EXTENDS Naturals

CONSTANTS
    Review,    \* calls of openDiff
    MaxEdits,  \* bound on the versions of the text that the user types
    None

ASSUME ReviewAssumption == MaxEdits \in Nat /\ None \notin Nat

Version == 0..MaxEdits   \* 0 is the proposed text

VARIABLE review

(* The document is what VS Code holds of the temporary file: a closed tab   *)
(* leaves it "closing" until VS Code disposes of it.                        *)
Answers ==
    [status : {"accepted"}, finalText : Version]
        \cup [status : {"rejected"}, finalText : {None}]

ReviewState ==
    [phase  : {"none", "opening", "watched", "settled", "failed"},
     dir    : BOOLEAN,                 \* does the temporary directory exist?
     doc    : {"unseen", "shown", "closing", "gone"},
     text   : Version,
     heard  : Version \cup {None},     \* saved and finalText of the listener
     disk   : Version \cup {None},     \* history: the text of the last save
     early  : BOOLEAN,                 \* history: was nobody listening to it?
     answer : Answers \cup {None}]

Unopened ==
    [phase |-> "none", dir |-> FALSE, doc |-> "unseen", text |-> 0,
     heard |-> None, disk |-> None, early |-> FALSE, answer |-> None]

ReviewInit == review = [r \in Review |-> Unopened]

-----------------------------------------------------------------------------
(* The adapter *)

(* mkdtemp and the write of the proposed text, then the call of vscode.diff *)
OpenDiff(r) ==
    /\ review[r].phase = "none"
    /\ review' = [review EXCEPT ![r].phase = "opening", ![r].dir = TRUE]

(* One of the two throws; the directory may have been made by then. *)
OpenDiffThrows(r) ==
    /\ review[r].phase = "none"
    /\ \E made \in BOOLEAN :
        review' = [review EXCEPT ![r].phase = "failed", ![r].dir = made]

(* vscode.diff resolves, some time after the editor was shown. *)
Watch(r) ==
    /\ review[r].phase = "opening" /\ review[r].doc # "unseen"
    /\ review' = [review EXCEPT ![r].phase = "watched"]

(* vscode.diff rejects: nothing catches it and nothing cleans up. *)
DiffFails(r) ==
    /\ review[r].phase = "opening" /\ review[r].doc = "unseen"
    /\ review' = [review EXCEPT ![r].phase = "failed"]

(* Mutant: a save is only noted, and its text left out of the answer. *)
SettleBare(state) ==
    [state EXCEPT !.phase = "settled", !.dir = FALSE,
        !.answer = [status |-> IF state.heard = None THEN "rejected" ELSE "accepted",
                    finalText |-> None]]

Settle(state) ==
    [state EXCEPT !.phase = "settled", !.dir = FALSE,
        !.answer = [status |-> IF state.heard = None THEN "rejected" ELSE "accepted",
                    finalText |-> state.heard]]

-----------------------------------------------------------------------------
(* VS Code and its user *)

InReview(r) == review[r].phase \in {"opening", "watched"}

EditorShown(r) ==
    /\ review[r].phase = "opening" /\ review[r].doc = "unseen"
    /\ review' = [review EXCEPT ![r].doc = "shown"]

Edit(r) ==
    /\ InReview(r) /\ review[r].doc = "shown" /\ review[r].text < MaxEdits
    /\ review' = [review EXCEPT ![r].text = @ + 1]

(* Mutant: only the first save counts. *)
SaveOnce(r) ==
    /\ InReview(r) /\ review[r].doc = "shown"
    /\ LET watched == review[r].phase = "watched" IN
       review' = [review EXCEPT
            ![r].disk  = review[r].text,
            ![r].early = ~watched,
            ![r].heard = IF watched /\ @ = None THEN review[r].text ELSE @]

(* onDidSaveTextDocument reaches whoever listens by then. *)
Save(r) ==
    /\ InReview(r) /\ review[r].doc = "shown"
    /\ LET watched == review[r].phase = "watched" IN
       review' = [review EXCEPT
            ![r].disk  = review[r].text,
            ![r].early = ~watched,
            ![r].heard = IF watched THEN review[r].text ELSE @]

CloseTab(r) ==
    /\ InReview(r) /\ review[r].doc = "shown"
    /\ review' = [review EXCEPT ![r].doc = "closing"]

(* Mutant: a close without a save is not taken for an answer. *)
DocumentClosedIfSaved(r) ==
    /\ InReview(r) /\ review[r].doc = "closing"
    /\ LET closed == [review[r] EXCEPT !.doc = "gone"] IN
       review' = [review EXCEPT ![r] =
            IF closed.phase = "watched" /\ closed.heard # None
            THEN Settle(closed) ELSE closed]

(* onDidCloseTextDocument: VS Code disposes of the document. *)
DocumentClosed(r) ==
    /\ InReview(r) /\ review[r].doc = "closing"
    /\ LET closed == [review[r] EXCEPT !.doc = "gone"] IN
       review' = [review EXCEPT ![r] =
            IF closed.phase = "watched" THEN Settle(closed) ELSE closed]

(* The same event reports that the language of an open document changed. *)
LanguageChanged(r) ==
    /\ review[r].phase = "watched" /\ review[r].doc = "shown"
    /\ review' = [review EXCEPT ![r] = Settle(@)]

UserActs(r) == EditorShown(r) \/ Edit(r) \/ Save(r) \/ CloseTab(r)

-----------------------------------------------------------------------------
(* Properties *)

ReviewTypeOK == review \in [Review -> ReviewState]

(* What a review answers is what the user did: an accepted text is the one  *)
(* that was saved last, and "rejected" means that nothing was saved, unless *)
(* it was saved before the listeners were there.  Nothing is left on disk.  *)
AnswerIsDecision ==
    \A r \in Review : review[r].answer # None =>
        /\ IF review[r].answer.status = "accepted"
           THEN review[r].answer.finalText = review[r].disk
           ELSE review[r].disk = None \/ review[r].early
        /\ ~review[r].dir

(* Every close of a tab that is being listened to is answered. *)
CloseIsAnswered ==
    \A r \in Review :
        (review[r].phase = "watched" /\ review[r].doc = "closing")
            ~> review[r].answer # None
=============================================================================
