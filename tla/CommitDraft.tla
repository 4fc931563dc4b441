------------------------------ MODULE CommitDraft ------------------------------
(* The Commit Draft of one Worktree: the windows that edit it (apps/ui/src/  *)
(* repository-store.ts), the server that keeps it with a revision number,    *)
(* and the commits that take its text and clear it (packages/                *)
(* repository-engine/src/repository-session.ts).                             *)
(*                                                                           *)
(* A window runs its tasks one at a time and empties its queue of promise    *)
(* continuations before the next one: a continuation that is due, see Due,   *)
(* goes before a key press or an answer.                                     *)
EXTENDS Naturals, Sequences

CONSTANTS
    Windows,      \* windows open on the Worktree
    Texts(_),     \* Texts(w): the texts that the user of window w types
    Empty,        \* the empty text
    NoRevision,   \* a window has not loaded the draft
    MaxActs(_),   \* bound: edits, commits and recoveries of the user of w
    MaxCommits,   \* bound: commits of all users
    MaxFaults     \* bound: calls that are lost on their way there or back

ASSUME TextAssumption == \A w \in Windows : Empty \notin Texts(w)
ASSUME RevisionAssumption == NoRevision \notin Nat
ASSUME BoundAssumption ==
    MaxCommits \in Nat /\ MaxFaults \in Nat /\ \A w \in Windows : MaxActs(w) \in Nat

VARIABLES
    drafts,       \* the drafts of the server by revision: it keeps the last
    commits,      \* the commit commands sent, in order
    texts,        \* commitDrafts[w]: the text window w shows
    revisions,    \* draftRevisions[w]
    touched,      \* draftTouched: windows whose user edited the text
    failures,     \* draftWriteFailures
    loading,      \* draftLoads: windows whose load is under way
    writing,      \* draftWrites[w]: how far its write loop has come
    operation,    \* commitOperations[w]
    submission,   \* commitSubmissions[w]: the commit it has sent last
    calls,        \* calls[w][s]: the draft request of w made for the purpose s
    acts, faults  \* counters of the bounds

serverVars == <<drafts, commits>>
draftVars == <<texts, revisions, touched, failures>>
windowVars == <<draftVars, loading, writing, operation, submission>>
vars == <<serverVars, windowVars, calls, acts, faults>>

AllTexts == (UNION {Texts(w) : w \in Windows}) \cup {Empty}
Purposes == {"load", "write", "reconcile"}

(* A request for the draft, or to set it where it still has the revision the *)
(* window expects: its answer is a draft, or a failure.                      *)
NoCall == [ask |-> "none"]
Get(text) == [ask |-> "get", text |-> text, answer |-> "none"]
Set(revision, text) ==
    [ask |-> "set", text |-> text, expected |-> revision, answer |-> "none"]
WithDraft(call, revision, text) ==
    [ask |-> call.ask, text |-> call.text, answer |-> "draft",
     draft |-> [revision |-> revision, text |-> text]]
WithFailure(call) ==
    [ask |-> call.ask, text |-> call.text, answer |-> "failed"]

Revision == Len(drafts) - 1
Current == drafts[Len(drafts)]

TypeOK ==
    /\ drafts \in Seq(AllTexts) /\ drafts # <<>>
    /\ commits \in Seq([by : Windows, revision : Nat, shown : AllTexts,
                        taken : AllTexts, made : BOOLEAN,
                        phase : {"sent", "executing", "reconciling",
                                 "rejected", "failed_known",
                                 "unknown_outcome", "succeeded"}])
    /\ texts \in [Windows -> AllTexts]
    /\ revisions \in [Windows -> Nat \cup {NoRevision}]
    /\ touched \in SUBSET Windows
    /\ failures \in SUBSET Windows
    /\ loading \in SUBSET Windows
    /\ writing \in [Windows -> {"idle", "load", "first", "current", "second"}]
    /\ operation \in [Windows -> {"none", "waiting", "running", "unknown",
                                  "recovering", "reloading", "reading"}]
    /\ submission \in [Windows -> 0 .. MaxCommits]
    /\ calls = [w \in Windows |-> [purpose \in Purposes |-> calls[w][purpose]]]
    /\ acts \in [Windows -> Nat] /\ \A w \in Windows : acts[w] <= MaxActs(w)
    /\ faults \in 0 .. MaxFaults

Init ==
    /\ drafts = <<Empty>>
    /\ commits = <<>>
    /\ texts = [w \in Windows |-> Empty]
    /\ revisions = [w \in Windows |-> NoRevision]
    /\ touched = {}
    /\ failures = {}
    /\ loading = {}
    /\ writing = [w \in Windows |-> "idle"]
    /\ operation = [w \in Windows |-> "none"]
    /\ submission = [w \in Windows |-> 0]
    /\ calls = [w \in Windows |-> [purpose \in Purposes |-> NoCall]]
    /\ acts = [w \in Windows |-> 0]
    /\ faults = 0

(* The continuations of window w that are due: a write whose load has ended, *)
(* a commit and a reconciliation whose write has ended.                      *)
WriteIsDue(w) == writing[w] = "load" /\ w \notin loading
CommitIsDue(w) == operation[w] = "waiting" /\ writing[w] = "idle"
ReconcileIsDue(w) == operation[w] = "reloading" /\ writing[w] = "idle"
Due(w) == WriteIsDue(w) \/ CommitIsDue(w) \/ ReconcileIsDue(w)

Answered(w, purpose) ==
    /\ ~Due(w)
    /\ calls[w][purpose].ask # "none"
    /\ calls[w][purpose].answer # "none"

(* --------------------------- loading and writing -------------------------- *)

(* loadVisibleDrafts: every state the source publishes loads the drafts the  *)
(* window has no revision of.                                                *)
SourceChanges(w) ==
    /\ ~Due(w)
    /\ revisions[w] = NoRevision
    /\ w \notin loading
    /\ loading' = loading \cup {w}
    /\ calls' = [calls EXCEPT ![w]["load"] = Get(Empty)]
    /\ UNCHANGED <<serverVars, draftVars, writing, operation, submission,
                   acts, faults>>

(* queueDraftWrite: one write loop a window.                                 *)
QueueWrite(w) ==
    writing' = [writing EXCEPT ![w] = IF @ = "idle" THEN "load" ELSE @]

(* The text of the server is shown unless the user has edited it meanwhile;  *)
(* then the text of the user is written.                                     *)
LoadAnswered(w) ==
    LET call == calls[w]["load"] IN
    /\ Answered(w, "load")
    /\ loading' = loading \ {w}
    /\ calls' = [calls EXCEPT ![w]["load"] = NoCall]
    /\ \/ /\ call.answer = "failed"
          /\ failures' = failures \cup {w}
          /\ UNCHANGED <<texts, revisions, writing>>
       \/ /\ call.answer = "draft"
          /\ revisions' = [revisions EXCEPT ![w] = call.draft.revision]
          /\ IF w \in touched
             THEN QueueWrite(w) /\ UNCHANGED texts
             ELSE texts' = [texts EXCEPT ![w] = call.draft.text] /\ UNCHANGED writing
          /\ UNCHANGED failures
    /\ UNCHANGED <<serverVars, touched, operation, submission, acts, faults>>

Edit(w, text) ==
    /\ ~Due(w)
    /\ acts[w] < MaxActs(w)
    /\ acts' = [acts EXCEPT ![w] = @ + 1]
    /\ texts' = [texts EXCEPT ![w] = text]
    /\ touched' = touched \cup {w}
    /\ QueueWrite(w)
    /\ UNCHANGED <<serverVars, revisions, failures, loading, operation,
                   submission, calls, faults>>

SetCommitDraft(w) ==
    \E text \in (Texts(w) \cup {Empty}) \ {texts[w]} : Edit(w, text)
ClearCommitDraft(w) == Edit(w, Empty)

(* The first request of the loop, once no load is under way.                 *)
WriteStarts(w) ==
    /\ WriteIsDue(w)
    /\ IF revisions[w] = NoRevision
       THEN /\ writing' = [writing EXCEPT ![w] = "idle"]
            /\ failures' = failures \cup {w}
            /\ UNCHANGED calls
       ELSE /\ writing' = [writing EXCEPT ![w] = "first"]
            /\ calls' = [calls EXCEPT
                  ![w]["write"] = Set(revisions[w], texts[w])]
            /\ UNCHANGED failures
    /\ UNCHANGED <<serverVars, texts, revisions, touched, loading, operation,
                   submission, acts, faults>>

(* A text the server has taken: the loop ends unless the user has typed on.  *)
WriteAccepted(w) ==
    LET call == calls[w]["write"] IN
    /\ Answered(w, "write")
    /\ writing[w] \in {"first", "second"}
    /\ call.answer = "draft"
    /\ revisions' = [revisions EXCEPT ![w] = call.draft.revision]
    /\ failures' = failures \ {w}
    /\ IF texts[w] = call.draft.text
       THEN /\ writing' = [writing EXCEPT ![w] = "idle"]
            /\ calls' = [calls EXCEPT ![w]["write"] = NoCall]
       ELSE /\ writing' = [writing EXCEPT ![w] = "first"]
            /\ calls' = [calls EXCEPT
                  ![w]["write"] = Set(call.draft.revision, texts[w])]
    /\ UNCHANGED <<serverVars, texts, touched, loading, operation, submission,
                   acts, faults>>

(* A text the server has not taken, or an answer that was lost: the loop     *)
(* asks for the current revision and tries the same text once more.          *)
WriteRefused(w) ==
    LET call == calls[w]["write"] IN
    /\ Answered(w, "write")
    /\ writing[w] = "first"
    /\ call.answer = "failed"
    /\ writing' = [writing EXCEPT ![w] = "current"]
    /\ calls' = [calls EXCEPT ![w]["write"] = Get(call.text)]
    /\ UNCHANGED <<serverVars, draftVars, loading, operation, submission,
                   acts, faults>>

WriteTriedAgain(w) ==
    LET call == calls[w]["write"] IN
    /\ Answered(w, "write")
    /\ writing[w] = "current"
    /\ call.answer = "draft"
    /\ revisions' = [revisions EXCEPT ![w] = call.draft.revision]
    /\ writing' = [writing EXCEPT ![w] = "second"]
    /\ calls' = [calls EXCEPT
          ![w]["write"] = Set(call.draft.revision, call.text)]
    /\ UNCHANGED <<serverVars, texts, touched, failures, loading, operation,
                   submission, acts, faults>>

\* mutant: the failed write leaves the window free to commit
WriteFailedSilently(w) ==
    /\ Answered(w, "write")
    /\ writing[w] \in {"current", "second"}
    /\ calls[w]["write"].answer = "failed"
    /\ writing' = [writing EXCEPT ![w] = "idle"]
    /\ calls' = [calls EXCEPT ![w]["write"] = NoCall]
    /\ UNCHANGED <<serverVars, draftVars, loading, operation, submission, acts,
                   faults>>

\* mutant: the failed write is not taken out of draftWrites
WriteFailedForGood(w) ==
    /\ Answered(w, "write")
    /\ writing[w] \in {"current", "second"}
    /\ calls[w]["write"].answer = "failed"
    /\ failures' = failures \cup {w}
    /\ calls' = [calls EXCEPT ![w]["write"] = NoCall]
    /\ UNCHANGED <<serverVars, texts, revisions, touched, loading, writing,
                   operation, submission, acts, faults>>

(* The second failure ends the loop: no commit until a write succeeds.       *)
WriteFailed(w) ==
    /\ Answered(w, "write")
    /\ writing[w] \in {"current", "second"}
    /\ calls[w]["write"].answer = "failed"
    /\ writing' = [writing EXCEPT ![w] = "idle"]
    /\ failures' = failures \cup {w}
    /\ calls' = [calls EXCEPT ![w]["write"] = NoCall]
    /\ UNCHANGED <<serverVars, texts, revisions, touched, loading, operation,
                   submission, acts, faults>>

(* ------------------------------- the server ------------------------------- *)

(* updateDraft: a compare-and-set on the revision.                           *)
Takes(call) == call.ask = "set" /\ call.expected = Revision

UpdateDraft(w, purpose) ==
    LET call == calls[w][purpose] IN
    /\ call.ask # "none"
    /\ call.answer = "none"
    /\ drafts' = IF Takes(call) THEN Append(drafts, call.text) ELSE drafts
    /\ calls' = [calls EXCEPT ![w][purpose] =
          IF call.ask = "get" \/ Takes(call)
          THEN WithDraft(call, Len(drafts') - 1, drafts'[Len(drafts')])
          ELSE WithFailure(call)]
    /\ UNCHANGED <<commits, windowVars, acts, faults>>

(* A call is lost before the server has it, or its answer is.                *)
CallIsLost(w, purpose) ==
    LET call == calls[w][purpose] IN
    /\ faults < MaxFaults
    /\ call.ask # "none"
    /\ call.answer # "failed"
    /\ faults' = faults + 1
    /\ calls' = [calls EXCEPT ![w][purpose] = WithFailure(call)]
    /\ UNCHANGED <<serverVars, windowVars, acts>>

(* One commit at a time, with the draft as it is now: a commit that finds    *)
(* the lease taken, another revision or an empty text is rejected, and so is *)
(* one that finds the Worktree changed.                                      *)
DraftAsExpected(commit) == commit.revision = Revision /\ Current # Empty

CommitExecutes(i) ==
    /\ commits[i].phase = "sent"
    /\ \/ /\ DraftAsExpected(commits[i])
          /\ \A j \in DOMAIN commits :
               commits[j].phase \notin {"executing", "reconciling"}
          /\ commits' = [commits EXCEPT ![i].phase = "executing",
                                        ![i].taken = Current]
       \/ commits' = [commits EXCEPT ![i].phase = "rejected"]
    /\ UNCHANGED <<drafts, windowVars, calls, acts, faults>>

\* mutant: the draft is cleared whatever it is now
CommitClearsAny(commit) == drafts' = Append(drafts, Empty)

(* Git makes the commit or does not, and what is observed afterwards may not *)
(* tell.  A verified success clears the draft that was committed.            *)
CommitClears(commit) ==
    drafts' = IF commit.revision = Revision THEN Append(drafts, Empty) ELSE drafts

CommitSettles(i) ==
    /\ commits[i].phase \in {"executing", "reconciling"}
    /\ \E made \in BOOLEAN :
         /\ commits[i].phase = "reconciling" => made = commits[i].made
         /\ \/ /\ made
               /\ CommitClears(commits[i])
               /\ commits' = [commits EXCEPT ![i].phase = "succeeded",
                                             ![i].made = TRUE]
            \/ /\ ~made
               /\ commits' = [commits EXCEPT ![i].phase = "failed_known"]
               /\ UNCHANGED drafts
            \/ /\ commits' = [commits EXCEPT ![i].phase = "unknown_outcome",
                                             ![i].made = made]
               /\ UNCHANGED drafts
    /\ UNCHANGED <<windowVars, calls, acts, faults>>

(* --------------------------------- commits -------------------------------- *)

(* The button is enabled while the text is not empty and no commit of the    *)
(* window is running or unknown.                                             *)
Commit(w) ==
    /\ ~Due(w)
    /\ Len(commits) < MaxCommits
    /\ acts[w] < MaxActs(w)
    /\ acts' = [acts EXCEPT ![w] = @ + 1]
    /\ texts[w] # Empty
    /\ operation[w] = "none"
    /\ operation' = [operation EXCEPT ![w] = "waiting"]
    /\ UNCHANGED <<serverVars, draftVars, loading, writing, submission, calls,
                   faults>>

\* mutant: a write that failed does not hold the commit back
MaySubmitLoaded(w) == revisions[w] # NoRevision

(* What a window may submit: a text it has brought to the server.            *)
MaySubmit(w) == w \notin failures /\ revisions[w] # NoRevision

CommitIsSubmitted(w) ==
    /\ CommitIsDue(w)
    /\ IF MaySubmit(w) /\ Len(commits) < MaxCommits
       THEN /\ commits' = Append(commits,
                   [by |-> w, revision |-> revisions[w], shown |-> texts[w],
                    taken |-> Empty, made |-> FALSE, phase |-> "sent"])
            /\ submission' = [submission EXCEPT ![w] = Len(commits) + 1]
            /\ operation' = [operation EXCEPT ![w] = "running"]
       ELSE /\ operation' = [operation EXCEPT ![w] = "none"]
            /\ UNCHANGED <<commits, submission>>
    /\ UNCHANGED <<drafts, draftVars, loading, writing, calls, acts, faults>>

Outcome(w) == commits[submission[w]].phase
HasOutcome(w) ==
    Outcome(w) \in {"rejected", "failed_known", "unknown_outcome", "succeeded"}

(* What a window still shows of the commit it has submitted.                 *)
ShowsSubmission(w) ==
    /\ revisions[w] = commits[submission[w]].revision
    /\ texts[w] = commits[submission[w]].shown

CommitAnswered(w) ==
    /\ ~Due(w)
    /\ operation[w] = "running"
    /\ HasOutcome(w)
    /\ IF Outcome(w) = "succeeded" /\ ShowsSubmission(w)
       THEN /\ texts' = [texts EXCEPT ![w] = Empty]
            /\ revisions' = [revisions EXCEPT ![w] = @ + 1]
       ELSE UNCHANGED <<texts, revisions>>
    /\ IF Outcome(w) = "unknown_outcome"
       THEN /\ operation' = [operation EXCEPT ![w] = "unknown"]
            /\ UNCHANGED submission
       ELSE /\ operation' = [operation EXCEPT ![w] = "none"]
            /\ submission' = [submission EXCEPT ![w] = 0]
    /\ UNCHANGED <<serverVars, touched, failures, loading, writing, calls,
                   acts, faults>>

(* The answer is lost: the commit may go on at the server.                   *)
CommitIsLost(w) ==
    /\ ~Due(w)
    /\ operation[w] \in {"running", "recovering"}
    /\ faults < MaxFaults
    /\ faults' = faults + 1
    /\ operation' = [operation EXCEPT ![w] = "none"]
    /\ UNCHANGED <<serverVars, draftVars, loading, writing, submission, calls,
                   acts>>

(* The user asks what became of a commit: the server looks again.            *)
RecoverCommit(w) ==
    /\ ~Due(w)
    /\ acts[w] < MaxActs(w)
    /\ acts' = [acts EXCEPT ![w] = @ + 1]
    /\ operation[w] = "unknown"
    /\ operation' = [operation EXCEPT ![w] = "recovering"]
    /\ commits' = [commits EXCEPT ![submission[w]].phase = "reconciling"]
    /\ UNCHANGED <<drafts, draftVars, loading, writing, submission, calls,
                   faults>>

CommitRecovered(w) ==
    /\ ~Due(w)
    /\ operation[w] = "recovering"
    /\ HasOutcome(w)
    /\ CASE Outcome(w) = "succeeded" ->
              /\ operation' = [operation EXCEPT ![w] = "reloading"]
              /\ UNCHANGED submission
         [] Outcome(w) = "unknown_outcome" ->
              /\ operation' = [operation EXCEPT ![w] = "unknown"]
              /\ UNCHANGED submission
         [] OTHER ->
              /\ operation' = [operation EXCEPT ![w] = "none"]
              /\ submission' = [submission EXCEPT ![w] = 0]
    /\ UNCHANGED <<serverVars, draftVars, loading, writing, calls, acts, faults>>

(* reconcileRecoveredDraft: when no write is under way the draft is read, and *)
(* shown where the window still shows what was committed; a text the user    *)
(* has typed since is written.                                               *)
ReconcileReads(w) ==
    /\ ReconcileIsDue(w)
    /\ operation' = [operation EXCEPT ![w] = "reading"]
    /\ calls' = [calls EXCEPT ![w]["reconcile"] = Get(Empty)]
    /\ UNCHANGED <<serverVars, draftVars, loading, writing, submission, acts,
                   faults>>

DraftReconciled(w) ==
    LET call == calls[w]["reconcile"] IN
    /\ Answered(w, "reconcile")
    /\ calls' = [calls EXCEPT ![w]["reconcile"] = NoCall]
    /\ operation' = [operation EXCEPT ![w] = "none"]
    /\ submission' = [submission EXCEPT ![w] = 0]
    /\ \/ /\ call.answer = "failed"
          /\ UNCHANGED <<draftVars, writing>>
       \/ /\ call.answer = "draft"
          /\ revisions' = [revisions EXCEPT ![w] = call.draft.revision]
          /\ IF ShowsSubmission(w)
             THEN /\ texts' = [texts EXCEPT ![w] = call.draft.text]
                  /\ UNCHANGED <<touched, writing>>
             ELSE /\ UNCHANGED texts
                  /\ IF call.draft.text = texts[w]
                     THEN UNCHANGED <<touched, writing>>
                     ELSE touched' = touched \cup {w} /\ QueueWrite(w)
          /\ UNCHANGED failures
    /\ UNCHANGED <<serverVars, loading, acts, faults>>

Continues(w) ==
    \/ WriteStarts(w)
    \/ CommitIsSubmitted(w)
    \/ ReconcileReads(w)

WriteAnswered(w) ==
    \/ WriteAccepted(w)
    \/ WriteRefused(w)
    \/ WriteTriedAgain(w)
    \/ WriteFailed(w)

OutcomeArrives(w) ==
    \/ CommitAnswered(w)
    \/ CommitRecovered(w)

UserActs(w) ==
    \/ SetCommitDraft(w)
    \/ ClearCommitDraft(w)
    \/ Commit(w)
    \/ RecoverCommit(w)

(* What goes on without a user: tasks of windows and the server.             *)
Proceeds ==
    \/ \E w \in Windows : Continues(w)
    \/ \E w \in Windows : LoadAnswered(w)
    \/ \E w \in Windows : WriteAnswered(w)
    \/ \E w \in Windows : OutcomeArrives(w)
    \/ \E w \in Windows : DraftReconciled(w)
    \/ \E w \in Windows, purpose \in Purposes : UpdateDraft(w, purpose)
    \/ \E i \in DOMAIN commits : CommitExecutes(i)
    \/ \E i \in DOMAIN commits : CommitSettles(i)

Next ==
    \/ Proceeds
    \/ \E w \in Windows : UserActs(w)
    \/ \E w \in Windows : SourceChanges(w)
    \/ \E w \in Windows, purpose \in Purposes : CallIsLost(w, purpose)
    \/ \E w \in Windows : CommitIsLost(w)

Spec == Init /\ [][Next]_vars

(* Windows run their tasks, calls are answered or fail, and a commit ends:   *)
(* Git runs under a deadline.  Users need not act, and do so only so often   *)
(* that the event loop of a window gets to the answers.                      *)
FairSpec == Spec /\ WF_vars(Proceeds)

(* ------------------------------- properties ------------------------------- *)

(* A window at rest: it has a revision, no write or load is under way and    *)
(* the last write has not failed.                                            *)
AtRest(w) ==
    /\ revisions[w] # NoRevision
    /\ w \notin loading
    /\ writing[w] = "idle"
    /\ w \notin failures

(* The revision a window at rest holds names the text it shows, whatever     *)
(* other windows have written since: a commit that names the revision takes  *)
(* no text the user has not seen.  After a commit of its own a window counts *)
(* a revision up without asking, and may show no text under a number another *)
(* window has written; the button is disabled then.                          *)
RevisionNamesShownText ==
    \A w \in Windows :
        AtRest(w) /\ texts[w] # Empty =>
            /\ revisions[w] < Len(drafts)
            /\ drafts[revisions[w] + 1] = texts[w]

(* Git commits the text that the window showed when it sent the command, and *)
(* not one that another window, or a later key press, has put in its place.  *)
CommitTakesShownText ==
    \A i \in DOMAIN commits :
        commits[i].made => commits[i].taken = commits[i].shown

(* Only what was committed is taken from a user: a text the user of a window *)
(* has edited changes under the user's hands, and a draft of the server is   *)
(* emptied other than by a write, only if a commit has it.                   *)
IsCommitted(text) == \E i \in DOMAIN commits' : commits'[i].made /\ commits'[i].taken = text

OnlyCommittedTextIsTaken ==
    [][/\ \A w \in touched :
            texts'[w] # texts[w] /\ acts' = acts => IsCommitted(texts[w])
       /\ Len(drafts') > Len(drafts) /\ calls' = calls =>
            Current = Empty \/ IsCommitted(Current)]_vars

(* No window is stuck: loads and write loops end, and so does every commit   *)
(* that is not unknown, so that the user can type, save and commit again.    *)
WindowsComeToRest ==
    \A w \in Windows :
        []<>(/\ w \notin loading
             /\ writing[w] = "idle"
             /\ operation[w] \in {"none", "unknown"})

===============================================================================
