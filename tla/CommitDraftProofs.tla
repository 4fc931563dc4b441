--------------------------- MODULE CommitDraftProofs ---------------------------
(* Safety of CommitDraft for every set of windows and of texts and any       *)
(* number of edits, commits and lost calls: a commit takes the text its      *)
(* window showed, and only committed text is taken from a user.              *)
EXTENDS CommitDraft, TLAPS

-----------------------------------------------------------------------------
(* The inductive invariant.                                                  *)

(* The server has had this text under this revision.                         *)
Names(history, revision, text) ==
    /\ revision \in 0 .. Len(history) - 1
    /\ history[revision + 1] = text

CallIsSound(history, call) ==
    call.ask # "none" =>
        /\ call.text \in AllTexts
        /\ call.answer = "draft" => Names(history, call.draft.revision, call.draft.text)

(* An answer is a draft the server has had.                                  *)
AnswersAreDrafts ==
    \A w \in Windows, purpose \in Purposes : CallIsSound(drafts, calls[w][purpose])

(* A window that writes, or that has submitted a commit, has a revision, and *)
(* one that loads has none; only a reconciliation reads the draft for it.    *)
SubmittedSteps == {"running", "unknown", "recovering", "reloading", "reading"}
KnowsRevision(w) ==
    /\ w \in loading => revisions[w] = NoRevision
    /\ writing[w] \in {"first", "current", "second"} => revisions[w] # NoRevision
    /\ operation[w] \in SubmittedSteps => revisions[w] # NoRevision
    /\ calls[w]["reconcile"].ask # "none" => operation[w] = "reading"

(* At rest the revision names the text: also the empty one, while a commit   *)
(* waits that was clicked before the text was emptied.                       *)
RestIsNamed(w) ==
    AtRest(w) /\ (texts[w] # Empty \/ operation[w] = "waiting") =>
        Names(drafts, revisions[w], texts[w])

(* What a window knows of the commit it has submitted.                       *)
SubmissionIsKnown(w) ==
    /\ operation[w] \in SubmittedSteps => submission[w] \in DOMAIN commits
    /\ operation[w] = "unknown" =>
         commits[submission[w]].phase \notin {"sent", "rejected"}
    /\ operation[w] \in {"reloading", "reading"} => commits[submission[w]].made

WindowInv(w) == KnowsRevision(w) /\ RestIsNamed(w) /\ SubmissionIsKnown(w)

(* A commit names a draft, and is executed only with this draft.             *)
CommitIsSound(history, commit) ==
    /\ Names(history, commit.revision, commit.shown)
    /\ commit.phase \notin {"sent", "rejected"} => commit.taken = commit.shown
    /\ commit.phase \in {"sent", "rejected", "executing"} => ~commit.made
    /\ commit.phase = "succeeded" => commit.made

CommitsAreNamed == \A i \in DOMAIN commits : CommitIsSound(drafts, commits[i])

DraftInv ==
    /\ TypeOK
    /\ AnswersAreDrafts
    /\ CommitsAreNamed
    /\ \A w \in Windows : WindowInv(w)

-----------------------------------------------------------------------------
(* The types, grouped.                                                       *)

Phases == {"sent", "executing", "reconciling", "rejected", "failed_known",
           "unknown_outcome", "succeeded"}
CommitRecord == [by : Windows, revision : Nat, shown : AllTexts, taken : AllTexts,
                 made : BOOLEAN, phase : Phases]
ServerTypes ==
    drafts \in Seq(AllTexts) /\ drafts # <<>> /\ commits \in Seq(CommitRecord)
WindowTypes ==
    /\ texts \in [Windows -> AllTexts]
    /\ revisions \in [Windows -> Nat \cup {NoRevision}]
    /\ touched \in SUBSET Windows /\ failures \in SUBSET Windows
    /\ loading \in SUBSET Windows
    /\ writing \in [Windows -> {"idle", "load", "first", "current", "second"}]
    /\ operation \in [Windows -> {"none", "waiting", "running", "unknown",
                                  "recovering", "reloading", "reading"}]
    /\ submission \in [Windows -> 0 .. MaxCommits]
CallTypes == calls = [w \in Windows |-> [purpose \in Purposes |-> calls[w][purpose]]]
CounterTypes ==
    /\ acts \in [Windows -> Nat] /\ \A w \in Windows : acts[w] <= MaxActs(w)
    /\ faults \in 0 .. MaxFaults

LEMMA TypesGrouped ==
    TypeOK <=> ServerTypes /\ WindowTypes /\ CallTypes /\ CounterTypes
  BY DEF TypeOK, ServerTypes, CommitRecord, Phases, WindowTypes, CallTypes, CounterTypes

LEMMA TypesGroupedNext ==
    TypeOK' <=> ServerTypes' /\ WindowTypes' /\ CallTypes' /\ CounterTypes'
  BY TypesGrouped, PTL

LEMMA TextFacts ==
    Empty \in AllTexts /\ \A w \in Windows : Texts(w) \subseteq AllTexts
  BY DEF AllTexts

-----------------------------------------------------------------------------
(* Drafts, calls and commits.                                                *)

LEMMA AppendFacts ==
    ASSUME NEW S, NEW d \in Seq(S), NEW t \in S
    PROVE  /\ Append(d, t) \in Seq(S) /\ Append(d, t) # <<>>
           /\ Len(d) \in Nat /\ Len(Append(d, t)) = Len(d) + 1
           /\ Append(d, t)[Len(d) + 1] = t
           /\ \A i \in 1 .. Len(d) : Append(d, t)[i] = d[i]
  OBVIOUS

(* A draft the server has had stays one.                                     *)
LEMMA NamesStay ==
    ASSUME NEW d \in Seq(AllTexts), NEW t \in AllTexts
    PROVE  \A revision, text :
               Names(d, revision, text) => Names(Append(d, t), revision, text)
<1> TAKE revision, text
<1>1. /\ Len(d) \in Nat /\ Len(Append(d, t)) = Len(d) + 1
      /\ \A i \in 1 .. Len(d) : Append(d, t)[i] = d[i]
  BY AppendFacts
<1> DEFINE e == Append(d, t)
<1> HIDE DEF e
<1>2. Len(e) = Len(d) + 1 /\ \A i \in 1 .. Len(d) : e[i] = d[i]
  BY <1>1 DEF e
<1>3. Names(d, revision, text) => Names(e, revision, text)
  BY <1>1, <1>2 DEF Names
<1>4. QED
  BY <1>3 DEF e

LEMMA LastIsNamed ==
    ASSUME NEW d \in Seq(AllTexts), d # <<>>
    PROVE  Names(d, Len(d) - 1, d[Len(d)]) /\ d[Len(d)] \in AllTexts
  BY DEF Names

LEMMA NamedIsText ==
    ASSUME NEW d \in Seq(AllTexts), NEW revision, NEW text, Names(d, revision, text)
    PROVE  revision \in Nat /\ revision # NoRevision /\ text \in AllTexts
  BY RevisionAssumption DEF Names

LEMMA CallFacts ==
    /\ NoCall.ask = "none"
    /\ \A t : Get(t).ask = "get" /\ Get(t).text = t /\ Get(t).answer = "none"
    /\ \A n, t : /\ Set(n, t).ask = "set" /\ Set(n, t).text = t
                 /\ Set(n, t).answer = "none"
    /\ \A c : /\ WithFailure(c).ask = c.ask /\ WithFailure(c).text = c.text
              /\ WithFailure(c).answer = "failed"
    /\ \A c, n, t :
         /\ WithDraft(c, n, t).ask = c.ask /\ WithDraft(c, n, t).text = c.text
         /\ WithDraft(c, n, t).answer = "draft"
         /\ WithDraft(c, n, t).draft.revision = n /\ WithDraft(c, n, t).draft.text = t
  BY DEF NoCall, Get, Set, WithFailure, WithDraft

LEMMA NewCallsAreSound ==
    /\ CallIsSound(drafts, NoCall)
    /\ \A t \in AllTexts : CallIsSound(drafts, Get(t))
    /\ \A n : \A t \in AllTexts : CallIsSound(drafts, Set(n, t))
  BY CallFacts DEF CallIsSound

(* One call changes.                                                         *)
Puts(w, purpose, call) == calls' = [calls EXCEPT ![w][purpose] = call]

LEMMA CallPut ==
    ASSUME CallTypes, NEW w \in Windows, NEW purpose \in Purposes, NEW c,
           Puts(w, purpose, c)
    PROVE  /\ CallTypes' /\ calls'[w][purpose] = c
           /\ \A v \in Windows, p \in Purposes :
                 v # w \/ p # purpose => calls'[v][p] = calls[v][p]
<1> DEFINE F == [v \in Windows |-> [p \in Purposes |->
                   IF v = w /\ p = purpose THEN c ELSE calls[v][p]]]
<1>1. calls' = F
  BY DEF CallTypes, Puts
<1>2. \A v \in Windows, p \in Purposes :
         F[v][p] = IF v = w /\ p = purpose THEN c ELSE calls[v][p]
  OBVIOUS
<1>3. F = [v \in Windows |-> [p \in Purposes |-> F[v][p]]]
  OBVIOUS
<1> HIDE DEF F
<1>4. CallTypes'
  BY <1>1, <1>3, Zenon DEF CallTypes
<1>5. QED
  BY <1>1, <1>2, <1>4

LEMMA SoundCallPut ==
    ASSUME CallTypes, AnswersAreDrafts, NEW w \in Windows, NEW purpose \in Purposes,
           NEW c, CallIsSound(drafts, c), drafts' = drafts, Puts(w, purpose, c)
    PROVE  AnswersAreDrafts'
<1>1. \A v \in Windows, p \in Purposes : calls'[v][p] = c \/ calls'[v][p] = calls[v][p]
  BY CallPut
<1>2. QED
  BY <1>1 DEF AnswersAreDrafts

-----------------------------------------------------------------------------
(* What a step does to the windows it is not about.                          *)

CommitsGoOn ==
    \A i \in DOMAIN commits :
        /\ i \in DOMAIN commits'
        /\ commits[i].phase \notin {"sent", "rejected"} =>
             commits'[i].phase \notin {"sent", "rejected"}
        /\ commits[i].made => commits'[i].made

DraftsGoOn ==
    \A revision, text : Names(drafts, revision, text) => Names(drafts', revision, text)

SameWindow(w) ==
    /\ texts'[w] = texts[w] /\ revisions'[w] = revisions[w]
    /\ (w \in failures') = (w \in failures) /\ (w \in loading') = (w \in loading)
    /\ writing'[w] = writing[w] /\ operation'[w] = operation[w]
    /\ submission'[w] = submission[w]
    /\ calls'[w]["reconcile"].ask = calls[w]["reconcile"].ask

LEMMA SameWindowKeeps ==
    ASSUME NEW w \in Windows, WindowInv(w), SameWindow(w), CommitsGoOn, DraftsGoOn
    PROVE  WindowInv(w)'
<1>1. KnowsRevision(w)'
  BY DEF WindowInv, KnowsRevision, SameWindow
<1>2. RestIsNamed(w)'
  BY DEF WindowInv, RestIsNamed, AtRest, SameWindow, DraftsGoOn
<1>3. SubmissionIsKnown(w)'
  BY DEF WindowInv, SubmissionIsKnown, SubmittedSteps, SameWindow, CommitsGoOn
<1>4. QED
  BY <1>1, <1>2, <1>3 DEF WindowInv

LEMMA ServerStays ==
    ASSUME DraftInv, UNCHANGED serverVars
    PROVE  ServerTypes' /\ CommitsAreNamed' /\ CommitsGoOn /\ DraftsGoOn
<1>1. drafts' = drafts /\ commits' = commits /\ ServerTypes /\ CommitsAreNamed
  BY TypesGrouped DEF DraftInv, serverVars
<1>2. ServerTypes' /\ CommitsAreNamed'
  BY <1>1 DEF ServerTypes, CommitsAreNamed
<1>3. CommitsGoOn /\ DraftsGoOn
  BY <1>1 DEF CommitsGoOn, DraftsGoOn
<1>4. QED
  BY <1>2, <1>3

(* A step of one window, with the server as it was.                          *)
LEMMA WindowStep ==
    ASSUME DraftInv, NEW w \in Windows, UNCHANGED serverVars,
           WindowTypes', CallTypes', CounterTypes', AnswersAreDrafts',
           \A v \in Windows \ {w} : SameWindow(v), WindowInv(w)'
    PROVE  DraftInv'
<1>1. ServerTypes' /\ CommitsAreNamed' /\ CommitsGoOn /\ DraftsGoOn
  BY ServerStays
<1>2. ASSUME NEW v \in Windows PROVE WindowInv(v)'
  <2>1. CASE v = w
    BY <2>1
  <2>2. CASE v # w
    BY <1>1, <2>2, SameWindowKeeps DEF DraftInv
  <2>3. QED
    BY <2>1, <2>2
<1>3. TypeOK'
  BY <1>1, TypesGroupedNext
<1>4. QED
  BY <1>1, <1>2, <1>3 DEF DraftInv

-----------------------------------------------------------------------------
(* The steps of a window.                                                    *)

LEMMA DraftInvFacts ==
    ASSUME DraftInv
    PROVE  /\ ServerTypes /\ WindowTypes /\ CallTypes /\ CounterTypes
           /\ AnswersAreDrafts /\ CommitsAreNamed
           /\ \A w \in Windows : WindowInv(w)
  BY TypesGrouped DEF DraftInv

LEMMA SourceChangesStep ==
    ASSUME DraftInv, NEW w \in Windows, SourceChanges(w)
    PROVE  DraftInv'
<1>1. /\ ServerTypes /\ WindowTypes /\ CallTypes /\ CounterTypes
      /\ AnswersAreDrafts /\ WindowInv(w)
  BY DraftInvFacts
<1>2. CallIsSound(drafts, Get(Empty)) /\ "load" \in Purposes /\ "reconcile" \in Purposes
  BY NewCallsAreSound, TextFacts DEF Purposes
<1>3. /\ UNCHANGED serverVars /\ drafts' = drafts
      /\ texts' = texts /\ revisions' = revisions /\ touched' = touched
      /\ failures' = failures /\ writing' = writing /\ operation' = operation
      /\ submission' = submission /\ acts' = acts /\ faults' = faults /\ commits' = commits
      /\ loading' = loading \cup {w} /\ revisions[w] = NoRevision
      /\ Puts(w, "load", Get(Empty))
  BY DEF SourceChanges, serverVars, draftVars, Puts
<1>4. /\ CallTypes'
      /\ \A v \in Windows : calls'[v]["reconcile"] = calls[v]["reconcile"]
  BY <1>1, <1>2, <1>3, CallPut
<1>5. AnswersAreDrafts'
  BY <1>1, <1>2, <1>3, SoundCallPut
<1>6. WindowTypes' /\ CounterTypes'
  BY <1>1, <1>3 DEF WindowTypes, CounterTypes
<1>7. \A v \in Windows \ {w} : SameWindow(v)
  BY <1>3, <1>4 DEF SameWindow
<1>8. WindowInv(w)'
  BY <1>1, <1>3, <1>4 DEF WindowInv, KnowsRevision, RestIsNamed, SubmissionIsKnown, AtRest
<1>9. QED
  BY <1>3, <1>4, <1>5, <1>6, <1>7, <1>8, WindowStep

(* The draft that has come is shown, or the text of the user is written.     *)
LEMMA LoadAnsweredStep ==
    ASSUME DraftInv, NEW w \in Windows, LoadAnswered(w)
    PROVE  DraftInv'
<1> DEFINE call == calls[w]["load"]
<1>1. /\ ServerTypes /\ WindowTypes /\ CallTypes /\ CounterTypes
      /\ AnswersAreDrafts /\ WindowInv(w)
  BY DraftInvFacts
<1>2. CallIsSound(drafts, NoCall) /\ "load" \in Purposes /\ "reconcile" \in Purposes
  BY NewCallsAreSound DEF Purposes
<1>3. /\ UNCHANGED serverVars /\ drafts' = drafts /\ commits' = commits
      /\ touched' = touched /\ operation' = operation /\ submission' = submission
      /\ acts' = acts /\ faults' = faults /\ loading' = loading \ {w}
      /\ Puts(w, "load", NoCall)
      /\ call.ask # "none"
  BY DEF LoadAnswered, Answered, serverVars, Puts
<1>4. /\ CallTypes'
      /\ \A v \in Windows : calls'[v]["reconcile"] = calls[v]["reconcile"]
  BY <1>1, <1>2, <1>3, CallPut
<1>5. AnswersAreDrafts'
  BY <1>1, <1>2, <1>3, SoundCallPut
<1>6. \/ /\ failures' = failures \cup {w}
         /\ texts' = texts /\ revisions' = revisions /\ writing' = writing
      \/ /\ call.answer = "draft" /\ failures' = failures
         /\ revisions' = [revisions EXCEPT ![w] = call.draft.revision]
         /\ \/ /\ texts' = texts
               /\ writing' = [writing EXCEPT ![w] = IF @ = "idle" THEN "load" ELSE @]
            \/ /\ texts' = [texts EXCEPT ![w] = call.draft.text]
               /\ writing' = writing
  BY DEF LoadAnswered, QueueWrite
<1>7. CASE /\ failures' = failures \cup {w}
           /\ texts' = texts /\ revisions' = revisions /\ writing' = writing
  <2>1. WindowTypes' /\ CounterTypes'
    BY <1>1, <1>3, <1>7 DEF WindowTypes, CounterTypes
  <2>2. \A v \in Windows \ {w} : SameWindow(v)
    BY <1>3, <1>4, <1>7 DEF SameWindow
  <2>3. WindowInv(w)'
    BY <1>1, <1>3, <1>4, <1>7
       DEF WindowInv, KnowsRevision, RestIsNamed, SubmissionIsKnown, AtRest
  <2>4. QED
    BY <1>3, <1>4, <1>5, <2>1, <2>2, <2>3, WindowStep
<1>8. CASE /\ call.answer = "draft" /\ failures' = failures
           /\ revisions' = [revisions EXCEPT ![w] = call.draft.revision]
           /\ \/ /\ texts' = texts
                 /\ writing' = [writing EXCEPT ![w] = IF @ = "idle" THEN "load" ELSE @]
              \/ /\ texts' = [texts EXCEPT ![w] = call.draft.text]
                 /\ writing' = writing
  <2> DEFINE revision == call.draft.revision
             text == call.draft.text
  <2>1. Names(drafts, revision, text)
    BY <1>1, <1>2, <1>3, <1>8 DEF AnswersAreDrafts, CallIsSound
  <2> HIDE DEF revision, text
  <2>2. revision \in Nat /\ revision # NoRevision /\ text \in AllTexts
    BY <1>1, <2>1, NamedIsText DEF ServerTypes
  <2>3. /\ revisions' \in [Windows -> Nat \cup {NoRevision}] /\ revisions'[w] = revision
        /\ \A v \in Windows \ {w} : revisions'[v] = revisions[v]
    BY <1>1, <1>8, <2>2 DEF WindowTypes, revision
  <2>4. /\ texts' \in [Windows -> AllTexts]
        /\ writing' \in [Windows -> {"idle", "load", "first", "current", "second"}]
        /\ \A v \in Windows \ {w} : texts'[v] = texts[v] /\ writing'[v] = writing[v]
        /\ texts'[w] = text \/ writing'[w] # "idle"
        /\ texts'[w] = texts[w] \/ texts'[w] = text
        /\ writing'[w] \in {"first", "current", "second"} => writing'[w] = writing[w]
    BY <1>1, <1>8, <2>2 DEF WindowTypes, text
  <2>5. WindowTypes' /\ CounterTypes'
    BY <1>1, <1>3, <1>8, <2>3, <2>4 DEF WindowTypes, CounterTypes
  <2>6. \A v \in Windows \ {w} : SameWindow(v)
    BY <1>3, <1>4, <1>8, <2>3, <2>4 DEF SameWindow
  <2>7. KnowsRevision(w)' /\ SubmissionIsKnown(w)'
    BY <1>1, <1>3, <1>4, <2>2, <2>3, <2>4 DEF WindowInv, KnowsRevision, SubmissionIsKnown
  <2>8. RestIsNamed(w)'
    BY <1>3, <2>1, <2>3, <2>4 DEF RestIsNamed, AtRest
  <2>9. QED
    BY <1>3, <1>4, <1>5, <2>5, <2>6, <2>7, <2>8, WindowStep DEF WindowInv
<1>9. QED
  BY <1>6, <1>7, <1>8

LEMMA QueueWriteFacts ==
    ASSUME WindowTypes, NEW w \in Windows, QueueWrite(w)
    PROVE  /\ writing' \in [Windows -> {"idle", "load", "first", "current", "second"}]
           /\ \A v \in Windows \ {w} : writing'[v] = writing[v]
           /\ writing'[w] # "idle"
           /\ writing'[w] \in {"first", "current", "second"} => writing'[w] = writing[w]
  BY DEF WindowTypes, QueueWrite

(* The user types, or clears the text: it has to be written first.           *)
LEMMA EditStep ==
    ASSUME DraftInv, NEW w \in Windows, NEW text \in AllTexts, Edit(w, text)
    PROVE  DraftInv'
<1>1. /\ ServerTypes /\ WindowTypes /\ CallTypes /\ CounterTypes
      /\ AnswersAreDrafts /\ WindowInv(w)
  BY DraftInvFacts
<1>2. /\ UNCHANGED serverVars /\ drafts' = drafts /\ commits' = commits
      /\ revisions' = revisions /\ failures' = failures /\ loading' = loading
      /\ operation' = operation /\ submission' = submission /\ calls' = calls
      /\ faults' = faults /\ touched' = touched \cup {w}
      /\ acts[w] < MaxActs(w) /\ acts' = [acts EXCEPT ![w] = @ + 1]
      /\ texts' = [texts EXCEPT ![w] = text] /\ QueueWrite(w)
  BY DEF Edit, serverVars
<1>3. /\ writing' \in [Windows -> {"idle", "load", "first", "current", "second"}]
      /\ \A v \in Windows \ {w} : writing'[v] = writing[v]
      /\ writing'[w] # "idle"
      /\ writing'[w] \in {"first", "current", "second"} => writing'[w] = writing[w]
  BY <1>1, <1>2, QueueWriteFacts
<1>4. /\ texts' \in [Windows -> AllTexts]
      /\ \A v \in Windows \ {w} : texts'[v] = texts[v]
  BY <1>1, <1>2 DEF WindowTypes
<1>5. CallTypes' /\ AnswersAreDrafts'
  BY <1>1, <1>2 DEF CallTypes, AnswersAreDrafts
<1>6. WindowTypes'
  BY <1>1, <1>2, <1>3, <1>4 DEF WindowTypes
<1>7. CounterTypes'
  BY <1>1, <1>2, BoundAssumption DEF CounterTypes
<1>8. \A v \in Windows \ {w} : SameWindow(v)
  BY <1>2, <1>3, <1>4 DEF SameWindow
<1>9. KnowsRevision(w)' /\ SubmissionIsKnown(w)' /\ RestIsNamed(w)'
  BY <1>1, <1>2, <1>3
     DEF WindowInv, KnowsRevision, SubmissionIsKnown, RestIsNamed, AtRest
<1>10. QED
  BY <1>2, <1>5, <1>6, <1>7, <1>8, <1>9, WindowStep DEF WindowInv

LEMMA WriteStartsStep ==
    ASSUME DraftInv, NEW w \in Windows, WriteStarts(w)
    PROVE  DraftInv'
<1>1. /\ ServerTypes /\ WindowTypes /\ CallTypes /\ CounterTypes
      /\ AnswersAreDrafts /\ WindowInv(w)
  BY DraftInvFacts
<1>2. /\ UNCHANGED serverVars /\ drafts' = drafts /\ commits' = commits
      /\ texts' = texts /\ revisions' = revisions /\ touched' = touched
      /\ loading' = loading /\ operation' = operation /\ submission' = submission
      /\ acts' = acts /\ faults' = faults
      /\ \/ /\ writing' = [writing EXCEPT ![w] = "idle"]
            /\ failures' = failures \cup {w} /\ calls' = calls
         \/ /\ revisions[w] # NoRevision
            /\ writing' = [writing EXCEPT ![w] = "first"]
            /\ Puts(w, "write", Set(revisions[w], texts[w])) /\ failures' = failures
  BY DEF WriteStarts, serverVars, Puts
<1>3. CallIsSound(drafts, Set(revisions[w], texts[w]))
  BY <1>1, NewCallsAreSound DEF WindowTypes
<1>4. /\ CallTypes' /\ AnswersAreDrafts'
      /\ \A v \in Windows : calls'[v]["reconcile"] = calls[v]["reconcile"]
  <2>1. CASE calls' = calls
    BY <1>1, <1>2, <2>1 DEF CallTypes, AnswersAreDrafts
  <2>2. CASE Puts(w, "write", Set(revisions[w], texts[w]))
    BY <1>1, <1>2, <1>3, <2>2, CallPut, SoundCallPut DEF Purposes
  <2>3. QED
    BY <1>2, <2>1, <2>2
<1>5. /\ writing' \in [Windows -> {"idle", "load", "first", "current", "second"}]
      /\ \A v \in Windows \ {w} : writing'[v] = writing[v]
      /\ \/ w \in failures' /\ writing'[w] = "idle"
         \/ writing'[w] = "first" /\ revisions[w] # NoRevision
      /\ \A v \in Windows \ {w} : (v \in failures') = (v \in failures)
      /\ failures' \in SUBSET Windows
  BY <1>1, <1>2 DEF WindowTypes
<1>6. WindowTypes' /\ CounterTypes'
  BY <1>1, <1>2, <1>5 DEF WindowTypes, CounterTypes
<1>7. \A v \in Windows \ {w} : SameWindow(v)
  BY <1>2, <1>4, <1>5 DEF SameWindow
<1>8. KnowsRevision(w)' /\ SubmissionIsKnown(w)' /\ RestIsNamed(w)'
  BY <1>1, <1>2, <1>4, <1>5
     DEF WindowInv, KnowsRevision, SubmissionIsKnown, RestIsNamed, AtRest
<1>9. QED
  BY <1>2, <1>4, <1>6, <1>7, <1>8, WindowStep DEF WindowInv

(* The answered request of the write loop, when it is a draft.               *)
LEMMA WrittenDraft ==
    ASSUME DraftInv, NEW w \in Windows, NEW purpose \in Purposes,
           calls[w][purpose].ask # "none", calls[w][purpose].answer = "draft"
    PROVE  LET draft == calls[w][purpose].draft
           IN  /\ Names(drafts, draft.revision, draft.text)
               /\ draft.revision \in Nat /\ draft.revision # NoRevision
               /\ draft.text \in AllTexts /\ calls[w][purpose].text \in AllTexts
<1> DEFINE call == calls[w][purpose]
<1>1. CallIsSound(drafts, call) /\ drafts \in Seq(AllTexts)
  BY DraftInvFacts DEF AnswersAreDrafts, ServerTypes
<1>2. Names(drafts, call.draft.revision, call.draft.text) /\ call.text \in AllTexts
  BY <1>1 DEF CallIsSound
<1>3. QED
  BY <1>1, <1>2, NamedIsText

LEMMA WriteAcceptedStep ==
    ASSUME DraftInv, NEW w \in Windows, WriteAccepted(w)
    PROVE  DraftInv'
<1> DEFINE call == calls[w]["write"]
           revision == call.draft.revision
           text == call.draft.text
           next == Set(revision, texts[w])
<1>1. /\ ServerTypes /\ WindowTypes /\ CallTypes /\ CounterTypes
      /\ AnswersAreDrafts /\ WindowInv(w)
  BY DraftInvFacts
<1>2. /\ UNCHANGED serverVars /\ drafts' = drafts /\ commits' = commits
      /\ texts' = texts /\ touched' = touched
      /\ loading' = loading /\ operation' = operation /\ submission' = submission
      /\ acts' = acts /\ faults' = faults
      /\ writing[w] \in {"first", "second"}
      /\ call.ask # "none" /\ call.answer = "draft"
      /\ revisions' = [revisions EXCEPT ![w] = revision]
      /\ failures' = failures \ {w}
      /\ \/ /\ texts[w] = text /\ writing' = [writing EXCEPT ![w] = "idle"]
            /\ Puts(w, "write", NoCall)
         \/ /\ writing' = [writing EXCEPT ![w] = "first"]
            /\ Puts(w, "write", next)
  BY DEF WriteAccepted, Answered, serverVars, Puts
<1>3. "write" \in Purposes /\ "reconcile" \in Purposes
  BY DEF Purposes
<1>4. Names(drafts, revision, text) /\ revision \in Nat /\ revision # NoRevision
  BY <1>2, <1>3, WrittenDraft
<1> HIDE DEF revision, text
<1>5. CallIsSound(drafts, next) /\ CallIsSound(drafts, NoCall)
  BY <1>1, NewCallsAreSound DEF WindowTypes
<1> HIDE DEF next, call
<1>6. /\ CallTypes' /\ AnswersAreDrafts'
      /\ \A v \in Windows : calls'[v]["reconcile"] = calls[v]["reconcile"]
  BY <1>1, <1>2, <1>3, <1>5, CallPut, SoundCallPut
<1>7. /\ revisions' \in [Windows -> Nat \cup {NoRevision}] /\ revisions'[w] = revision
      /\ \A v \in Windows \ {w} : revisions'[v] = revisions[v]
      /\ writing' \in [Windows -> {"idle", "load", "first", "current", "second"}]
      /\ \A v \in Windows \ {w} : writing'[v] = writing[v]
      /\ texts[w] = text \/ writing'[w] = "first"
  BY <1>1, <1>2, <1>4 DEF WindowTypes
<1>8. WindowTypes' /\ CounterTypes'
  BY <1>1, <1>2, <1>7 DEF WindowTypes, CounterTypes
<1>9. \A v \in Windows \ {w} : SameWindow(v)
  BY <1>2, <1>6, <1>7 DEF SameWindow
<1>10. KnowsRevision(w)' /\ SubmissionIsKnown(w)' /\ RestIsNamed(w)'
  BY <1>1, <1>2, <1>4, <1>6, <1>7
     DEF WindowInv, KnowsRevision, SubmissionIsKnown, RestIsNamed, AtRest
<1>11. QED
  BY <1>2, <1>6, <1>8, <1>9, <1>10, WindowStep DEF WindowInv

LEMMA WriteRefusedStep ==
    ASSUME DraftInv, NEW w \in Windows, WriteRefused(w)
    PROVE  DraftInv'
<1> DEFINE next == Get(calls[w]["write"].text)
<1>1. /\ ServerTypes /\ WindowTypes /\ CallTypes /\ CounterTypes
      /\ AnswersAreDrafts /\ WindowInv(w)
  BY DraftInvFacts
<1>2. /\ UNCHANGED serverVars /\ drafts' = drafts /\ commits' = commits
      /\ texts' = texts /\ touched' = touched /\ revisions' = revisions
      /\ failures' = failures
      /\ loading' = loading /\ operation' = operation /\ submission' = submission
      /\ acts' = acts /\ faults' = faults
      /\ writing[w] = "first" /\ writing' = [writing EXCEPT ![w] = "current"]
      /\ calls[w]["write"].ask # "none"
      /\ Puts(w, "write", next)
  BY DEF WriteRefused, Answered, serverVars, draftVars, Puts
<1>3. "write" \in Purposes /\ "reconcile" \in Purposes
  BY DEF Purposes
<1>4. CallIsSound(drafts, next)
  BY <1>1, <1>2, <1>3, NewCallsAreSound DEF AnswersAreDrafts, CallIsSound
<1> HIDE DEF next
<1>5. /\ CallTypes' /\ AnswersAreDrafts'
      /\ \A v \in Windows : calls'[v]["reconcile"] = calls[v]["reconcile"]
  BY <1>1, <1>2, <1>3, <1>4, CallPut, SoundCallPut
<1>6. WindowTypes' /\ CounterTypes' /\ writing'[w] = "current"
      /\ \A v \in Windows \ {w} : writing'[v] = writing[v]
  BY <1>1, <1>2 DEF WindowTypes, CounterTypes
<1>7. \A v \in Windows \ {w} : SameWindow(v)
  BY <1>2, <1>5, <1>6 DEF SameWindow
<1>8. KnowsRevision(w)' /\ SubmissionIsKnown(w)' /\ RestIsNamed(w)'
  BY <1>1, <1>2, <1>5, <1>6
     DEF WindowInv, KnowsRevision, SubmissionIsKnown, RestIsNamed, AtRest
<1>9. QED
  BY <1>2, <1>5, <1>6, <1>7, <1>8, WindowStep DEF WindowInv

LEMMA WriteTriedAgainStep ==
    ASSUME DraftInv, NEW w \in Windows, WriteTriedAgain(w)
    PROVE  DraftInv'
<1> DEFINE call == calls[w]["write"]
           revision == call.draft.revision
           next == Set(revision, call.text)
<1>1. /\ ServerTypes /\ WindowTypes /\ CallTypes /\ CounterTypes
      /\ AnswersAreDrafts /\ WindowInv(w)
  BY DraftInvFacts
<1>2. /\ UNCHANGED serverVars /\ drafts' = drafts /\ commits' = commits
      /\ texts' = texts /\ touched' = touched /\ failures' = failures
      /\ loading' = loading /\ operation' = operation /\ submission' = submission
      /\ acts' = acts /\ faults' = faults
      /\ writing[w] = "current" /\ writing' = [writing EXCEPT ![w] = "second"]
      /\ call.ask # "none" /\ call.answer = "draft"
      /\ revisions' = [revisions EXCEPT ![w] = revision]
      /\ Puts(w, "write", next)
  BY DEF WriteTriedAgain, Answered, serverVars, Puts
<1>3. "write" \in Purposes /\ "reconcile" \in Purposes
  BY DEF Purposes
<1>4. revision \in Nat /\ revision # NoRevision /\ call.text \in AllTexts
  BY <1>2, <1>3, WrittenDraft
<1> HIDE DEF revision
<1>5. CallIsSound(drafts, next)
  BY <1>4, NewCallsAreSound
<1> HIDE DEF next, call
<1>6. /\ CallTypes' /\ AnswersAreDrafts'
      /\ \A v \in Windows : calls'[v]["reconcile"] = calls[v]["reconcile"]
  BY <1>1, <1>2, <1>3, <1>5, CallPut, SoundCallPut
<1>7. /\ WindowTypes' /\ CounterTypes' /\ writing'[w] = "second"
      /\ \A v \in Windows \ {w} : writing'[v] = writing[v]
      /\ revisions'[w] = revision
      /\ \A v \in Windows \ {w} : revisions'[v] = revisions[v]
  BY <1>1, <1>2, <1>4 DEF WindowTypes, CounterTypes
<1>8. \A v \in Windows \ {w} : SameWindow(v)
  BY <1>2, <1>6, <1>7 DEF SameWindow
<1>9. KnowsRevision(w)' /\ SubmissionIsKnown(w)' /\ RestIsNamed(w)'
  BY <1>1, <1>2, <1>4, <1>6, <1>7
     DEF WindowInv, KnowsRevision, SubmissionIsKnown, RestIsNamed, AtRest
<1>10. QED
  BY <1>2, <1>6, <1>7, <1>8, <1>9, WindowStep DEF WindowInv

LEMMA WriteFailedStep ==
    ASSUME DraftInv, NEW w \in Windows, WriteFailed(w)
    PROVE  DraftInv'
<1>1. /\ ServerTypes /\ WindowTypes /\ CallTypes /\ CounterTypes
      /\ AnswersAreDrafts /\ WindowInv(w)
  BY DraftInvFacts
<1>2. /\ UNCHANGED serverVars /\ drafts' = drafts /\ commits' = commits
      /\ texts' = texts /\ touched' = touched /\ revisions' = revisions
      /\ loading' = loading /\ operation' = operation /\ submission' = submission
      /\ acts' = acts /\ faults' = faults
      /\ writing' = [writing EXCEPT ![w] = "idle"] /\ failures' = failures \cup {w}
      /\ Puts(w, "write", NoCall)
  BY DEF WriteFailed, serverVars, Puts
<1>3. "write" \in Purposes /\ "reconcile" \in Purposes
  BY DEF Purposes
<1>4. CallIsSound(drafts, NoCall)
  BY NewCallsAreSound
<1>5. /\ CallTypes' /\ AnswersAreDrafts'
      /\ \A v \in Windows : calls'[v]["reconcile"] = calls[v]["reconcile"]
  BY <1>1, <1>2, <1>3, <1>4, CallPut, SoundCallPut
<1>6. WindowTypes' /\ CounterTypes' /\ writing'[w] = "idle" /\ w \in failures'
      /\ \A v \in Windows \ {w} : /\ writing'[v] = writing[v]
                                  /\ (v \in failures') = (v \in failures)
  BY <1>1, <1>2 DEF WindowTypes, CounterTypes
<1>7. \A v \in Windows \ {w} : SameWindow(v)
  BY <1>2, <1>5, <1>6 DEF SameWindow
<1>8. KnowsRevision(w)' /\ SubmissionIsKnown(w)' /\ RestIsNamed(w)'
  BY <1>1, <1>2, <1>5, <1>6
     DEF WindowInv, KnowsRevision, SubmissionIsKnown, RestIsNamed, AtRest
<1>9. QED
  BY <1>2, <1>5, <1>6, <1>7, <1>8, WindowStep DEF WindowInv

-----------------------------------------------------------------------------
(* The steps of the server.                                                  *)

LEMMA ServerStep ==
    ASSUME DraftInv, UNCHANGED windowVars, ServerTypes', CallTypes', CounterTypes',
           AnswersAreDrafts', CommitsAreNamed', CommitsGoOn, DraftsGoOn,
           \A v \in Windows : calls'[v]["reconcile"].ask = calls[v]["reconcile"].ask
    PROVE  DraftInv'
<1>1. /\ texts' = texts /\ revisions' = revisions /\ touched' = touched
      /\ failures' = failures /\ loading' = loading /\ writing' = writing
      /\ operation' = operation /\ submission' = submission
  BY DEF windowVars, draftVars
<1>2. WindowTypes /\ \A v \in Windows : WindowInv(v)
  BY DraftInvFacts
<1>3. WindowTypes'
  BY <1>1, <1>2 DEF WindowTypes
<1>4. \A v \in Windows : SameWindow(v)
  BY <1>1 DEF SameWindow
<1>5. \A v \in Windows : WindowInv(v)'
  BY <1>2, <1>4, SameWindowKeeps
<1>6. TypeOK'
  BY <1>3, TypesGroupedNext
<1>7. QED
  BY <1>5, <1>6 DEF DraftInv

(* Drafts and commits that were sound stay so.                               *)
LEMMA SoundStays ==
    ASSUME DraftsGoOn
    PROVE  /\ \A c : CallIsSound(drafts, c) => CallIsSound(drafts', c)
           /\ \A c : CommitIsSound(drafts, c) => CommitIsSound(drafts', c)
  BY DEF DraftsGoOn, CallIsSound, CommitIsSound

LEMMA DraftAppended ==
    ASSUME ServerTypes, NEW t \in AllTexts, drafts' = Append(drafts, t)
    PROVE  /\ DraftsGoOn /\ drafts' \in Seq(AllTexts) /\ drafts' # <<>>
           /\ Names(drafts', Len(drafts') - 1, drafts'[Len(drafts')])
<1>1. drafts \in Seq(AllTexts)
  BY DEF ServerTypes
<1>2. DraftsGoOn
  BY <1>1, NamesStay DEF DraftsGoOn
<1>3. drafts' \in Seq(AllTexts) /\ drafts' # <<>>
  BY <1>1, AppendFacts
<1>4. QED
  BY <1>2, <1>3, LastIsNamed

(* A get is answered with the current draft, a set with the one it makes.    *)
LEMMA UpdateDraftStep ==
    ASSUME DraftInv, NEW w \in Windows, NEW purpose \in Purposes,
           UpdateDraft(w, purpose)
    PROVE  DraftInv'
<1> DEFINE call == calls[w][purpose]
           drafted == WithDraft(call, Len(drafts') - 1, drafts'[Len(drafts')])
           answered == IF call.ask = "get" \/ Takes(call)
                       THEN drafted ELSE WithFailure(call)
<1>1. /\ ServerTypes /\ CallTypes /\ CounterTypes
      /\ AnswersAreDrafts /\ CommitsAreNamed
  BY DraftInvFacts
<1>2. /\ call.ask # "none" /\ UNCHANGED windowVars
      /\ commits' = commits /\ acts' = acts /\ faults' = faults
      /\ drafts' = IF Takes(call) THEN Append(drafts, call.text) ELSE drafts
      /\ Puts(w, purpose, answered)
  BY DEF UpdateDraft, Puts
<1>3. call.text \in AllTexts
  BY <1>1, <1>2 DEF AnswersAreDrafts, CallIsSound
<1>4. /\ DraftsGoOn /\ drafts' \in Seq(AllTexts) /\ drafts' # <<>>
      /\ Names(drafts', Len(drafts') - 1, drafts'[Len(drafts')])
  <2>1. CASE Takes(call)
    BY <1>1, <1>2, <1>3, <2>1, DraftAppended
  <2>2. CASE ~Takes(call)
    <3>1. drafts' = drafts /\ drafts \in Seq(AllTexts) /\ drafts # <<>>
      BY <1>1, <1>2, <2>2 DEF ServerTypes
    <3>2. DraftsGoOn
      BY <3>1 DEF DraftsGoOn
    <3>3. QED
      BY <3>1, <3>2, LastIsNamed
  <2>3. QED
    BY <2>1, <2>2
<1>5. CallIsSound(drafts', answered) /\ answered.ask = call.ask
  <2>1. CallIsSound(drafts', drafted) /\ drafted.ask = call.ask
    BY <1>3, <1>4, CallFacts DEF CallIsSound
  <2>2. CallIsSound(drafts', WithFailure(call)) /\ WithFailure(call).ask = call.ask
    BY <1>3, CallFacts DEF CallIsSound
  <2>3. QED
    BY <2>1, <2>2
<1> HIDE DEF answered
<1>6. /\ CallTypes' /\ calls'[w][purpose] = answered
      /\ \A v \in Windows, p \in Purposes :
            v # w \/ p # purpose => calls'[v][p] = calls[v][p]
  BY <1>1, <1>2, CallPut
<1>7. AnswersAreDrafts'
  BY <1>1, <1>4, <1>5, <1>6, SoundStays DEF AnswersAreDrafts
<1>8. \A v \in Windows : calls'[v]["reconcile"].ask = calls[v]["reconcile"].ask
  BY <1>5, <1>6 DEF Purposes
<1>9. ServerTypes' /\ CounterTypes' /\ CommitsGoOn
  BY <1>1, <1>2, <1>4 DEF ServerTypes, CounterTypes, CommitsGoOn
<1>10. CommitsAreNamed'
  BY <1>1, <1>2, <1>4, SoundStays DEF CommitsAreNamed
<1>11. QED
  BY <1>2, <1>4, <1>6, <1>7, <1>8, <1>9, <1>10, ServerStep

LEMMA CallIsLostStep ==
    ASSUME DraftInv, NEW w \in Windows, NEW purpose \in Purposes,
           CallIsLost(w, purpose)
    PROVE  DraftInv'
<1> DEFINE call == calls[w][purpose]
           lost == WithFailure(call)
<1>1. /\ ServerTypes /\ CallTypes /\ CounterTypes
      /\ AnswersAreDrafts /\ CommitsAreNamed
  BY DraftInvFacts
<1>2. /\ UNCHANGED windowVars /\ UNCHANGED serverVars /\ drafts' = drafts
      /\ acts' = acts /\ faults < MaxFaults /\ faults' = faults + 1
      /\ call.ask # "none" /\ Puts(w, purpose, lost)
  BY DEF CallIsLost, serverVars, Puts
<1>3. CallIsSound(drafts, lost) /\ lost.ask = call.ask
  BY <1>1, <1>2, CallFacts DEF CallIsSound, AnswersAreDrafts
<1> HIDE DEF lost
<1>4. /\ CallTypes' /\ calls'[w][purpose] = lost
      /\ \A v \in Windows, p \in Purposes :
            v # w \/ p # purpose => calls'[v][p] = calls[v][p]
  BY <1>1, <1>2, CallPut
<1>5. AnswersAreDrafts'
  BY <1>1, <1>2, <1>3, SoundCallPut
<1>6. \A v \in Windows : calls'[v]["reconcile"].ask = calls[v]["reconcile"].ask
  BY <1>3, <1>4 DEF Purposes
<1>7. CounterTypes'
  BY <1>1, <1>2, BoundAssumption DEF CounterTypes
<1>8. ServerTypes' /\ CommitsAreNamed' /\ CommitsGoOn /\ DraftsGoOn
  BY <1>2, ServerStays
<1>9. QED
  BY <1>2, <1>4, <1>5, <1>6, <1>7, <1>8, ServerStep

-----------------------------------------------------------------------------
(* The commits of the server.                                                *)

(* One field of one commit changes.                                          *)
LEMMA PhaseFacts ==
    ASSUME NEW s \in Seq(CommitRecord), NEW i \in DOMAIN s, NEW p \in Phases
    PROVE  LET t == [s EXCEPT ![i].phase = p]
           IN  /\ t \in Seq(CommitRecord) /\ DOMAIN t = DOMAIN s /\ Len(t) = Len(s)
               /\ \A j \in DOMAIN s : j # i => t[j] = s[j]
               /\ t[i].phase = p /\ t[i].revision = s[i].revision
               /\ t[i].shown = s[i].shown /\ t[i].taken = s[i].taken
               /\ t[i].made = s[i].made
<1> DEFINE c == [s[i] EXCEPT !.phase = p]
<1>1. s[i] \in CommitRecord
  OBVIOUS
<1>2. /\ c \in CommitRecord /\ c.phase = p /\ c.revision = s[i].revision
      /\ c.shown = s[i].shown /\ c.taken = s[i].taken /\ c.made = s[i].made
  BY <1>1 DEF CommitRecord
<1> DEFINE t == [s EXCEPT ![i] = c]
<1>3. t = [s EXCEPT ![i].phase = p]
  OBVIOUS
<1> HIDE DEF c
<1>4. /\ t \in Seq(CommitRecord) /\ DOMAIN t = DOMAIN s /\ Len(t) = Len(s)
      /\ t[i] = c /\ \A j \in DOMAIN s : j # i => t[j] = s[j]
  BY <1>2
<1> HIDE DEF t
<1>5. QED
  BY <1>2, <1>3, <1>4

LEMMA TakenFacts ==
    ASSUME NEW s \in Seq(CommitRecord), NEW i \in DOMAIN s, NEW x \in AllTexts
    PROVE  LET t == [s EXCEPT ![i].taken = x]
           IN  /\ t \in Seq(CommitRecord) /\ DOMAIN t = DOMAIN s /\ Len(t) = Len(s)
               /\ \A j \in DOMAIN s : j # i => t[j] = s[j]
               /\ t[i].taken = x /\ t[i].revision = s[i].revision
               /\ t[i].shown = s[i].shown /\ t[i].phase = s[i].phase
               /\ t[i].made = s[i].made
<1> DEFINE c == [s[i] EXCEPT !.taken = x]
<1>1. s[i] \in CommitRecord
  OBVIOUS
<1>2. /\ c \in CommitRecord /\ c.taken = x /\ c.revision = s[i].revision
      /\ c.shown = s[i].shown /\ c.phase = s[i].phase /\ c.made = s[i].made
  BY <1>1 DEF CommitRecord
<1> DEFINE t == [s EXCEPT ![i] = c]
<1>3. t = [s EXCEPT ![i].taken = x]
  OBVIOUS
<1> HIDE DEF c
<1>4. /\ t \in Seq(CommitRecord) /\ DOMAIN t = DOMAIN s /\ Len(t) = Len(s)
      /\ t[i] = c /\ \A j \in DOMAIN s : j # i => t[j] = s[j]
  BY <1>2
<1> HIDE DEF t
<1>5. QED
  BY <1>2, <1>3, <1>4

LEMMA MadeFacts ==
    ASSUME NEW s \in Seq(CommitRecord), NEW i \in DOMAIN s, NEW b \in BOOLEAN
    PROVE  LET t == [s EXCEPT ![i].made = b]
           IN  /\ t \in Seq(CommitRecord) /\ DOMAIN t = DOMAIN s /\ Len(t) = Len(s)
               /\ \A j \in DOMAIN s : j # i => t[j] = s[j]
               /\ t[i].made = b /\ t[i].revision = s[i].revision
               /\ t[i].shown = s[i].shown /\ t[i].taken = s[i].taken
               /\ t[i].phase = s[i].phase
<1> DEFINE c == [s[i] EXCEPT !.made = b]
<1>1. s[i] \in CommitRecord
  OBVIOUS
<1>2. /\ c \in CommitRecord /\ c.made = b /\ c.revision = s[i].revision
      /\ c.shown = s[i].shown /\ c.taken = s[i].taken /\ c.phase = s[i].phase
  BY <1>1 DEF CommitRecord
<1> DEFINE t == [s EXCEPT ![i] = c]
<1>3. t = [s EXCEPT ![i].made = b]
  OBVIOUS
<1> HIDE DEF c
<1>4. /\ t \in Seq(CommitRecord) /\ DOMAIN t = DOMAIN s /\ Len(t) = Len(s)
      /\ t[i] = c /\ \A j \in DOMAIN s : j # i => t[j] = s[j]
  BY <1>2
<1> HIDE DEF t
<1>5. QED
  BY <1>2, <1>3, <1>4

LEMMA PhaseNames ==
    \A p \in {"executing", "reconciling", "rejected", "failed_known",
             "unknown_outcome", "succeeded"} : p \in Phases
  BY DEF Phases

(* A step of one commit, sound in itself and never back to unmade or         *)
(* unexecuted.                                                               *)
CommitGoesOn(i) ==
    /\ commits' \in Seq(CommitRecord) /\ DOMAIN commits' = DOMAIN commits
    /\ \A j \in DOMAIN commits : j # i => commits'[j] = commits[j]
    /\ commits[i].phase \notin {"sent", "rejected"} =>
         commits'[i].phase \notin {"sent", "rejected"}
    /\ commits[i].made => commits'[i].made
    /\ CommitIsSound(drafts', commits'[i])

LEMMA CommitStep ==
    ASSUME DraftInv, NEW i \in DOMAIN commits, CommitGoesOn(i), DraftsGoOn,
           drafts' \in Seq(AllTexts), drafts' # <<>>
    PROVE  ServerTypes' /\ CommitsAreNamed' /\ CommitsGoOn
<1>1. ServerTypes /\ CommitsAreNamed
  BY DraftInvFacts
<1>2. ServerTypes'
  BY DEF CommitGoesOn, ServerTypes
<1>3. CommitsGoOn
  BY DEF CommitGoesOn, CommitsGoOn
<1>4. CommitsAreNamed'
  BY <1>1, SoundStays DEF CommitGoesOn, CommitsAreNamed
<1>5. QED
  BY <1>2, <1>3, <1>4

(* The same, with every window and call as it was.                           *)
LEMMA CommitOnlyStep ==
    ASSUME DraftInv, NEW i \in DOMAIN commits, CommitGoesOn(i), DraftsGoOn,
           drafts' \in Seq(AllTexts), drafts' # <<>>,
           UNCHANGED <<windowVars, calls, acts, faults>>
    PROVE  DraftInv'
<1>1. ServerTypes' /\ CommitsAreNamed' /\ CommitsGoOn
  BY CommitStep
<1>2. CallTypes /\ CounterTypes /\ AnswersAreDrafts
  BY DraftInvFacts
<1>3. UNCHANGED windowVars /\ calls' = calls /\ acts' = acts /\ faults' = faults
  OBVIOUS
<1>4. CallTypes' /\ CounterTypes'
  BY <1>2, <1>3 DEF CallTypes, CounterTypes
<1>5. AnswersAreDrafts'
  BY <1>2, <1>3, SoundStays DEF AnswersAreDrafts
<1>6. QED
  BY <1>1, <1>3, <1>4, <1>5, ServerStep

LEMMA DraftsStay ==
    ASSUME ServerTypes, drafts' = drafts
    PROVE  DraftsGoOn /\ drafts' \in Seq(AllTexts) /\ drafts' # <<>>
  BY DEF ServerTypes, DraftsGoOn

(* The draft that a commit with the revision of the server takes is the one  *)
(* its window showed.                                                        *)
LEMMA CommitExecutesStep ==
    ASSUME DraftInv, NEW i \in DOMAIN commits, CommitExecutes(i)
    PROVE  DraftInv'
<1>1. ServerTypes /\ CommitIsSound(drafts, commits[i])
  BY DraftInvFacts DEF CommitsAreNamed
<1>2. /\ drafts' = drafts /\ UNCHANGED <<windowVars, calls, acts, faults>>
      /\ commits[i].phase = "sent" /\ commits \in Seq(CommitRecord)
  BY <1>1 DEF CommitExecutes, ServerTypes
<1>3. DraftsGoOn /\ drafts' \in Seq(AllTexts) /\ drafts' # <<>>
  BY <1>1, <1>2, DraftsStay
<1>4. CASE /\ DraftAsExpected(commits[i])
           /\ commits' = [commits EXCEPT ![i].phase = "executing", ![i].taken = Current]
  <2> DEFINE half == [commits EXCEPT ![i].phase = "executing"]
  <2>1. commits' = [half EXCEPT ![i].taken = Current]
    BY <1>4
  <2>2. /\ half \in Seq(CommitRecord) /\ DOMAIN half = DOMAIN commits
        /\ \A j \in DOMAIN commits : j # i => half[j] = commits[j]
        /\ half[i].phase = "executing" /\ half[i].revision = commits[i].revision
        /\ half[i].shown = commits[i].shown /\ half[i].made = commits[i].made
    BY <1>2, PhaseNames, PhaseFacts
  <2> HIDE DEF half
  <2>3. Current \in AllTexts /\ Current = commits[i].shown
    BY <1>1, <1>4, LastIsNamed
       DEF ServerTypes, Current, DraftAsExpected, Revision, CommitIsSound, Names
  <2>4. /\ commits' \in Seq(CommitRecord) /\ DOMAIN commits' = DOMAIN half
        /\ \A j \in DOMAIN half : j # i => commits'[j] = half[j]
        /\ commits'[i].taken = Current /\ commits'[i].revision = half[i].revision
        /\ commits'[i].shown = half[i].shown /\ commits'[i].phase = half[i].phase
        /\ commits'[i].made = half[i].made
    BY <2>1, <2>2, <2>3, TakenFacts
  <2>5. CommitIsSound(drafts', commits'[i])
    BY <1>1, <1>2, <2>2, <2>3, <2>4 DEF CommitIsSound
  <2>6. CommitGoesOn(i)
    BY <1>2, <2>2, <2>4, <2>5 DEF CommitGoesOn
  <2>7. QED
    BY <1>2, <1>3, <2>6, CommitOnlyStep
<1>5. CASE commits' = [commits EXCEPT ![i].phase = "rejected"]
  <2>1. /\ commits' \in Seq(CommitRecord) /\ DOMAIN commits' = DOMAIN commits
        /\ \A j \in DOMAIN commits : j # i => commits'[j] = commits[j]
        /\ commits'[i].phase = "rejected" /\ commits'[i].revision = commits[i].revision
        /\ commits'[i].shown = commits[i].shown /\ commits'[i].made = commits[i].made
    BY <1>2, <1>5, PhaseNames, PhaseFacts
  <2>2. CommitIsSound(drafts', commits'[i])
    BY <1>1, <1>2, <2>1 DEF CommitIsSound
  <2>3. CommitGoesOn(i)
    BY <1>2, <2>1, <2>2 DEF CommitGoesOn
  <2>4. QED
    BY <1>2, <1>3, <2>3, CommitOnlyStep
<1>6. QED
  BY <1>4, <1>5 DEF CommitExecutes

LEMMA CommitSettlesStep ==
    ASSUME DraftInv, NEW i \in DOMAIN commits, CommitSettles(i)
    PROVE  DraftInv'
<1>1. ServerTypes /\ CommitIsSound(drafts, commits[i])
  BY DraftInvFacts DEF CommitsAreNamed
<1>2. /\ UNCHANGED <<windowVars, calls, acts, faults>>
      /\ commits[i].phase \in {"executing", "reconciling"}
      /\ commits \in Seq(CommitRecord)
  BY <1>1 DEF CommitSettles, ServerTypes
<1>3. PICK made \in BOOLEAN :
         /\ commits[i].phase = "reconciling" => made = commits[i].made
         /\ \/ /\ made /\ CommitClears(commits[i])
               /\ commits' = [commits EXCEPT ![i].phase = "succeeded", ![i].made = TRUE]
            \/ /\ ~made /\ drafts' = drafts
               /\ commits' = [commits EXCEPT ![i].phase = "failed_known"]
            \/ /\ drafts' = drafts
               /\ commits' = [commits EXCEPT ![i].phase = "unknown_outcome",
                                             ![i].made = made]
  BY DEF CommitSettles
<1>4. DraftsGoOn /\ drafts' \in Seq(AllTexts) /\ drafts' # <<>>
  <2>1. CASE drafts' = drafts
    BY <1>1, <2>1, DraftsStay
  <2>2. CASE drafts' = Append(drafts, Empty)
    BY <1>1, <2>2, TextFacts, DraftAppended
  <2>3. QED
    BY <1>3, <2>1, <2>2 DEF CommitClears
<1>5. CommitIsSound(drafts', commits[i])
  BY <1>1, <1>4, SoundStays
<1>6. commits[i].made => made
  BY <1>1, <1>2, <1>3 DEF CommitIsSound
<1>7. CASE commits' = [commits EXCEPT ![i].phase = "failed_known"] /\ ~made
  <2>1. /\ commits' \in Seq(CommitRecord) /\ DOMAIN commits' = DOMAIN commits
        /\ \A j \in DOMAIN commits : j # i => commits'[j] = commits[j]
        /\ commits'[i].phase = "failed_known"
        /\ commits'[i].revision = commits[i].revision
        /\ commits'[i].shown = commits[i].shown /\ commits'[i].made = commits[i].made
        /\ commits'[i].taken = commits[i].taken
    BY <1>2, <1>7, PhaseNames, PhaseFacts
  <2>2. CommitIsSound(drafts', commits'[i])
    BY <1>2, <1>5, <2>1 DEF CommitIsSound
  <2>3. CommitGoesOn(i)
    BY <1>2, <2>1, <2>2 DEF CommitGoesOn
  <2>4. QED
    BY <1>2, <1>4, <2>3, CommitOnlyStep
<1>8. ASSUME NEW phase \in {"succeeded", "unknown_outcome"},
             phase = "succeeded" => made,
             commits' = [commits EXCEPT ![i].phase = phase, ![i].made = made]
      PROVE  DraftInv'
  <2> DEFINE half == [commits EXCEPT ![i].phase = phase]
  <2>1. commits' = [half EXCEPT ![i].made = made]
    BY <1>8
  <2>2. /\ half \in Seq(CommitRecord) /\ DOMAIN half = DOMAIN commits
        /\ \A j \in DOMAIN commits : j # i => half[j] = commits[j]
        /\ half[i].phase = phase /\ half[i].revision = commits[i].revision
        /\ half[i].shown = commits[i].shown /\ half[i].taken = commits[i].taken
    BY <1>2, PhaseNames, PhaseFacts
  <2> HIDE DEF half
  <2>3. /\ commits' \in Seq(CommitRecord) /\ DOMAIN commits' = DOMAIN half
        /\ \A j \in DOMAIN half : j # i => commits'[j] = half[j]
        /\ commits'[i].made = made /\ commits'[i].revision = half[i].revision
        /\ commits'[i].shown = half[i].shown /\ commits'[i].phase = half[i].phase
        /\ commits'[i].taken = half[i].taken
    BY <2>1, <2>2, MadeFacts
  <2>4. CommitIsSound(drafts', commits'[i])
    BY <1>2, <1>5, <1>8, <2>2, <2>3 DEF CommitIsSound
  <2>5. CommitGoesOn(i)
    BY <1>6, <1>8, <2>2, <2>3, <2>4 DEF CommitGoesOn
  <2>6. QED
    BY <1>2, <1>4, <2>5, CommitOnlyStep
<1>9. QED
  BY <1>3, <1>7, <1>8

-----------------------------------------------------------------------------
(* The commit of a window.                                                   *)

LEMMA CommitClickedStep ==
    ASSUME DraftInv, NEW w \in Windows, Commit(w)
    PROVE  DraftInv'
<1>1. /\ WindowTypes /\ CallTypes /\ CounterTypes /\ AnswersAreDrafts /\ WindowInv(w)
  BY DraftInvFacts
<1>2. /\ UNCHANGED serverVars /\ drafts' = drafts /\ commits' = commits
      /\ texts' = texts /\ revisions' = revisions /\ touched' = touched
      /\ failures' = failures /\ loading' = loading /\ writing' = writing
      /\ submission' = submission /\ calls' = calls /\ faults' = faults
      /\ acts[w] < MaxActs(w) /\ acts' = [acts EXCEPT ![w] = @ + 1]
      /\ texts[w] # Empty /\ operation[w] = "none"
      /\ operation' = [operation EXCEPT ![w] = "waiting"]
  BY DEF Commit, serverVars, draftVars
<1>3. CallTypes' /\ AnswersAreDrafts'
  BY <1>1, <1>2 DEF CallTypes, AnswersAreDrafts
<1>4. /\ WindowTypes' /\ operation'[w] = "waiting"
      /\ \A v \in Windows \ {w} : operation'[v] = operation[v]
  BY <1>1, <1>2 DEF WindowTypes
<1>5. CounterTypes'
  BY <1>1, <1>2, BoundAssumption DEF CounterTypes
<1>6. \A v \in Windows \ {w} : SameWindow(v)
  BY <1>2, <1>4 DEF SameWindow
<1>7. KnowsRevision(w)' /\ SubmissionIsKnown(w)' /\ RestIsNamed(w)'
  BY <1>1, <1>2, <1>4
     DEF WindowInv, KnowsRevision, SubmissionIsKnown, SubmittedSteps, RestIsNamed, AtRest
<1>8. QED
  BY <1>2, <1>3, <1>4, <1>5, <1>6, <1>7, WindowStep DEF WindowInv

(* A step of one window and of the commits of the server.                    *)
LEMMA WindowAndServerStep ==
    ASSUME DraftInv, NEW w \in Windows, drafts' = drafts, calls' = calls,
           ServerTypes', WindowTypes', CounterTypes', CommitsAreNamed',
           CommitsGoOn, \A v \in Windows \ {w} : SameWindow(v), WindowInv(w)'
    PROVE  DraftInv'
<1>1. CallTypes /\ AnswersAreDrafts /\ \A v \in Windows : WindowInv(v)
  BY DraftInvFacts
<1>2. CallTypes' /\ AnswersAreDrafts'
  BY <1>1 DEF CallTypes, AnswersAreDrafts
<1>3. DraftsGoOn
  BY DEF DraftsGoOn
<1>4. ASSUME NEW v \in Windows PROVE WindowInv(v)'
  <2>1. CASE v = w
    BY <2>1
  <2>2. CASE v # w
    BY <1>1, <1>3, <2>2, SameWindowKeeps
  <2>3. QED
    BY <2>1, <2>2
<1>5. TypeOK'
  BY <1>2, TypesGroupedNext
<1>6. QED
  BY <1>2, <1>4, <1>5 DEF DraftInv

(* A window that may submit is at rest: its revision names its text, also    *)
(* when the user has emptied the text since the click.                       *)
LEMMA SubmittedIsNamed ==
    ASSUME DraftInv, NEW w \in Windows, CommitIsDue(w), MaySubmit(w)
    PROVE  Names(drafts, revisions[w], texts[w])
  BY DraftInvFacts DEF CommitIsDue, MaySubmit, WindowInv, KnowsRevision, RestIsNamed, AtRest

LEMMA CommitIsSubmittedStep ==
    ASSUME DraftInv, NEW w \in Windows, CommitIsSubmitted(w)
    PROVE  DraftInv'
<1> DEFINE commit == [by |-> w, revision |-> revisions[w], shown |-> texts[w],
                      taken |-> Empty, made |-> FALSE, phase |-> "sent"]
<1>1. /\ ServerTypes /\ WindowTypes /\ CallTypes /\ CounterTypes
      /\ AnswersAreDrafts /\ CommitsAreNamed /\ WindowInv(w)
  BY DraftInvFacts
<1>2. /\ drafts' = drafts /\ calls' = calls
      /\ texts' = texts /\ revisions' = revisions /\ touched' = touched
      /\ failures' = failures /\ loading' = loading /\ writing' = writing
      /\ acts' = acts /\ faults' = faults
      /\ CommitIsDue(w) /\ operation[w] = "waiting"
  BY DEF CommitIsSubmitted, CommitIsDue, draftVars
<1>3. CounterTypes'
  BY <1>1, <1>2 DEF CounterTypes
<1>4. CASE /\ MaySubmit(w) /\ Len(commits) < MaxCommits
           /\ commits' = Append(commits, commit)
           /\ submission' = [submission EXCEPT ![w] = Len(commits) + 1]
           /\ operation' = [operation EXCEPT ![w] = "running"]
  <2>1. Names(drafts, revisions[w], texts[w])
    BY <1>2, <1>4, SubmittedIsNamed
  <2>2. revisions[w] \in Nat /\ revisions[w] # NoRevision /\ texts[w] \in AllTexts
    BY <1>1, <2>1, NamedIsText DEF ServerTypes
  <2>3. /\ commit \in CommitRecord /\ commit.revision = revisions[w]
        /\ commit.shown = texts[w] /\ commit.made = FALSE /\ commit.phase = "sent"
    BY <2>2, TextFacts DEF CommitRecord, Phases
  <2>4. CommitIsSound(drafts, commit)
    BY <2>1, <2>3 DEF CommitIsSound
  <2> HIDE DEF commit
  <2>5. /\ commits \in Seq(CommitRecord) /\ Len(commits) \in Nat
        /\ commits' \in Seq(CommitRecord)
        /\ DOMAIN commits = 1 .. Len(commits)
        /\ DOMAIN commits' = 1 .. Len(commits) + 1
        /\ commits'[Len(commits) + 1] = commit
        /\ \A j \in DOMAIN commits : commits'[j] = commits[j]
    BY <1>1, <1>4, <2>3, AppendFacts DEF ServerTypes
  <2>6. ServerTypes' /\ CommitsGoOn
    BY <1>1, <1>2, <2>5 DEF ServerTypes, CommitsGoOn
  <2>7. CommitsAreNamed'
    BY <1>1, <1>2, <2>4, <2>5 DEF CommitsAreNamed
  <2>8. /\ WindowTypes' /\ operation'[w] = "running"
        /\ submission'[w] = Len(commits) + 1
        /\ \A v \in Windows \ {w} :
              operation'[v] = operation[v] /\ submission'[v] = submission[v]
    BY <1>1, <1>2, <1>4, <2>5, BoundAssumption DEF WindowTypes
  <2>9. \A v \in Windows \ {w} : SameWindow(v)
    BY <1>2, <2>8 DEF SameWindow
  <2>10. KnowsRevision(w)' /\ SubmissionIsKnown(w)' /\ RestIsNamed(w)'
    BY <1>1, <1>2, <2>2, <2>5, <2>8
       DEF WindowInv, KnowsRevision, SubmissionIsKnown, RestIsNamed, AtRest
  <2>11. QED
    BY <1>2, <1>3, <2>6, <2>7, <2>8, <2>9, <2>10, WindowAndServerStep DEF WindowInv
<1>5. CASE /\ operation' = [operation EXCEPT ![w] = "none"]
           /\ commits' = commits /\ submission' = submission
  <2>1. /\ WindowTypes' /\ operation'[w] = "none"
        /\ \A v \in Windows \ {w} : operation'[v] = operation[v]
    BY <1>1, <1>2, <1>5 DEF WindowTypes
  <2>2. \A v \in Windows \ {w} : SameWindow(v)
    BY <1>2, <1>5, <2>1 DEF SameWindow
  <2>3. KnowsRevision(w)' /\ SubmissionIsKnown(w)' /\ RestIsNamed(w)'
    BY <1>1, <1>2, <1>5, <2>1
       DEF WindowInv, KnowsRevision, SubmissionIsKnown, SubmittedSteps, RestIsNamed, AtRest
  <2>4. UNCHANGED serverVars
    BY <1>2, <1>5 DEF serverVars
  <2>5. ServerTypes' /\ CommitsAreNamed' /\ CommitsGoOn
    BY <2>4, ServerStays
  <2>6. QED
    BY <1>2, <1>3, <2>1, <2>2, <2>3, <2>5, WindowAndServerStep DEF WindowInv
<1>6. QED
  BY <1>4, <1>5 DEF CommitIsSubmitted

(* The commit a window has an outcome of.                                    *)
LEMMA SubmissionFacts ==
    ASSUME DraftInv, NEW w \in Windows, operation[w] \in SubmittedSteps
    PROVE  /\ submission[w] \in DOMAIN commits
           /\ CommitIsSound(drafts, commits[submission[w]])
           /\ revisions[w] \in Nat /\ w \notin loading
  BY DraftInvFacts
     DEF WindowInv, SubmissionIsKnown, KnowsRevision, CommitsAreNamed, WindowTypes

LEMMA CommitAnsweredStep ==
    ASSUME DraftInv, NEW w \in Windows, CommitAnswered(w)
    PROVE  DraftInv'
<1>1. /\ WindowTypes /\ CallTypes /\ CounterTypes /\ AnswersAreDrafts /\ WindowInv(w)
  BY DraftInvFacts
<1>2. /\ UNCHANGED serverVars /\ drafts' = drafts /\ commits' = commits
      /\ touched' = touched /\ failures' = failures /\ loading' = loading
      /\ writing' = writing /\ calls' = calls /\ acts' = acts /\ faults' = faults
      /\ operation[w] = "running"
      /\ \/ /\ texts' = [texts EXCEPT ![w] = Empty]
            /\ revisions' = [revisions EXCEPT ![w] = @ + 1]
         \/ texts' = texts /\ revisions' = revisions
      /\ \/ /\ Outcome(w) = "unknown_outcome" /\ submission' = submission
            /\ operation' = [operation EXCEPT ![w] = "unknown"]
         \/ /\ operation' = [operation EXCEPT ![w] = "none"]
            /\ submission' = [submission EXCEPT ![w] = 0]
  BY DEF CommitAnswered, serverVars
<1>3. submission[w] \in DOMAIN commits /\ revisions[w] \in Nat /\ w \notin loading
  BY <1>2, SubmissionFacts DEF SubmittedSteps
<1>4. CallTypes' /\ AnswersAreDrafts' /\ CounterTypes'
  BY <1>1, <1>2 DEF CallTypes, AnswersAreDrafts, CounterTypes
<1>5. /\ texts' \in [Windows -> AllTexts]
      /\ revisions' \in [Windows -> Nat \cup {NoRevision}]
      /\ revisions'[w] \in Nat
      /\ texts'[w] = Empty \/ (texts'[w] = texts[w] /\ revisions'[w] = revisions[w])
      /\ \A v \in Windows \ {w} : texts'[v] = texts[v] /\ revisions'[v] = revisions[v]
  BY <1>1, <1>2, <1>3, TextFacts DEF WindowTypes
<1>6. /\ operation' \in [Windows -> {"none", "waiting", "running", "unknown",
                                     "recovering", "reloading", "reading"}]
      /\ submission' \in [Windows -> 0 .. MaxCommits]
      /\ \A v \in Windows \ {w} :
            operation'[v] = operation[v] /\ submission'[v] = submission[v]
      /\ \/ operation'[w] = "none"
         \/ /\ operation'[w] = "unknown" /\ submission'[w] = submission[w]
            /\ Outcome(w) = "unknown_outcome"
  BY <1>1, <1>2, BoundAssumption DEF WindowTypes
<1>7. WindowTypes'
  BY <1>1, <1>2, <1>5, <1>6 DEF WindowTypes
<1>8. \A v \in Windows \ {w} : SameWindow(v)
  BY <1>2, <1>5, <1>6 DEF SameWindow
<1>9. KnowsRevision(w)'
  BY <1>1, <1>2, <1>3, <1>5, <1>6, RevisionAssumption
     DEF WindowInv, KnowsRevision, SubmittedSteps
<1>10. SubmissionIsKnown(w)'
  BY <1>2, <1>3, <1>6 DEF SubmissionIsKnown, SubmittedSteps, Outcome
<1>11. RestIsNamed(w)'
  BY <1>1, <1>2, <1>3, <1>5, <1>6, RevisionAssumption DEF WindowInv, RestIsNamed, AtRest
<1>12. QED
  BY <1>2, <1>4, <1>7, <1>8, <1>9, <1>10, <1>11, WindowStep DEF WindowInv

LEMMA CommitIsLostStep ==
    ASSUME DraftInv, NEW w \in Windows, CommitIsLost(w)
    PROVE  DraftInv'
<1>1. /\ WindowTypes /\ CallTypes /\ CounterTypes /\ AnswersAreDrafts /\ WindowInv(w)
  BY DraftInvFacts
<1>2. /\ UNCHANGED serverVars /\ drafts' = drafts /\ commits' = commits
      /\ texts' = texts /\ revisions' = revisions /\ touched' = touched
      /\ failures' = failures /\ loading' = loading /\ writing' = writing
      /\ submission' = submission /\ calls' = calls /\ acts' = acts
      /\ operation[w] \in {"running", "recovering"}
      /\ faults < MaxFaults /\ faults' = faults + 1
      /\ operation' = [operation EXCEPT ![w] = "none"]
  BY DEF CommitIsLost, serverVars, draftVars
<1>3. CallTypes' /\ AnswersAreDrafts'
  BY <1>1, <1>2 DEF CallTypes, AnswersAreDrafts
<1>4. /\ WindowTypes' /\ operation'[w] = "none"
      /\ \A v \in Windows \ {w} : operation'[v] = operation[v]
  BY <1>1, <1>2 DEF WindowTypes
<1>5. CounterTypes'
  BY <1>1, <1>2, BoundAssumption DEF CounterTypes
<1>6. \A v \in Windows \ {w} : SameWindow(v)
  BY <1>2, <1>4 DEF SameWindow
<1>7. KnowsRevision(w)' /\ SubmissionIsKnown(w)' /\ RestIsNamed(w)'
  BY <1>1, <1>2, <1>4
     DEF WindowInv, KnowsRevision, SubmissionIsKnown, SubmittedSteps, RestIsNamed, AtRest
<1>8. QED
  BY <1>2, <1>3, <1>4, <1>5, <1>6, <1>7, WindowStep DEF WindowInv

(* A commit is looked at again once it was executed.                         *)
LEMMA RecoverCommitStep ==
    ASSUME DraftInv, NEW w \in Windows, RecoverCommit(w)
    PROVE  DraftInv'
<1>1. ServerTypes /\ WindowTypes /\ CallTypes /\ CounterTypes /\ WindowInv(w)
  BY DraftInvFacts
<1>2. /\ drafts' = drafts
      /\ texts' = texts /\ revisions' = revisions /\ touched' = touched
      /\ failures' = failures /\ loading' = loading /\ writing' = writing
      /\ submission' = submission /\ calls' = calls /\ faults' = faults
      /\ acts[w] < MaxActs(w) /\ acts' = [acts EXCEPT ![w] = @ + 1]
      /\ operation[w] = "unknown"
      /\ operation' = [operation EXCEPT ![w] = "recovering"]
      /\ commits' = [commits EXCEPT ![submission[w]].phase = "reconciling"]
  BY DEF RecoverCommit, draftVars
<1>3. PICK i \in DOMAIN commits : i = submission[w]
  BY <1>2, SubmissionFacts DEF SubmittedSteps
<1>4. CommitIsSound(drafts, commits[i]) /\ commits[i].phase \notin {"sent", "rejected"}
  BY <1>1, <1>2, <1>3, SubmissionFacts DEF SubmittedSteps, WindowInv, SubmissionIsKnown
<1>5. commits \in Seq(CommitRecord) /\ commits' = [commits EXCEPT ![i].phase = "reconciling"]
  BY <1>1, <1>2, <1>3 DEF ServerTypes
<1>6. /\ commits' \in Seq(CommitRecord) /\ DOMAIN commits' = DOMAIN commits
      /\ \A j \in DOMAIN commits : j # i => commits'[j] = commits[j]
      /\ commits'[i].phase = "reconciling"
      /\ commits'[i].revision = commits[i].revision
      /\ commits'[i].shown = commits[i].shown /\ commits'[i].made = commits[i].made
      /\ commits'[i].taken = commits[i].taken
  BY <1>5, PhaseNames, PhaseFacts
<1>7. CommitIsSound(drafts', commits'[i])
  BY <1>2, <1>4, <1>6 DEF CommitIsSound
<1>8. CommitGoesOn(i)
  BY <1>2, <1>6, <1>7 DEF CommitGoesOn
<1>9. ServerTypes' /\ CommitsAreNamed' /\ CommitsGoOn
  BY <1>1, <1>2, <1>8, DraftsStay, CommitStep
<1>10. /\ WindowTypes' /\ operation'[w] = "recovering"
       /\ \A v \in Windows \ {w} : operation'[v] = operation[v]
  BY <1>1, <1>2 DEF WindowTypes
<1>11. CounterTypes'
  BY <1>1, <1>2, BoundAssumption DEF CounterTypes
<1>12. \A v \in Windows \ {w} : SameWindow(v)
  BY <1>2, <1>10 DEF SameWindow
<1>13. KnowsRevision(w)' /\ SubmissionIsKnown(w)' /\ RestIsNamed(w)'
  BY <1>1, <1>2, <1>3, <1>6, <1>10
     DEF WindowInv, KnowsRevision, SubmissionIsKnown, SubmittedSteps, RestIsNamed, AtRest
<1>14. QED
  BY <1>2, <1>9, <1>10, <1>11, <1>12, <1>13, WindowAndServerStep DEF WindowInv

LEMMA CommitRecoveredStep ==
    ASSUME DraftInv, NEW w \in Windows, CommitRecovered(w)
    PROVE  DraftInv'
<1>1. /\ WindowTypes /\ CallTypes /\ CounterTypes /\ AnswersAreDrafts /\ WindowInv(w)
  BY DraftInvFacts
<1>2. /\ UNCHANGED serverVars /\ drafts' = drafts /\ commits' = commits
      /\ texts' = texts /\ revisions' = revisions
      /\ touched' = touched /\ failures' = failures /\ loading' = loading
      /\ writing' = writing /\ calls' = calls /\ acts' = acts /\ faults' = faults
      /\ operation[w] = "recovering"
      /\ \/ /\ Outcome(w) = "succeeded" /\ submission' = submission
            /\ operation' = [operation EXCEPT ![w] = "reloading"]
         \/ /\ Outcome(w) = "unknown_outcome" /\ submission' = submission
            /\ operation' = [operation EXCEPT ![w] = "unknown"]
         \/ /\ operation' = [operation EXCEPT ![w] = "none"]
            /\ submission' = [submission EXCEPT ![w] = 0]
  BY DEF CommitRecovered, serverVars, draftVars
<1>3. /\ submission[w] \in DOMAIN commits /\ revisions[w] \in Nat
      /\ CommitIsSound(drafts, commits[submission[w]])
  BY <1>2, SubmissionFacts DEF SubmittedSteps
<1>4. CallTypes' /\ AnswersAreDrafts' /\ CounterTypes'
  BY <1>1, <1>2 DEF CallTypes, AnswersAreDrafts, CounterTypes
<1>5. /\ operation' \in [Windows -> {"none", "waiting", "running", "unknown",
                                     "recovering", "reloading", "reading"}]
      /\ submission' \in [Windows -> 0 .. MaxCommits]
      /\ \A v \in Windows \ {w} :
            operation'[v] = operation[v] /\ submission'[v] = submission[v]
      /\ \/ operation'[w] = "none"
         \/ /\ operation'[w] = "unknown" /\ submission'[w] = submission[w]
            /\ Outcome(w) = "unknown_outcome"
         \/ /\ operation'[w] = "reloading" /\ submission'[w] = submission[w]
            /\ Outcome(w) = "succeeded"
  BY <1>1, <1>2, BoundAssumption DEF WindowTypes
<1>6. WindowTypes'
  BY <1>1, <1>2, <1>5 DEF WindowTypes
<1>7. \A v \in Windows \ {w} : SameWindow(v)
  BY <1>2, <1>5 DEF SameWindow
<1>8. KnowsRevision(w)' /\ RestIsNamed(w)'
  BY <1>1, <1>2, <1>3, <1>5, RevisionAssumption
     DEF WindowInv, KnowsRevision, SubmittedSteps, RestIsNamed, AtRest
<1>9. SubmissionIsKnown(w)'
  BY <1>2, <1>3, <1>5 DEF SubmissionIsKnown, SubmittedSteps, Outcome, CommitIsSound
<1>10. QED
  BY <1>2, <1>4, <1>6, <1>7, <1>8, <1>9, WindowStep DEF WindowInv

LEMMA ReconcileReadsStep ==
    ASSUME DraftInv, NEW w \in Windows, ReconcileReads(w)
    PROVE  DraftInv'
<1>1. /\ WindowTypes /\ CallTypes /\ CounterTypes /\ AnswersAreDrafts /\ WindowInv(w)
  BY DraftInvFacts
<1>2. /\ UNCHANGED serverVars /\ drafts' = drafts /\ commits' = commits
      /\ texts' = texts /\ revisions' = revisions /\ touched' = touched
      /\ failures' = failures /\ loading' = loading /\ writing' = writing
      /\ submission' = submission /\ acts' = acts /\ faults' = faults
      /\ operation[w] = "reloading"
      /\ operation' = [operation EXCEPT ![w] = "reading"]
      /\ Puts(w, "reconcile", Get(Empty))
  BY DEF ReconcileReads, ReconcileIsDue, serverVars, draftVars, Puts
<1>3. CallIsSound(drafts, Get(Empty)) /\ "reconcile" \in Purposes
  BY NewCallsAreSound, TextFacts DEF Purposes
<1>4. /\ CallTypes' /\ AnswersAreDrafts'
      /\ \A v \in Windows \ {w} : calls'[v]["reconcile"] = calls[v]["reconcile"]
  BY <1>1, <1>2, <1>3, CallPut, SoundCallPut
<1>5. /\ WindowTypes' /\ CounterTypes' /\ operation'[w] = "reading"
      /\ \A v \in Windows \ {w} : operation'[v] = operation[v]
  BY <1>1, <1>2 DEF WindowTypes, CounterTypes
<1>6. \A v \in Windows \ {w} : SameWindow(v)
  BY <1>2, <1>4, <1>5 DEF SameWindow
<1>7. KnowsRevision(w)' /\ SubmissionIsKnown(w)' /\ RestIsNamed(w)'
  BY <1>1, <1>2, <1>5
     DEF WindowInv, KnowsRevision, SubmissionIsKnown, SubmittedSteps, RestIsNamed, AtRest
<1>8. QED
  BY <1>2, <1>4, <1>5, <1>6, <1>7, WindowStep DEF WindowInv

(* The draft after a recovered commit is shown, or the text is written.      *)
LEMMA DraftReconciledStep ==
    ASSUME DraftInv, NEW w \in Windows, DraftReconciled(w)
    PROVE  DraftInv'
<1> DEFINE call == calls[w]["reconcile"]
           revision == call.draft.revision
           text == call.draft.text
<1>1. /\ WindowTypes /\ CallTypes /\ CounterTypes /\ AnswersAreDrafts /\ WindowInv(w)
  BY DraftInvFacts
<1>2. /\ UNCHANGED serverVars /\ drafts' = drafts /\ commits' = commits
      /\ loading' = loading /\ acts' = acts /\ faults' = faults
      /\ operation' = [operation EXCEPT ![w] = "none"]
      /\ submission' = [submission EXCEPT ![w] = 0]
      /\ Puts(w, "reconcile", NoCall) /\ failures' = failures
      /\ call.ask # "none"
      /\ \/ /\ texts' = texts /\ revisions' = revisions /\ touched' = touched
            /\ writing' = writing
         \/ /\ call.answer = "draft"
            /\ revisions' = [revisions EXCEPT ![w] = revision]
            /\ \/ /\ texts' = [texts EXCEPT ![w] = text]
                  /\ touched' = touched /\ writing' = writing
               \/ /\ texts' = texts /\ text = texts[w]
                  /\ touched' = touched /\ writing' = writing
               \/ /\ texts' = texts /\ touched' = touched \cup {w}
                  /\ QueueWrite(w)
  BY DEF DraftReconciled, Answered, serverVars, draftVars, Puts
<1>3. CallIsSound(drafts, NoCall) /\ "reconcile" \in Purposes
  BY NewCallsAreSound DEF Purposes
<1>4. /\ CallTypes' /\ AnswersAreDrafts' /\ calls'[w]["reconcile"] = NoCall
      /\ \A v \in Windows \ {w} : calls'[v]["reconcile"] = calls[v]["reconcile"]
  BY <1>1, <1>2, <1>3, CallPut, SoundCallPut
<1>5. operation[w] = "reading"
  BY <1>1, <1>2 DEF WindowInv, KnowsRevision
<1>6. revisions[w] \in Nat /\ w \notin loading
  BY <1>5, SubmissionFacts DEF SubmittedSteps
<1>7. /\ operation' \in [Windows -> {"none", "waiting", "running", "unknown",
                                     "recovering", "reloading", "reading"}]
      /\ submission' \in [Windows -> 0 .. MaxCommits]
      /\ operation'[w] = "none"
      /\ \A v \in Windows \ {w} :
            operation'[v] = operation[v] /\ submission'[v] = submission[v]
  BY <1>1, <1>2, BoundAssumption DEF WindowTypes
<1>8. CASE /\ texts' = texts /\ revisions' = revisions /\ touched' = touched
           /\ writing' = writing
  <2>1. WindowTypes' /\ CounterTypes'
    BY <1>1, <1>2, <1>7, <1>8 DEF WindowTypes, CounterTypes
  <2>2. \A v \in Windows \ {w} : SameWindow(v)
    BY <1>2, <1>4, <1>7, <1>8 DEF SameWindow
  <2>3. KnowsRevision(w)' /\ SubmissionIsKnown(w)' /\ RestIsNamed(w)'
    BY <1>1, <1>2, <1>4, <1>7, <1>8, CallFacts
       DEF WindowInv, KnowsRevision, SubmissionIsKnown, SubmittedSteps, RestIsNamed, AtRest
  <2>4. QED
    BY <1>2, <1>4, <2>1, <2>2, <2>3, WindowStep DEF WindowInv
<1>9. CASE /\ call.answer = "draft"
           /\ revisions' = [revisions EXCEPT ![w] = revision]
           /\ \/ /\ texts' = [texts EXCEPT ![w] = text]
                 /\ touched' = touched /\ writing' = writing
              \/ /\ texts' = texts /\ text = texts[w]
                 /\ touched' = touched /\ writing' = writing
              \/ /\ texts' = texts /\ touched' = touched \cup {w}
                 /\ QueueWrite(w)
  <2>1. /\ Names(drafts, revision, text) /\ revision \in Nat
        /\ revision # NoRevision /\ text \in AllTexts
    BY <1>2, <1>3, <1>9, WrittenDraft
  <2> HIDE DEF revision, text
  <2>2. /\ texts' \in [Windows -> AllTexts] /\ touched' \in SUBSET Windows
        /\ \A v \in Windows \ {w} : texts'[v] = texts[v]
    BY <1>1, <1>9, <2>1 DEF WindowTypes
  <2>3. /\ writing' \in [Windows -> {"idle", "load", "first", "current", "second"}]
        /\ \A v \in Windows \ {w} : writing'[v] = writing[v]
        /\ texts'[w] = text \/ writing'[w] # "idle"
    <3>1. CASE QueueWrite(w)
      BY <1>1, <3>1, QueueWriteFacts
    <3>2. CASE /\ writing' = writing
               /\ \/ texts' = [texts EXCEPT ![w] = text]
                  \/ texts' = texts /\ text = texts[w]
      BY <1>1, <3>2 DEF WindowTypes
    <3>3. QED
      BY <1>9, <3>1, <3>2
  <2>4. /\ revisions' \in [Windows -> Nat \cup {NoRevision}] /\ revisions'[w] = revision
        /\ \A v \in Windows \ {w} : revisions'[v] = revisions[v]
    BY <1>1, <1>9, <2>1 DEF WindowTypes
  <2>5. WindowTypes' /\ CounterTypes'
    BY <1>1, <1>2, <1>7, <2>2, <2>3, <2>4 DEF WindowTypes, CounterTypes
  <2>6. \A v \in Windows \ {w} : SameWindow(v)
    BY <1>2, <1>4, <1>7, <2>2, <2>3, <2>4 DEF SameWindow
  <2>7. KnowsRevision(w)' /\ SubmissionIsKnown(w)'
    BY <1>2, <1>4, <1>6, <1>7, <2>1, <2>4, CallFacts
       DEF KnowsRevision, SubmissionIsKnown, SubmittedSteps
  <2>8. RestIsNamed(w)'
    BY <1>2, <2>1, <2>3, <2>4 DEF RestIsNamed, AtRest
  <2>9. QED
    BY <1>2, <1>4, <2>5, <2>6, <2>7, <2>8, WindowStep DEF WindowInv
<1>10. QED
  BY <1>2, <1>8, <1>9

-----------------------------------------------------------------------------
(* The invariant.                                                            *)

LEMMA DraftInvStart ==
    Init => DraftInv
<1> SUFFICES ASSUME Init PROVE DraftInv
  OBVIOUS
<1>1. Empty \in AllTexts
  BY TextFacts
<1>2. drafts \in Seq(AllTexts) /\ drafts # <<>>
  BY <1>1 DEF Init
<1>3. TypeOK
  <2>1. commits \in Seq(CommitRecord)
    BY DEF Init
  <2>2. ServerTypes
    BY <1>2, <2>1 DEF ServerTypes
  <2>3. WindowTypes
    BY <1>1, BoundAssumption DEF Init, WindowTypes
  <2>4. calls = [w \in Windows |-> [purpose \in Purposes |-> NoCall]]
    BY DEF Init
  <2>5. \A w \in Windows :
          calls[w] = [purpose \in Purposes |-> NoCall]
          /\ [purpose \in Purposes |-> calls[w][purpose]] = [purpose \in Purposes |-> NoCall]
    BY <2>4
  <2>6. CallTypes
    BY <2>4, <2>5 DEF CallTypes
  <2>7. CounterTypes
    BY BoundAssumption DEF Init, CounterTypes
  <2>8. QED
    BY <2>2, <2>3, <2>6, <2>7, TypesGrouped
<1>4. \A w \in Windows, purpose \in Purposes : calls[w][purpose] = NoCall
  BY DEF Init
<1>5. AnswersAreDrafts
  BY <1>4, NewCallsAreSound DEF AnswersAreDrafts
<1>6. CommitsAreNamed
  BY DEF Init, CommitsAreNamed
<1>7. \A w \in Windows : WindowInv(w)
  BY <1>4, CallFacts
     DEF Init, WindowInv, KnowsRevision, RestIsNamed, SubmissionIsKnown, SubmittedSteps,
         AtRest, Purposes
<1>8. QED
  BY <1>3, <1>5, <1>6, <1>7 DEF DraftInv

LEMMA DraftInvStep ==
    ASSUME DraftInv, [Next]_vars
    PROVE  DraftInv'
<1>1. CASE UNCHANGED vars
  <2>1. /\ UNCHANGED serverVars /\ UNCHANGED windowVars /\ drafts' = drafts
        /\ calls' = calls /\ acts' = acts /\ faults' = faults
    BY <1>1 DEF vars, serverVars
  <2>2. CallTypes /\ CounterTypes /\ AnswersAreDrafts
    BY DraftInvFacts
  <2>3. CallTypes' /\ CounterTypes' /\ AnswersAreDrafts'
    BY <2>1, <2>2 DEF CallTypes, CounterTypes, AnswersAreDrafts
  <2>4. ServerTypes' /\ CommitsAreNamed' /\ CommitsGoOn /\ DraftsGoOn
    BY <2>1, ServerStays
  <2>5. QED
    BY <2>1, <2>3, <2>4, ServerStep
<1>2. ASSUME NEW w \in Windows, Continues(w) PROVE DraftInv'
  BY <1>2, WriteStartsStep, CommitIsSubmittedStep, ReconcileReadsStep DEF Continues
<1>3. ASSUME NEW w \in Windows, WriteAnswered(w) PROVE DraftInv'
  BY <1>3, WriteAcceptedStep, WriteRefusedStep, WriteTriedAgainStep, WriteFailedStep
     DEF WriteAnswered
<1>4. ASSUME NEW w \in Windows, OutcomeArrives(w) PROVE DraftInv'
  BY <1>4, CommitAnsweredStep, CommitRecoveredStep DEF OutcomeArrives
<1>5. ASSUME NEW w \in Windows, UserActs(w) PROVE DraftInv'
  <2>1. CASE SetCommitDraft(w)
    <3>1. PICK text \in (Texts(w) \cup {Empty}) \ {texts[w]} : Edit(w, text)
      BY <2>1 DEF SetCommitDraft
    <3>2. text \in AllTexts
      BY <3>1, TextFacts
    <3>3. QED
      BY <3>1, <3>2, EditStep
  <2>2. CASE ClearCommitDraft(w)
    BY <2>2, TextFacts, EditStep DEF ClearCommitDraft
  <2>3. QED
    BY <1>5, <2>1, <2>2, CommitClickedStep, RecoverCommitStep DEF UserActs
<1>6. CASE Proceeds
  BY <1>2, <1>3, <1>4, <1>6, LoadAnsweredStep, DraftReconciledStep, UpdateDraftStep,
     CommitExecutesStep, CommitSettlesStep DEF Proceeds
<1>7. QED
  BY <1>1, <1>5, <1>6, SourceChangesStep, CallIsLostStep, CommitIsLostStep DEF Next

(* Type correctness, and what the drafts, the windows, the calls under way   *)
(* and the commits know of each other, in every reachable state.             *)
THEOREM DraftInvariance ==
    Spec => []DraftInv
  BY DraftInvStart, DraftInvStep, PTL DEF Spec

(* The revision a window at rest holds names the text it shows.              *)
THEOREM ShownTextIsNamed ==
    Spec => []RevisionNamesShownText
<1>1. DraftInv => RevisionNamesShownText
  <2> SUFFICES ASSUME DraftInv, NEW w \in Windows, AtRest(w), texts[w] # Empty
               PROVE  /\ revisions[w] < Len(drafts)
                      /\ drafts[revisions[w] + 1] = texts[w]
    BY DEF RevisionNamesShownText
  <2>1. Names(drafts, revisions[w], texts[w]) /\ drafts \in Seq(AllTexts)
    BY DraftInvFacts DEF WindowInv, RestIsNamed, ServerTypes
  <2>2. QED
    BY <2>1 DEF Names
<1>2. QED
  BY <1>1, DraftInvariance, PTL

(* Git commits the text that the window showed when it sent the command.     *)
THEOREM ShownTextIsCommitted ==
    Spec => []CommitTakesShownText
<1>1. DraftInv => CommitTakesShownText
  BY DraftInvFacts DEF CommitTakesShownText, CommitsAreNamed, CommitIsSound
<1>2. QED
  BY <1>1, DraftInvariance, PTL

-----------------------------------------------------------------------------
(* What is taken from a user.                                                *)

TakenTextIsCommitted ==
    \A w \in touched : texts'[w] # texts[w] /\ acts' = acts => IsCommitted(texts[w])

ClearedDraftIsCommitted ==
    Len(drafts') > Len(drafts) /\ calls' = calls =>
        Current = Empty \/ IsCommitted(Current)

(* A commit that was made has taken what its window showed.                  *)
LEMMA ShownIsCommitted ==
    ASSUME DraftInv, NEW w \in Windows, operation[w] \in SubmittedSteps,
           commits[submission[w]].made, ShowsSubmission(w), commits' = commits
    PROVE  IsCommitted(texts[w])
<1>1. submission[w] \in DOMAIN commits /\ CommitIsSound(drafts, commits[submission[w]])
  BY SubmissionFacts
<1>2. commits[submission[w]].taken = texts[w]
  BY <1>1 DEF CommitIsSound, ShowsSubmission
<1>3. QED
  BY <1>1, <1>2 DEF IsCommitted

(* The text of a user changes by a key press, or after a commit of it.       *)
LEMMA TextIsTaken ==
    ASSUME DraftInv, Next
    PROVE  TakenTextIsCommitted
<1> SUFFICES ASSUME NEW w \in touched, texts'[w] # texts[w], acts' = acts
             PROVE  IsCommitted(texts[w])
  BY DEF TakenTextIsCommitted
<1>1. w \in Windows /\ WindowTypes /\ CounterTypes
  BY DraftInvFacts DEF WindowTypes
<1>2. ASSUME NEW v \in Windows, NEW text, Edit(v, text) PROVE FALSE
  BY <1>1, <1>2 DEF Edit, CounterTypes
<1>3. CASE \E v \in Windows : LoadAnswered(v)
  <2>1. PICK v \in Windows : LoadAnswered(v)
    BY <1>3
  <2>2. texts' = [texts EXCEPT ![v] = calls[v]["load"].draft.text] /\ v \notin touched
    BY <1>1, <2>1 DEF LoadAnswered
  <2>3. QED
    BY <1>1, <2>2 DEF WindowTypes
<1>4. CASE \E v \in Windows : CommitAnswered(v)
  <2>1. PICK v \in Windows : CommitAnswered(v)
    BY <1>4
  <2>2. /\ texts' = [texts EXCEPT ![v] = Empty] /\ commits' = commits
        /\ operation[v] = "running" /\ Outcome(v) = "succeeded" /\ ShowsSubmission(v)
    BY <2>1 DEF CommitAnswered, serverVars
  <2>3. v = w
    BY <1>1, <2>2 DEF WindowTypes
  <2>4. commits[submission[w]].made
    BY <2>2, <2>3, SubmissionFacts DEF SubmittedSteps, Outcome, CommitIsSound
  <2>5. QED
    BY <2>2, <2>3, <2>4, ShownIsCommitted DEF SubmittedSteps
<1>5. CASE \E v \in Windows : DraftReconciled(v)
  <2>1. PICK v \in Windows : DraftReconciled(v)
    BY <1>5
  <2>2. /\ texts' = [texts EXCEPT ![v] = calls[v]["reconcile"].draft.text]
        /\ commits' = commits /\ calls[v]["reconcile"].ask # "none" /\ ShowsSubmission(v)
    BY <2>1 DEF DraftReconciled, Answered, serverVars, draftVars
  <2>3. v = w
    BY <1>1, <2>2 DEF WindowTypes
  <2>4. operation[w] = "reading" /\ commits[submission[w]].made
    BY <2>2, <2>3, DraftInvFacts DEF WindowInv, KnowsRevision, SubmissionIsKnown
  <2>5. QED
    BY <2>2, <2>3, <2>4, ShownIsCommitted DEF SubmittedSteps
<1>6. ASSUME NEW v \in Windows, Continues(v) PROVE texts' = texts
  BY <1>6 DEF Continues, WriteStarts, CommitIsSubmitted, ReconcileReads, draftVars
<1>7. ASSUME NEW v \in Windows, WriteAnswered(v) PROVE texts' = texts
  BY <1>7 DEF WriteAnswered, WriteAccepted, WriteRefused, WriteTriedAgain, WriteFailed,
              draftVars
<1>8. ASSUME NEW v \in Windows, CommitRecovered(v) PROVE texts' = texts
  BY <1>8 DEF CommitRecovered, draftVars
<1>9. ASSUME NEW v \in Windows, NEW purpose \in Purposes,
              UpdateDraft(v, purpose) \/ CallIsLost(v, purpose)
       PROVE  texts' = texts
  BY <1>9 DEF UpdateDraft, CallIsLost, windowVars, draftVars
<1>10. ASSUME NEW i \in DOMAIN commits, CommitExecutes(i) \/ CommitSettles(i)
       PROVE  texts' = texts
  BY <1>10 DEF CommitExecutes, CommitSettles, windowVars, draftVars
<1>11. ASSUME NEW v \in Windows, UserActs(v) PROVE texts' = texts
  <2>1. CASE SetCommitDraft(v)
    BY <1>2, <2>1 DEF SetCommitDraft
  <2>2. CASE ClearCommitDraft(v)
    BY <1>2, <2>2 DEF ClearCommitDraft
  <2>3. CASE Commit(v) \/ RecoverCommit(v)
    BY <2>3 DEF Commit, RecoverCommit, draftVars
  <2>4. QED
    BY <1>11, <2>1, <2>2, <2>3 DEF UserActs
<1>12. ASSUME NEW v \in Windows, SourceChanges(v) \/ CommitIsLost(v) PROVE texts' = texts
  BY <1>12 DEF SourceChanges, CommitIsLost, draftVars
<1>13. CASE Proceeds
  BY <1>3, <1>4, <1>5, <1>6, <1>7, <1>8, <1>9, <1>10, <1>13 DEF Proceeds, OutcomeArrives
<1>14. QED
  BY <1>9, <1>11, <1>12, <1>13 DEF Next

(* The server empties a draft after a verified commit of it.                 *)
LEMMA DraftIsCleared ==
    ASSUME DraftInv, Next
    PROVE  ClearedDraftIsCommitted
<1> SUFFICES ASSUME Len(drafts') > Len(drafts), calls' = calls
             PROVE  Current = Empty \/ IsCommitted(Current)
  BY DEF ClearedDraftIsCommitted
<1>1. ServerTypes /\ CallTypes /\ AnswersAreDrafts /\ CommitsAreNamed
  BY DraftInvFacts
<1>2. drafts' # drafts
  BY <1>1 DEF ServerTypes
<1>3. ASSUME NEW w \in Windows, NEW purpose \in Purposes, UpdateDraft(w, purpose)
      PROVE  FALSE
  <2> DEFINE call == calls[w][purpose]
             drafted == WithDraft(call, Len(drafts') - 1, drafts'[Len(drafts')])
             answered == IF call.ask = "get" \/ Takes(call)
                         THEN drafted ELSE WithFailure(call)
  <2>1. Puts(w, purpose, answered) /\ call.answer = "none"
    BY <1>3 DEF UpdateDraft, Puts
  <2>2. answered.answer # "none"
    BY CallFacts
  <2> HIDE DEF answered
  <2>3. calls'[w][purpose] = answered
    BY <1>1, <2>1, CallPut
  <2>4. QED
    BY <2>1, <2>2, <2>3
<1>4. ASSUME NEW i \in DOMAIN commits, CommitSettles(i)
      PROVE  IsCommitted(Current)
  <2> DEFINE half == [commits EXCEPT ![i].phase = "succeeded"]
  <2>1. /\ CommitClears(commits[i]) /\ commits[i].phase \in {"executing", "reconciling"}
        /\ commits' = [commits EXCEPT ![i].phase = "succeeded", ![i].made = TRUE]
    BY <1>2, <1>4 DEF CommitSettles
  <2>2. commits' = [half EXCEPT ![i].made = TRUE]
    BY <2>1
  <2>3. half \in Seq(CommitRecord) /\ DOMAIN half = DOMAIN commits
        /\ half[i].taken = commits[i].taken
    BY <1>1, PhaseNames, PhaseFacts DEF ServerTypes
  <2> HIDE DEF half
  <2>4. DOMAIN commits' = DOMAIN half /\ commits'[i].made = TRUE
        /\ commits'[i].taken = half[i].taken
    BY <2>2, <2>3, MadeFacts
  <2>5. commits[i].revision = Revision
    BY <1>2, <2>1 DEF CommitClears
  <2>6. commits[i].taken = commits[i].shown /\ Names(drafts, commits[i].revision, commits[i].shown)
    BY <1>1, <2>1 DEF CommitsAreNamed, CommitIsSound
  <2>7. Current = commits[i].taken
    BY <1>1, <2>5, <2>6 DEF Names, Revision, Current, ServerTypes
  <2>8. QED
    BY <2>3, <2>4, <2>7 DEF IsCommitted
<1>5. ASSUME NEW i \in DOMAIN commits, CommitExecutes(i) PROVE FALSE
  BY <1>2, <1>5 DEF CommitExecutes
<1>6. ASSUME NEW w \in Windows, Continues(w) \/ WriteAnswered(w) \/ OutcomeArrives(w)
      PROVE  FALSE
  BY <1>2, <1>6 DEF Continues, WriteStarts, CommitIsSubmitted, ReconcileReads, WriteAnswered,
     WriteAccepted, WriteRefused, WriteTriedAgain, WriteFailed, OutcomeArrives,
     CommitAnswered, CommitRecovered, serverVars
<1>7. ASSUME NEW w \in Windows,
             LoadAnswered(w) \/ DraftReconciled(w) \/ SourceChanges(w) \/ CommitIsLost(w)
      PROVE  FALSE
  BY <1>2, <1>7 DEF LoadAnswered, DraftReconciled, SourceChanges, CommitIsLost, serverVars
<1>8. ASSUME NEW w \in Windows, UserActs(w) PROVE FALSE
  BY <1>2, <1>8 DEF UserActs, SetCommitDraft, ClearCommitDraft, Edit, Commit, RecoverCommit,
     serverVars
<1>9. ASSUME NEW w \in Windows, NEW purpose \in Purposes, CallIsLost(w, purpose)
      PROVE  FALSE
  BY <1>2, <1>9 DEF CallIsLost, serverVars
<1>10. CASE Proceeds
  BY <1>3, <1>4, <1>5, <1>6, <1>7, <1>10 DEF Proceeds
<1>11. QED
  BY <1>7, <1>8, <1>9, <1>10 DEF Next

(* A text the user has edited is taken from a window, and a draft from the   *)
(* server, only if a commit has it.                                          *)
THEOREM NoTextIsLost ==
    Spec => OnlyCommittedTextIsTaken
<1>1. DraftInv /\ [Next]_vars => [TakenTextIsCommitted /\ ClearedDraftIsCommitted]_vars
  BY TextIsTaken, DraftIsCleared
<1>2. QED
  BY <1>1, DraftInvariance, PTL
     DEF Spec, OnlyCommittedTextIsTaken, TakenTextIsCommitted, ClearedDraftIsCommitted
=============================================================================
