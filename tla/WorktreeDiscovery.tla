--------------------------- MODULE WorktreeDiscovery ---------------------------
(* How the engine finds the worktrees of a repository and gives them ids     *)
(* (repository-engine.ts): each full read lists the registrations, resolves  *)
(* each to its directories, and carries the id of a worktree over only while *)
(* the directories are provably the same; a read of single worktrees reuses  *)
(* the topology found last.  Other programs remove, move and re-create       *)
(* worktrees and replace the repository between any two steps of a read.     *)
(*                                                                           *)
(* A directory is identified by its device, inode and birth time, which are  *)
(* one incarnation number here: a directory created anew has a fresh one.    *)
EXTENDS Naturals, FiniteSets

CONSTANTS
    Main,       \* the path of the main worktree
    Linked,     \* the paths of the linked worktrees
    MaxReads,   \* bound: reads of a session
    MaxActive,  \* bound: reads under way at a time
    MaxChanges  \* bound: changes of the repository by other programs

ASSUME MainAssumption == Main \notin Linked
ASSUME ReadAssumption == MaxReads \in Nat /\ MaxChanges \in Nat

VARIABLES
    repository,   \* incarnation of the common Git directory
    admin,        \* admin[p]: that of the Git directory registered for p
    directory,    \* directory[p]: that of the working tree at p
    link,         \* link[p]: the Git directory its .git file names
    aside,        \* admin of the opened repository while another is in its place
    undone,       \* repositories that were put in its place and taken away again
    changes,      \* steps of other programs so far: also the next incarnation
    status,       \* the session: open or invalid
    generations,  \* generations[p]: the identity the session keeps for p
    discovered,   \* observedDiscovery: the topology found last
    published,    \* the topology in the snapshot published last
    reads,        \* reads[n]: the n-th read
    latest,       \* the number of the read that began last
    mutation      \* a command on a worktree

world == <<repository, admin, directory, link, aside, undone, changes>>
session == <<status, generations, discovered, published>>
discoveryVars == <<world, session, reads, latest, mutation>>

Paths == Linked \cup {Main}
Anchor == 1                  \* the incarnation that was opened
Incarnations == 0 .. MaxChanges + 1     \* 0: there is none
ReadIds == 1 .. MaxReads

-----------------------------------------------------------------------------
(* Evidence and identity.                                                    *)

(* What names a Git directory: its path and its incarnation.                 *)
CommonDirectory(incarnation) == [path |-> Main, incarnation |-> incarnation]
AdminDirectory(p, incarnation) == [path |-> p, incarnation |-> incarnation]
Nowhere == [path |-> Main, incarnation |-> 0]
Elsewhere == [path |-> Main, incarnation |-> 0]   \* none of this path's
Links == {"own", "common", "elsewhere"}
GitDirectories == [path : Paths, incarnation : Incarnations]

(* An unavailable worktree has evidence that other registrations of the same *)
(* path may share: it names neither directory.                               *)
Unavailable == [directory |-> 0, git |-> Nowhere]
Evidence == [directory : Incarnations, git : GitDirectories]

(* An identity: the id stands for worktree id and generation, which are      *)
(* always issued together, by one read for one path.                         *)
Issue(n, p, evidence) == [id |-> <<n, p>>, evidence |-> evidence]
Unknown == [id |-> <<0, Main>>, evidence |-> Unavailable]
Identities == [id : (0 .. MaxReads) \X Paths, evidence : Evidence]

(* What a discovery says of one registered path; registered is the           *)
(* incarnation of the registration it is about, which the code cannot see.   *)
Absent == [identity |-> Unknown, available |-> FALSE, registered |-> Nowhere]
Nothing == [p \in Paths |-> Absent]
NoDiscovery == [worktrees |-> Nothing, seen |-> {}]

-----------------------------------------------------------------------------
(* Reads.                                                                    *)

NotFound == [step |-> "list", directory |-> 0, git |-> Nowhere,
             prunable |-> FALSE, registered |-> Nowhere]
NoRead == [step |-> "none", reuses |-> FALSE, known |-> [p \in Paths |-> Unknown],
           found |-> [p \in Paths |-> NotFound], result |-> NoDiscovery,
           seen |-> {}]

NoMutation == [step |-> "none"]

DiscoveryInit ==
    /\ repository = Anchor
    /\ admin = [p \in Linked |-> 1]
    /\ directory = [p \in Paths |-> 1]
    /\ link = [p \in Linked |-> "own"]
    /\ aside = admin
    /\ undone = {}
    /\ changes = 0
    /\ status = "open"
    /\ generations = [p \in Paths |-> Unknown]
    /\ discovered = NoDiscovery
    /\ published = NoDiscovery
    /\ reads = [n \in ReadIds |-> NoRead]
    /\ latest = 0
    /\ mutation = NoMutation

Findings ==
    [step : {"list", "absent", "stat", "git", "backlink", "stat_git",
             "unavailable", "resolved"},
     directory : Incarnations, git : GitDirectories, prunable : BOOLEAN,
     registered : GitDirectories]
Topologies ==
    [worktrees : [Paths -> [identity : Identities, available : BOOLEAN,
                            registered : GitDirectories]],
     seen : SUBSET Incarnations]
Reads ==
    [step : {"none", "check", "list", "resolve", "observe", "ended"},
     reuses : BOOLEAN, known : [Paths -> Identities],
     found : [Paths -> Findings], result : Topologies, seen : SUBSET Incarnations]

DiscoveryTypeOK ==
    /\ repository \in Incarnations /\ changes \in 0 .. MaxChanges
    /\ admin \in [Linked -> Incarnations]
    /\ directory \in [Paths -> Incarnations]
    /\ link \in [Linked -> Links]
    /\ aside \in [Linked -> Incarnations] /\ undone \subseteq Incarnations
    /\ status \in {"open", "invalid"}
    /\ generations \in [Paths -> Identities]
    /\ discovered \in Topologies /\ published \in Topologies
    /\ reads \in [ReadIds -> Reads]
    /\ latest \in 0 .. MaxReads
    /\ \A n \in ReadIds : n > latest => reads[n] = NoRead

(* beginSnapshot: a read copies the identities; one of single worktrees      *)
(* takes the topology found last and discovers nothing.                      *)
Active == {n \in ReadIds : reads[n].step \notin {"none", "ended"}}

BeginRead(scoped) ==
    /\ status = "open"
    /\ latest < MaxReads /\ Cardinality(Active) < MaxActive
    /\ latest' = latest + 1
    /\ LET reuses == scoped /\ discovered # NoDiscovery IN
        reads' = [reads EXCEPT ![latest + 1] =
            [NoRead EXCEPT
                !.step = IF reuses THEN "observe" ELSE "check",
                !.reuses = reuses,
                !.known = generations,
                !.result = IF reuses THEN discovered ELSE NoDiscovery]]
    /\ UNCHANGED <<world, session, mutation>>

Ended == [NoRead EXCEPT !.step = "ended"]

At(n, step) == reads[n].step = step
Goes(n, step) == reads' = [reads EXCEPT ![n].step = step]

(* assertRepositoryContinuity: the common directory is no longer the one     *)
(* that was opened, so the session and all its ids are void.                 *)
Replaced == repository # Anchor

(* assertSessionGeneration: another read found that out.  (Closing the       *)
(* session, which ends reads in the same way, is part of                     *)
(* RepositoryPublication.)                                                   *)
Ends(n) ==
    /\ reads' = [reads EXCEPT ![n] = Ended]
    /\ UNCHANGED <<world, session, latest, mutation>>

Revoke(n) ==
    /\ status' = "invalid"
    /\ generations' = [p \in Paths |-> Unknown]
    /\ reads' = [reads EXCEPT ![n] = Ended]
    /\ UNCHANGED <<world, discovered, published, latest, mutation>>

SessionEnded(n) ==
    /\ reads[n].step \notin {"none", "ended"}
    /\ status # "open"
    /\ Ends(n)

(* A Git read or a file system call fails, or the read is aborted.           *)
ReadFails(n) ==
    /\ reads[n].step \notin {"none", "ended"}
    /\ status = "open"
    /\ Ends(n)

CheckRepository(n) ==
    /\ At(n, "check") /\ status = "open"
    /\ \/ Replaced /\ Revoke(n)
       \/ /\ ~Replaced
          /\ Goes(n, "list")
          /\ UNCHANGED <<world, session, latest, mutation>>

(* git worktree list: the registered paths, and those Git would prune.       *)
(* Nobody moves the main working tree or its .git here, so of its resolution *)
(* only the identity of the common directory is left to be read.             *)
Registered(p) == p # Main => admin[p] # 0

Lists(p) ==
    IF ~Registered(p) THEN [NotFound EXCEPT !.step = "absent"]
    ELSE [NotFound EXCEPT
            !.step = IF p = Main THEN "stat_git" ELSE "stat",
            !.directory = IF p = Main THEN directory[p] ELSE 0,
            !.prunable = directory[p] = 0,
            !.registered = IF p = Main THEN CommonDirectory(repository)
                           ELSE AdminDirectory(p, admin[p])]

ListWorktrees(n) ==
    /\ At(n, "list") /\ status = "open"
    /\ reads' = [reads EXCEPT ![n] = [@ EXCEPT
          !.step = "resolve",
          !.seen = {repository},
          !.found = [p \in Paths |-> Lists(p)]]]
    /\ UNCHANGED <<world, session, latest, mutation>>

(* What a read finds out about one worktree next.                            *)
Finds(n, p, finding) ==
    /\ reads' = [reads EXCEPT ![n] =
          [@ EXCEPT !.found[p] = finding, !.seen = reads[n].seen \cup {repository}]]
    /\ UNCHANGED <<world, session, latest, mutation>>

Resolving(n, p, step) == At(n, "resolve") /\ reads[n].found[p].step = step
GoesOnAt(n, p, step) == [reads[n].found[p] EXCEPT !.step = step]

(* canonicalizeRegistration, one read of Git or of the file system after the *)
(* other.  First the working tree directory,                                 *)
StatDirectory(n, p) ==
    /\ Resolving(n, p, "stat")
    /\ Finds(n, p, [GoesOnAt(n, p, IF directory[p] = 0 THEN "unavailable" ELSE "git")
                     EXCEPT !.directory = directory[p]])

(* then the Git directory that its .git file names: the common directory, or *)
(* one that must link back to this path.  The check of the common directory  *)
(* is taken together with that of the backlink: both only refuse.            *)
LinkedPath(p) == IF p # Main /\ link[p] = "own" THEN p ELSE Main

Resolvable(p) ==
    /\ directory[p] # 0
    /\ LinkedPath(p) = p => Registered(p)

ReadGitDirectory(n, p) ==
    /\ Resolving(n, p, "git")
    /\ Finds(n, p,
          IF ~Resolvable(p) THEN GoesOnAt(n, p, "unavailable")
          ELSE [GoesOnAt(n, p, IF link[p] = "common" THEN "stat_git" ELSE "backlink")
                EXCEPT !.git = [path |-> LinkedPath(p), incarnation |-> 0]])

(* assertWorktreeAdminBacklink: a Git directory of this path, both ends of   *)
(* the link are still there.                                                 *)
LinksBack(n, p) ==
    /\ reads[n].found[p].git.path = p
    /\ admin[p] # 0 /\ directory[p] # 0

ReadBacklink(n, p) ==
    /\ Resolving(n, p, "backlink")
    /\ Finds(n, p, GoesOnAt(n, p, IF LinksBack(n, p) THEN "stat_git" ELSE "unavailable"))

(* Last the identity of that Git directory.                                  *)
IncarnationAt(path) == IF path = Main THEN repository ELSE admin[path]

StatGitDirectory(n, p) ==
    /\ Resolving(n, p, "stat_git")
    /\ LET now == IncarnationAt(reads[n].found[p].git.path) IN
        Finds(n, p, [GoesOnAt(n, p, IF now = 0 THEN "unavailable" ELSE "resolved")
                     EXCEPT !.git.incarnation = now])

(* rejectDuplicateAdminIdentities: two registrations with one Git directory. *)
Duplicate(found, p) ==
    \E q \in Paths \ {p} :
        found[q].step = "resolved" /\ found[q].git = found[p].git

Resolved(found, p) == found[p].step = "resolved" /\ ~Duplicate(found, p)

EvidenceOf(found, p) ==
    IF Resolved(found, p)
    THEN [directory |-> found[p].directory, git |-> found[p].git]
    ELSE Unavailable

ContinuousByEvidence(n, p) ==    \* mutant: missing worktrees keep their id too
    /\ reads[n].known[p].id # Unknown.id
    /\ reads[n].known[p].evidence = EvidenceOf(reads[n].found, p)

(* An id is carried over while the evidence is the same and names the        *)
(* directories: that of a missing worktree proves nothing.                   *)
Continuous(n, p) ==
    /\ Resolved(reads[n].found, p) /\ ~reads[n].found[p].prunable
    /\ reads[n].known[p].id # Unknown.id
    /\ reads[n].known[p].evidence = EvidenceOf(reads[n].found, p)

Discovers(n, p) ==
    LET found == reads[n].found IN
    [identity |-> IF Continuous(n, p) THEN reads[n].known[p]
                  ELSE Issue(n, p, EvidenceOf(found, p)),
     available |-> Resolved(found, p) /\ ~found[p].prunable,
     registered |-> IF Resolved(found, p) THEN found[p].git
                    ELSE found[p].registered]

Discovery(n) ==
    [worktrees |-> [p \in Paths |-> IF reads[n].found[p].step = "absent"
                                    THEN Absent ELSE Discovers(n, p)],
     seen |-> reads[n].seen]

AllResolved(n) ==
    /\ At(n, "resolve") /\ status = "open"
    /\ \A p \in Paths :
         reads[n].found[p].step \in {"absent", "unavailable", "resolved"}

Discovered(n) ==
    /\ reads' = [reads EXCEPT ![n] = [@ EXCEPT !.step = "observe",
                                              !.result = Discovery(n),
                                              !.found = [p \in Paths |-> NotFound]]]
    /\ UNCHANGED <<world, session, latest, mutation>>

CheckOnce(n) ==                  \* mutant: continuity is checked at the start only
    /\ AllResolved(n)
    /\ Discovered(n)

(* The continuity of the repository is checked again before ids are given.   *)
CheckAgain(n) ==
    /\ AllResolved(n)
    /\ \/ Replaced /\ Revoke(n)
       \/ /\ ~Replaced
          /\ Discovered(n)

(* The observation is made and the snapshot published, unless a later read   *)
(* has begun; only then does a discovery become the session's topology.      *)
Commit(n) ==
    IF reads[n].reuses
    THEN UNCHANGED <<generations, discovered>>
    ELSE /\ generations' =
              [p \in Paths |-> reads[n].result.worktrees[p].identity]
         /\ discovered' = reads[n].result

Overtaken(n) == latest # n

EndRead(n) ==
    /\ At(n, "observe") /\ status = "open"
    /\ reads' = [reads EXCEPT ![n] = Ended]
    /\ \/ /\ Overtaken(n)
          /\ UNCHANGED <<generations, discovered, published>>
       \/ /\ ~Overtaken(n)
          /\ Commit(n)
          /\ published' = reads[n].result
    /\ UNCHANGED <<world, status, latest, mutation>>

-----------------------------------------------------------------------------
(* A command on the files of a worktree: the window names it by an id it was *)
(* shown.  The session looks that id up in what is published, inspects the   *)
(* directories once as a baseline and again for each file, and then runs Git *)
(* at the path.  Every one of these is a step of its own.                    *)

BeginMutation ==
    /\ mutation.step = "none"
    /\ \E p \in Paths :
        /\ published.worktrees[p].available
        /\ mutation' = [step |-> "begun", path |-> p,
                        shown |-> published.worktrees[p].identity]
    /\ UNCHANGED <<world, session, reads, latest>>

Commands(next) ==
    /\ mutation' = next
    /\ UNCHANGED <<world, session, reads, latest>>

MutationEnds == Commands([step |-> "ended"])

(* An inspection under way; since when it is, is kept for the properties.    *)
InspectsFrom(step, target, agreed, since, attempted) ==
    Commands([step |-> step, path |-> mutation.path, shown |-> mutation.shown,
              target |-> target, agreed |-> agreed, since |-> since,
              attempted |-> attempted])

Inspects(step, target, attempted) ==
    InspectsFrom(step, target, {}, changes, attempted)

Pieces == {"common", "directory", "git"}

TrustRefresh ==                  \* mutant: what was refreshed is not inspected
    /\ mutation.step = "begun"
    /\ LET now == published.worktrees[mutation.path] IN
        IF /\ status = "open" /\ now.available
           /\ now.identity.id = mutation.shown.id
        THEN InspectsFrom("file", now.identity.evidence, Pieces, changes, FALSE)
        ELSE MutationEnds

(* The identity of the id in the snapshot a refresh answered with: it, and   *)
(* not what the window saw, is what the directories are compared with.       *)
LookUpTarget ==
    /\ mutation.step = "begun"
    /\ LET now == published.worktrees[mutation.path] IN
        IF /\ status = "open" /\ now.available
           /\ now.identity.id = mutation.shown.id
        THEN Inspects("baseline", now.identity.evidence, FALSE)
        ELSE MutationEnds

(* Inspections agree piece by piece: the paths Git gives (among them that of *)
(* the Git directory, which must be registered) and then, in any order, the  *)
(* identities of what is at those paths.                                     *)
Inspecting == mutation.step \in {"baseline", "file"}

Expected(piece) ==
    CASE piece = "common" -> Anchor
      [] piece = "directory" -> mutation.target.directory
      [] piece = "git" -> mutation.target.git.incarnation

There(piece) ==
    CASE piece = "common" -> repository
      [] piece = "directory" -> directory[mutation.path]
      [] piece = "git" -> IncarnationAt(mutation.target.git.path)

PathsAgree(p) ==
    /\ Registered(p) /\ directory[p] # 0
    /\ p # Main => link[p] # "elsewhere"
    /\ LinkedPath(p) = mutation.target.git.path

Agrees(pieces) ==
    InspectsFrom(mutation.step, mutation.target, mutation.agreed \cup pieces,
                 mutation.since, mutation.attempted)

ReadGitPaths ==
    /\ Inspecting /\ "paths" \notin mutation.agreed
    /\ PathsAgree(mutation.path)
    /\ Agrees({"paths"})

StatPiece(piece) ==
    /\ Inspecting /\ "paths" \in mutation.agreed /\ piece \notin mutation.agreed
    /\ There(piece) = Expected(piece)
    /\ Agrees({piece})

(* An inspection that does not agree (also: on a file, or with a lock), or a *)
(* Git read that fails, ends a command that has attempted nothing; later it  *)
(* costs one file.                                                           *)
NextFile ==
    \/ Inspects("file", mutation.target, TRUE)
    \/ MutationEnds

InspectionRefuses ==
    /\ Inspecting
    /\ IF mutation.attempted THEN NextFile ELSE MutationEnds

EndBaseline ==
    /\ mutation.step = "baseline" /\ Pieces \subseteq mutation.agreed
    /\ Inspects("file", mutation.target, FALSE)

(* Git is started for the file: it runs in what is at the path by then.      *)
Places(p) ==
    [common |-> repository, directory |-> directory[p],
     git |-> IF p # Main /\ link[p] = "elsewhere" THEN Elsewhere
             ELSE [path |-> LinkedPath(p), incarnation |-> IncarnationAt(LinkedPath(p))]]

StartGit ==
    /\ mutation.step = "file" /\ Pieces \subseteq mutation.agreed
    /\ IF Resolvable(mutation.path)
       THEN Commands([step |-> "running", path |-> mutation.path,
                      shown |-> mutation.shown, target |-> mutation.target,
                      since |-> mutation.since, ran |-> Places(mutation.path),
                      ranAt |-> changes])
       ELSE NextFile

GitEnds ==
    /\ mutation.step = "running"
    /\ NextFile

MutationNext ==
    \/ BeginMutation \/ LookUpTarget
    \/ ReadGitPaths \/ \E piece \in Pieces : StatPiece(piece)
    \/ InspectionRefuses \/ EndBaseline
    \/ StartGit \/ GitEnds

-----------------------------------------------------------------------------
(* Other programs.                                                           *)

Fresh == changes + 2
(* What they do after the session has ended matters to a command only.       *)
Change ==
    /\ changes < MaxChanges /\ (status = "open" \/ Inspecting)
    /\ changes' = changes + 1
Untouched == UNCHANGED <<session, reads, latest, mutation>>

(* git worktree add: both directories are new.                               *)
AddWorktree(p) ==
    /\ Change /\ admin[p] = 0
    /\ admin' = [admin EXCEPT ![p] = Fresh]
    /\ directory' = [directory EXCEPT ![p] = Fresh]
    /\ link' = [link EXCEPT ![p] = "own"]
    /\ UNCHANGED <<repository, aside, undone>> /\ Untouched

(* git worktree remove, and git worktree prune for one that is missing.      *)
RemoveWorktree(p) ==
    /\ Change /\ admin[p] # 0
    /\ admin' = [admin EXCEPT ![p] = 0]
    /\ directory' = [directory EXCEPT ![p] = 0]
    /\ UNCHANGED <<repository, link, aside, undone>> /\ Untouched

(* A working tree is removed and added again.                                *)
RecreateWorktree(p) ==
    /\ Change /\ admin[p] # 0
    /\ admin' = [admin EXCEPT ![p] = Fresh]
    /\ \E d \in {0, Fresh} : directory' = [directory EXCEPT ![p] = d]
    /\ link' = [link EXCEPT ![p] = "own"]
    /\ UNCHANGED <<repository, aside, undone>> /\ Untouched

(* A directory is moved away, moved back, or another one is put there.       *)
MoveDirectory(p) ==
    /\ Change
    /\ \E d \in {0, 1, Fresh} :
        /\ d # directory[p]
        /\ directory' = [directory EXCEPT ![p] = d]
    /\ UNCHANGED <<repository, admin, link, aside, undone>> /\ Untouched

(* The .git file of a linked worktree is made to name the common directory,  *)
(* or the Git directory of another worktree or repository.                   *)
RedirectWorktree(p) ==
    /\ Change /\ directory[p] # 0 /\ link[p] = "own"
    /\ \E l \in Links \ {"own"} : link' = [link EXCEPT ![p] = l]
    /\ UNCHANGED <<repository, admin, directory, aside, undone>> /\ Untouched

(* The whole repository is replaced at its path, and may be put back.        *)
ReplaceRepository ==
    /\ Change
    /\ repository' = Fresh
    /\ \E kept \in SUBSET Linked :
        admin' = [p \in Linked |-> IF p \in kept THEN Fresh ELSE 0]
    /\ IF repository = Anchor
       THEN aside' = admin /\ UNCHANGED undone
       ELSE undone' = undone \cup {repository} /\ UNCHANGED aside
    /\ UNCHANGED <<directory, link>> /\ Untouched

RestoreRepository ==
    /\ Change /\ repository # Anchor
    /\ repository' = Anchor
    /\ admin' = aside
    /\ undone' = undone \cup {repository}
    /\ UNCHANGED <<directory, link, aside>> /\ Untouched

OthersChange ==
    \/ \E p \in Linked :
        \/ AddWorktree(p) \/ RemoveWorktree(p) \/ RecreateWorktree(p)
        \/ MoveDirectory(p) \/ RedirectWorktree(p)
    \/ ReplaceRepository \/ RestoreRepository

DiscoveryNext ==
    \/ \E scoped \in BOOLEAN : BeginRead(scoped)
    \/ \E n \in ReadIds :
        \/ CheckRepository(n) \/ ListWorktrees(n)
        \/ \E p \in Paths :
            \/ StatDirectory(n, p) \/ ReadGitDirectory(n, p)
            \/ ReadBacklink(n, p) \/ StatGitDirectory(n, p)
        \/ CheckAgain(n) \/ EndRead(n)
        \/ SessionEnded(n) \/ ReadFails(n)
    \/ MutationNext
    \/ OthersChange

DiscoverySpec == DiscoveryInit /\ [][DiscoveryNext]_discoveryVars

-----------------------------------------------------------------------------
(* Properties.                                                               *)

Listed(topology, p) == topology.worktrees[p] # Absent
IdAt(topology, p) == topology.worktrees[p].identity.id
EvidenceAt(topology, p) == topology.worktrees[p].identity.evidence

(* From one published topology to the next, an id stays with a registration: *)
(* it is never carried over to a worktree that was re-created at the same    *)
(* path, missing in between or not, and an available worktree whose          *)
(* directories are the same keeps its id, so that what a window has selected *)
(* stays addressable.  Reads that began before, failed or were overtaken do  *)
(* not matter (repository-engine.ts:352-370).                                *)
IdsFollowRegistrations ==
    [][published' # published =>
        \A p \in Paths : Listed(published, p) /\ Listed(published', p) =>
            /\ IdAt(published', p) = IdAt(published, p) =>
                 /\ published'.worktrees[p].registered
                      = published.worktrees[p].registered
                 /\ EvidenceAt(published', p) = EvidenceAt(published, p)
            /\ /\ published'.worktrees[p].available
               /\ EvidenceAt(published', p) = EvidenceAt(published, p)
               => IdAt(published', p) = IdAt(published, p)]_discoveryVars

(* The topology that is published is of one repository: whatever was listed  *)
(* or resolved for it in another had been taken away again, and the opened   *)
(* one put back, before the read checked for the second time.  A replacement *)
(* that stays gives no topology, and nothing is published once any read has  *)
(* noticed one (repository-engine.ts:305-347).  This is about topologies:    *)
(* the refs and HEADs of the observation are read after the second check.    *)
OneRepositoryIsPublished ==
    [][published' # published =>
        /\ status = "open"
        /\ published'.seen \subseteq {Anchor} \cup undone]_discoveryVars

(* However the id a window names has been re-read since, and whether or not  *)
(* the topology was reused, Git runs in the directories that id stood for    *)
(* when the window saw it; or else another program changed something after   *)
(* the inspection for this very file had begun, which no later step compares *)
(* again (repository-session.ts:1592-1678).                                  *)
WhereShown ==
    [common |-> Anchor, directory |-> mutation.shown.evidence.directory,
     git |-> mutation.shown.evidence.git]

MutationRunsWhereShown ==
    mutation.step = "running" =>
        mutation.ran = WhereShown \/ mutation.ranAt > mutation.since
=============================================================================
