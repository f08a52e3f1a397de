------------------------- MODULE WorkspaceRevisions -------------------------
(***************************************************************************)
(* The workspace revisions of one RoomTalk room and the restores of its    *)
(* checkpoints.                                                            *)
(*                                                                         *)
(* PostgreSQL keeps the revision graph, the room's head and backend        *)
(* session, and the room's lease; the sandbox keeps the files.  A turn and *)
(* a restore each own the lease while they change the files, and each      *)
(* moves the head in its last transaction only.  The inside of a turn is   *)
(* the module CodeAgentTurn; here it is what it does to the files.         *)
(*                                                                         *)
(* A revision is a number, its place in the sequence.  A turn writes its   *)
(* own number into the files it touches; a user, or a process of the       *)
(* workspace, writes Foreign.                                              *)
(***************************************************************************)
EXTENDS Naturals, Sequences, SequencesExt, FiniteSets

CONSTANTS
    Files,        \* the files that checkpoints capture
    Restores,     \* restore requests, each by its own server process
    None,         \* nobody: no lease
    TurnLease,    \* the owner of a turn's lease
    MaxRevisions, \* bound on the revisions of the room
    MaxEdits,     \* bound on the edits of users
    MaxFaults,    \* bound on the faults, each of another kind
    FaultKinds    \* what may go wrong: "crash", "lease" lost, "ack" of a commit lost,
                  \* "edit" in spite of a live lease

ASSUME OwnersAssumption ==
    /\ None \notin Restores /\ TurnLease \notin Restores /\ None # TurnLease
    /\ IsFiniteSet(Files) /\ IsFiniteSet(Restores)
ASSUME BoundsAssumption == MaxRevisions \in Nat \ {0} /\ MaxEdits \in Nat /\ MaxFaults \in Nat
ASSUME FaultsAssumption == FaultKinds \subseteq {"crash", "lease", "ack", "edit"}

VARIABLES
    revisions, \* code_agent_workspace_revisions
    head,      \* rooms.code_agent_workspace_revision_id
    session,   \* rooms.code_agent_session_id: the turn whose context it continues, 0 for none
    status,    \* rooms.code_agent_status
    lease,     \* the room's row of code_agent_room_leases
    files,     \* the content of the workspace's files
    turn,      \* the running turn
    restore,   \* restoreWorkspaceCheckpoint for each request
    edited,    \* the files that somebody else edited, or that a crash left changed
    edits,     \* edits so far
    faults     \* the kinds of faults so far

vars == <<revisions, head, session, status, lease, files, turn, restore, edited, edits, faults>>
graph == <<revisions, head, session>>
budget == <<edited, edits, faults>>

Ids == 1..MaxRevisions
Foreign == MaxRevisions + 1
Contents == [Files -> 0..Foreign]

\* before and after are the checkpoint's images of the files in paths; traversable
\* says that the checkpoint is complete; context is the turn whose backend session
\* the revision ends in.
Revisions == [parent : 0..MaxRevisions, kind : {"root", "turn", "restore"},
              completed : BOOLEAN, traversable : BOOLEAN, paths : SUBSET Files,
              before : Contents, after : Contents, context : 0..MaxRevisions,
              contextBefore : 0..MaxRevisions]
Steps == [revision : Ids, direction : {"before", "after"}]

TypeOK ==
    /\ revisions \in Seq(Revisions)
    /\ head \in DOMAIN revisions
    /\ session \in 0..MaxRevisions
    /\ status \in {"idle", "running", "error"}
    /\ lease \in [owner : {None, TurnLease} \union Restores, live : BOOLEAN]
    /\ files \in Contents
    /\ turn \in [on : BOOLEAN, parent : 0..MaxRevisions, base : Contents, session : 0..MaxRevisions]
    /\ restore \in [Restores -> [pc : {"idle", "leased", "checking", "applying", "forking",
                                       "committing", "undoing", "ending", "gone"},
                                 turn : 0..MaxRevisions, boundary : {"before", "after"},
                                 source : 0..MaxRevisions, target : 0..MaxRevisions,
                                 steps : Seq(Steps), next : Nat, context : 0..MaxRevisions]]
    /\ edited \subseteq Files
    /\ edits \in 0..MaxEdits
    /\ faults \subseteq FaultKinds

Untouched == [f \in Files |-> 0]
Root == [parent |-> 0, kind |-> "root", completed |-> FALSE, traversable |-> TRUE, paths |-> {},
         before |-> Untouched, after |-> Untouched, context |-> 0, contextBefore |-> 0]
NoTurn == [on |-> FALSE, parent |-> 0, base |-> Untouched, session |-> 0]
NoLease == [owner |-> None, live |-> FALSE]
NoRestore == [pc |-> "idle", turn |-> 0, boundary |-> "before", source |-> 0, target |-> 0,
              steps |-> <<>>, next |-> 1, context |-> 0]

Init ==
    /\ revisions = <<Root>>
    /\ head = 1
    /\ session = 0
    /\ status = "idle"
    /\ lease = NoLease
    /\ files = Untouched
    /\ turn = NoTurn
    /\ restore = [r \in Restores |-> NoRestore]
    /\ edited = {}
    /\ edits = 0
    /\ faults = {}

Fault(kind) ==
    /\ kind \in FaultKinds \ faults
    /\ Cardinality(faults) < MaxFaults
    /\ faults' = faults \union {kind}
Free == lease.owner = None \/ ~lease.live
Holds(o) == lease.owner = o /\ lease.live
Room == Len(revisions) < MaxRevisions
New == Len(revisions) + 1

(***************************************************************************)
(* The planner                                                             *)
(***************************************************************************)
\* A revision and what lies above it, up to the root.
Ancestors[r \in 0..Len(revisions)] ==
    IF r = 0 THEN {} ELSE {r} \union Ancestors[revisions[r].parent]

\* The first revision from target upwards that is also above source.
CommonAncestor(source, target) ==
    LET First[r \in 0..Len(revisions)] ==
            IF r = 0 \/ r \in Ancestors[source] THEN r ELSE First[revisions[r].parent]
    IN  First[target]

Traversed(source, target) ==
    (Ancestors[source] \union Ancestors[target]) \ Ancestors[CommonAncestor(source, target)]

\* toStep: only turns have a checkpoint.
Step(r, direction) ==
    IF revisions[r].kind = "turn" THEN <<[revision |-> r, direction |-> direction]>> ELSE <<>>

\* The turns from source up to top are undone.
Undo(source, top) ==
    LET Up[r \in 0..Len(revisions)] ==
            IF r \in {0, top} THEN <<>> ELSE Step(r, "before") \o Up[revisions[r].parent]
    IN  Up[source]

\* Those from top down to target are applied.
Redo(target, top) ==
    LET Down[r \in 0..Len(revisions)] ==
            IF r \in {0, top} THEN <<>> ELSE Down[revisions[r].parent] \o Step(r, "after")
    IN  Down[target]

\* Mutant of Plan: the branch of the target is applied from the target up.
Plan_TargetFirst(source, target) ==
    LET top == CommonAncestor(source, target) IN Undo(source, top) \o Reverse(Redo(target, top))

\* The turns of the source's branch are undone, those of the target's applied.
Plan(source, target) ==
    LET top == CommonAncestor(source, target) IN Undo(source, top) \o Redo(target, top)

Blocked(source, target) == \E r \in Traversed(source, target) : ~revisions[r].traversable

AlreadyAt(source, target) == \A r \in Traversed(source, target) : revisions[r].kind = "restore"

\* previewWorkspaceCheckpoint: every file still has the image the step leaves.
Image(rev, direction) == IF direction = "before" THEN rev.before ELSE rev.after
Opposite(direction) == IF direction = "before" THEN "after" ELSE "before"
Conflicts(step) ==
    LET rev == revisions[step.revision] IN
    {f \in rev.paths : files[f] # Image(rev, Opposite(step.direction))[f]}

\* restoreWorkspaceCheckpoint in the sandbox.
Applied(step, content) ==
    LET rev == revisions[step.revision] IN
    [f \in Files |-> IF f \in rev.paths THEN Image(rev, step.direction)[f] ELSE content[f]]

(***************************************************************************)
(* Turns                                                                   *)
(***************************************************************************)
\* beginCodeAgentTurn and beginWorkspaceCheckpoint.
BeginTurn ==
    /\ Room
    /\ ~turn.on
    /\ Free
    /\ lease' = [owner |-> TurnLease, live |-> TRUE]
    /\ status' = "running"
    /\ turn' = [on |-> TRUE, parent |-> head, base |-> files, session |-> session]
    /\ UNCHANGED <<graph, files, restore, budget>>

\* The agent writes a file; it may still do so after its lease was lost.
TurnWrites(f) ==
    /\ turn.on
    /\ files' = [files EXCEPT ![f] = New]
    /\ UNCHANGED <<graph, status, lease, turn, restore, budget>>

\* finalizeWorkspaceCheckpoint: the files whose tree differs from the one at the begin.
Changed == {f \in Files : files[f] # turn.base[f]}

\* finishCodeAgentTurn with what finalizeTurnWorkspaceCheckpoint found: the files
\* that changed, if the archive could be made and stored.
EndTurn(completed, ready) ==
    /\ turn.on
    /\ Holds(TurnLease)
    /\ head = turn.parent
    /\ revisions' = Append(revisions,
           [parent |-> turn.parent, kind |-> "turn", completed |-> completed,
            traversable |-> ready, paths |-> Changed,
            before |-> turn.base, after |-> files,
            context |-> IF completed THEN New ELSE session, contextBefore |-> turn.session])
    /\ head' = New
    /\ session' = IF completed THEN New ELSE session
    /\ status' = IF completed THEN "idle" ELSE "error"
    /\ lease' = NoLease
    /\ turn' = NoTurn
    /\ UNCHANGED <<files, restore, budget>>

\* The turn's server crashes, or its last transaction is refused.
TurnDies ==
    /\ turn.on
    /\ Fault("crash")
    /\ turn' = NoTurn
    /\ edited' = edited \union Changed
    /\ UNCHANGED <<graph, status, lease, files, restore, edits>>

\* recoverInterruptedCodeAgentRoomStates
RecoverRoom ==
    /\ status = "running"
    /\ Free
    /\ ~turn.on
    /\ status' = "error"
    /\ lease' = NoLease
    /\ UNCHANGED <<graph, files, turn, restore, budget>>

(***************************************************************************)
(* Restores                                                                *)
(***************************************************************************)
To(r, pc) == restore' = [restore EXCEPT ![r].pc = pc]

\* A user selects a boundary of a completed turn; the lease is acquired.
StartRestore(r, t, boundary) ==
    /\ Room
    /\ restore[r].pc = "idle"
    /\ Free
    /\ revisions[t].kind = "turn" /\ revisions[t].completed
    /\ lease' = [owner |-> r, live |-> TRUE]
    /\ restore' = [restore EXCEPT ![r] = [NoRestore EXCEPT !.pc = "leased", !.turn = t,
                                                           !.boundary = boundary]]
    /\ UNCHANGED <<graph, status, files, turn, budget>>

\* readCodeAgentCheckpointRestorePlan, the archives and the sandbox.
PlanRestore(r) ==
    LET t == restore[r].turn
        rev == revisions[t]
        before == restore[r].boundary = "before"
        target == IF before THEN rev.parent ELSE t
    IN
    /\ restore[r].pc = "leased"
    /\ \/ To(r, "ending")                       \* the archive or the sandbox is unavailable
       \/ /\ Blocked(head, target) \/ AlreadyAt(head, target)
          /\ To(r, "ending")
       \/ /\ ~Blocked(head, target) /\ ~AlreadyAt(head, target)
          /\ restore' = [restore EXCEPT ![r].pc = "checking", ![r].source = head,
                 ![r].target = target, ![r].steps = Plan(head, target),
                 ![r].context = IF before THEN rev.contextBefore ELSE rev.context]
    /\ UNCHANGED <<graph, status, lease, files, turn, budget>>

\* requireLiveRestoreLease; then the next step, the fork or the commit.
CheckLease(r) ==
    /\ restore[r].pc = "checking"
    /\ IF ~Holds(r) THEN To(r, "undoing")
       ELSE IF restore[r].next <= Len(restore[r].steps) THEN To(r, "applying")
       ELSE To(r, IF restore[r].context = 0 THEN "committing" ELSE "forking")
    /\ UNCHANGED <<graph, status, lease, files, turn, budget>>

\* The preview, then the step, which looks at the files again before it writes.
ApplyStep(r) ==
    LET step == restore[r].steps[restore[r].next] IN
    /\ restore[r].pc = "applying"
    /\ \/ /\ Conflicts(step) = {}
          /\ files' = Applied(step, files)
          /\ restore' = [restore EXCEPT ![r].pc = "checking", ![r].next = @ + 1]
       \/ /\ To(r, "undoing")                   \* a conflict, or the sandbox fails
          /\ UNCHANGED files
    /\ UNCHANGED <<graph, status, lease, turn, budget>>

\* thread_fork; the lease is required twice before the commit.
ForkThread(r) ==
    /\ restore[r].pc = "forking"
    /\ To(r, IF Holds(r) THEN "committing" ELSE "undoing") \/ To(r, "undoing")
    /\ UNCHANGED <<graph, status, lease, files, turn, budget>>

\* Mutant of CanCommit: only the room's status is looked at.
CanCommit_StatusOnly(r) == status # "running"

CanCommit(r) == status # "running" /\ head = restore[r].source /\ Holds(r)

\* Mutants of Committed: the backend session stays; the revision is not inserted.
Committed_KeepsSession(r) ==
    /\ revisions' = Append(revisions,
           [Root EXCEPT !.kind = "restore", !.parent = restore[r].target])
    /\ head' = New
    /\ status' = "idle"
    /\ lease' = NoLease
    /\ UNCHANGED session

Committed_HeadOnly(r) ==
    /\ head' = New
    /\ session' = restore[r].context
    /\ status' = "idle"
    /\ lease' = NoLease
    /\ UNCHANGED revisions

\* The transaction of commitCodeAgentCheckpointRestore.
Committed(r) ==
    /\ revisions' = Append(revisions,
           [Root EXCEPT !.kind = "restore", !.parent = restore[r].target,
                        !.context = restore[r].context])
    /\ head' = New
    /\ session' = restore[r].context
    /\ status' = "idle"
    /\ lease' = NoLease

CommitRestore(r) ==
    /\ restore[r].pc = "committing"
    /\ IF CanCommit(r)
       THEN /\ Committed(r)
            /\ restore' = [restore EXCEPT ![r] = [NoRestore EXCEPT !.pc = "ending"]]
       ELSE To(r, "undoing") /\ UNCHANGED <<graph, status, lease>>
    /\ UNCHANGED <<files, turn, budget>>

\* The commit is done, but its acknowledgement is lost: for the server it has failed.
CommitUnacknowledged(r) ==
    /\ restore[r].pc = "committing"
    /\ CanCommit(r)
    /\ Fault("ack")
    /\ Committed(r)
    /\ To(r, "undoing")
    /\ UNCHANGED <<files, turn, edited, edits>>

\* Mutant of UndoStep: the applied steps are taken back from the first to the last.
UndoStep_FirstToLast(r) ==
    LET done == restore[r].next - 1
        step == restore[r].steps[1]
        inverse == [step EXCEPT !.direction = Opposite(@)]
    IN
    /\ restore[r].pc = "undoing"
    /\ IF done > 0 /\ Conflicts(inverse) = {}
       THEN /\ files' = Applied(inverse, files)
            /\ restore' = [restore EXCEPT ![r].next = @ - 1, ![r].steps = Tail(@)]
       ELSE To(r, "ending") /\ UNCHANGED files
    /\ UNCHANGED <<graph, status, lease, turn, budget>>

\* rollbackAppliedSteps, one step at a time from the last.  A conflict ends it: the
\* second attempt of the catch block starts over and meets the same conflict.
UndoStep(r) ==
    LET done == restore[r].next - 1
        step == restore[r].steps[done]
        inverse == [step EXCEPT !.direction = Opposite(@)]
    IN
    /\ restore[r].pc = "undoing"
    /\ IF done > 0 /\ Conflicts(inverse) = {}
       THEN /\ files' = Applied(inverse, files)
            /\ restore' = [restore EXCEPT ![r].next = @ - 1]
       ELSE To(r, "ending") /\ UNCHANGED files
    /\ UNCHANGED <<graph, status, lease, turn, budget>>

\* The finally block.
EndRestore(r) ==
    /\ restore[r].pc = "ending"
    /\ lease' = IF lease.owner = r THEN NoLease ELSE lease
    /\ restore' = [restore EXCEPT ![r] = NoRestore]
    /\ UNCHANGED <<graph, status, files, turn, budget>>

RestoreDies(r) ==
    /\ restore[r].pc \notin {"idle", "gone"}
    /\ Fault("crash")
    /\ restore' = [restore EXCEPT ![r] = [NoRestore EXCEPT !.pc = "gone"]]
    /\ edited' = edited \union
           UNION {revisions[restore[r].steps[k].revision].paths : k \in 1..(restore[r].next - 1)}
    /\ UNCHANGED <<graph, status, lease, files, turn, edits>>

(***************************************************************************)
(* Leases and edits                                                        *)
(***************************************************************************)
\* An owner that is gone does not renew; losing a renewed lease is a fault.
LeaseExpires ==
    LET gone == \/ lease.owner = TurnLease /\ ~turn.on
                \/ lease.owner \in Restores /\ restore[lease.owner].pc \in {"idle", "gone"}
    IN
    /\ lease.owner # None
    /\ lease.live
    /\ \/ gone /\ UNCHANGED faults
       \/ ~gone /\ Fault("lease")
    /\ lease' = [lease EXCEPT !.live = FALSE]
    /\ UNCHANGED <<graph, status, files, turn, restore, edited, edits>>

\* ensureWorkspaceMutationIdle refuses an edit under a live lease; one that was
\* allowed before, or is made by a process of the workspace, comes through.
Edit(f) ==
    /\ edits < MaxEdits
    /\ \/ ~lease.live /\ UNCHANGED faults
       \/ lease.live /\ Fault("edit")
    /\ edits' = edits + 1
    /\ files' = [files EXCEPT ![f] = Foreign]
    /\ edited' = edited \union {f}
    /\ UNCHANGED <<graph, status, lease, turn, restore>>

RestoreStep(r) ==
    \/ PlanRestore(r) \/ CheckLease(r) \/ ApplyStep(r) \/ ForkThread(r)
    \/ CommitRestore(r) \/ UndoStep(r) \/ EndRestore(r)

EndTurnSomehow == \E completed, ready \in BOOLEAN : EndTurn(completed, ready)

Next ==
    \/ BeginTurn \/ TurnDies \/ RecoverRoom \/ LeaseExpires \/ EndTurnSomehow
    \/ \E f \in Files : TurnWrites(f) \/ Edit(f)
    \/ \E r \in Restores :
           \/ \E t \in DOMAIN revisions, b \in {"before", "after"} : StartRestore(r, t, b)
           \/ RestoreStep(r) \/ CommitUnacknowledged(r) \/ RestoreDies(r)

Spec == Init /\ [][Next]_vars

(***************************************************************************)
(* Properties                                                              *)
(***************************************************************************)
\* What a revision stands for: the files as its own turn left them, and those of
\* its parent where the turn changed nothing.
ContentOf[r \in 0..Len(revisions)] ==
    IF r = 0 THEN Untouched
    ELSE [f \in Files |-> IF f \in revisions[r].paths THEN revisions[r].after[f]
                          ELSE ContentOf[revisions[r].parent][f]]

Quiet == ~turn.on /\ \A r \in Restores : restore[r].pc \in {"idle", "leased", "ending", "gone"}
AtHead == \A f \in Files \ edited : files[f] = ContentOf[head][f]

\* The workspace holds what the head stands for whenever no turn and no restore is
\* at work, in every file that nobody else edited and no crash left changed: a restore
\* that met a conflict, a failed step, a failed fork or a lost race has undone all it
\* did.  With a lost lease or a lost acknowledgement it need not: see NeverMixed.
WorkspaceAtHead == Quiet /\ faults \subseteq {"crash"} => AtHead

\* From the head every boundary of every completed turn is reached by its plan, if
\* no incomplete revision lies between: after any number of turns and restores in
\* both directions, the planned steps turn the head's files into the target's.
PlansLeadToTarget ==
    edited = {} /\ faults \subseteq {"crash"} =>
        \A t \in DOMAIN revisions :
            LET steps == Plan(head, t)
                Run[n \in 0..Len(steps)] == IF n = 0 THEN ContentOf[head]
                                            ELSE Applied(steps[n], Run[n - 1])
            IN  ~Blocked(head, t) => Run[Len(steps)] = ContentOf[t]

\* The room's hidden backend context belongs to the revision it shows: the last
\* completed turn at or above the head, through every restore, fault and race.
ContextOf[r \in 0..Len(revisions)] ==
    IF r = 0 THEN 0
    ELSE IF revisions[r].kind = "turn" /\ revisions[r].completed THEN r
    ELSE ContextOf[revisions[r].parent]
ContextFollowsHead == session = ContextOf[head]

\* A revision never moves to another parent and the head moves from a revision only
\* to its child or to a branch that a restore opened from it: two operations never
\* both build on the same head unless one of them was a restore of the other.
HeadMovesOnce ==
    [][head' # head =>
          \/ revisions'[head'].kind = "turn" /\ revisions'[head'].parent = head
          \/ \E r \in Restores : restore[r].source = head /\ revisions'[head'].parent = restore[r].target
      ]_vars

\* "If the fork or commit fails, inverse checkpoint steps restore the original
\* branch", so that "the product never presents a workspace from one branch with
\* hidden Codex context from another" (docs/code-agent-runtime-architecture.md:301,299).
\* Not so when the commit is done but its acknowledgement is lost.
NeverMixed == Quiet /\ edited = {} => AtHead
=============================================================================
