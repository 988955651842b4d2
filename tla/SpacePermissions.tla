-------------------------- MODULE SpacePermissions --------------------------
(***************************************************************************)
(* Who may do what in a space, and how Docmost learns of it: GroupService, *)
(* the parts of UserService and SpaceService that change access, the       *)
(* permission-sync, user-sync and space-provision queues with their        *)
(* processors, and the hourly reconciliation.  There is one space.         *)
(*                                                                         *)
(* A grant is the strongest permission a group has on the space: 0 none,   *)
(* 1 view, 2 edit, 3 admin.  The statements of one transaction are a step; *)
(* what a handler reads before its transaction is a step of its own.       *)
(* Enqueueing after a commit is best effort: errors are only logged.       *)
(***************************************************************************)
EXTENDS Naturals, FiniteSets

CONSTANTS
    PUsers,
    PGroups,
    Grants,           \* the grants used, a subset of 0 .. 3 with 0
    MaxChanges,       \* bound: administrative changes
    MaxBridgeFaults,  \* bound: failed calls of queues and bridge
    SyncAttempts      \* DEFAULT_JOB_OPTIONS.attempts

VARIABLES
    members,    \* group_members
    grant,      \* space_permissions, per group
    groupIds,   \* groups that exist
    userOn,     \* users with status active
    spaceOn,    \* spaces.status is active
    version,    \* spaces.permission_version
    provision,  \* the space-provision job; "done": docmost_space_id is set
    userSync,   \* the user-sync job per user; "done": docmost_user_id is set
    syncJobs,   \* waiting permission-sync jobs, by the attempts they have left
    pusher,     \* the permission-sync worker and the reconciliation
    deletion,   \* a deleteGroup between its reads and its transaction
    docmost,    \* the members of the space in Docmost, with their role
    changes, bridgeFaults

permVars == <<members, grant, groupIds, userOn, spaceOn, version, provision, userSync, syncJobs,
              pusher, deletion, docmost, changes, bridgeFaults>>

dbVars == <<members, grant, groupIds, userOn, spaceOn, version>>

Pushers == {"job", "reconcile"}
NotPushing == [pc |-> "idle", left |-> 0, expected |-> [u \in PUsers |-> 0]]
NoDeletion == [group |-> {}, granted |-> FALSE]

PermTypeOK ==
    /\ members \in [PGroups -> SUBSET PUsers]
    /\ grant \in [PGroups -> Grants]
    /\ groupIds \subseteq PGroups /\ userOn \subseteq PUsers /\ spaceOn \in BOOLEAN
    /\ version \in Nat \ {0}
    /\ provision \in {"queued", "failed", "done"}
    /\ userSync \in [PUsers -> {"queued", "failed", "done"}]
    /\ syncJobs \in [1 .. SyncAttempts -> Nat]
    /\ pusher \in [Pushers -> [pc : {"idle", "members", "push"}, left : 0 .. SyncAttempts,
                               expected : [PUsers -> Grants]]]
    /\ docmost \in [PUsers -> Grants]
    /\ \A g \in PGroups \ groupIds : members[g] = {} /\ grant[g] = 0

PermInit ==
    /\ members = [g \in PGroups |-> {}]
    /\ grant = [g \in PGroups |-> 0]
    /\ groupIds = {}
    /\ userOn = PUsers
    /\ spaceOn = TRUE
    /\ version = 1
    /\ provision = "queued"
    /\ userSync = [u \in PUsers |-> "queued"]
    /\ syncJobs = [a \in 1 .. SyncAttempts |-> 0]
    /\ pusher = [p \in Pushers |-> NotPushing]
    /\ deletion = NoDeletion
    /\ docmost = [u \in PUsers |-> 0]
    /\ changes = 0
    /\ bridgeFaults = 0

(* enqueuePermissionSyncJob with a job id of its own each time. *)
Enqueue ==
    \/ syncJobs' = [syncJobs EXCEPT ![SyncAttempts] = @ + 1] /\ UNCHANGED bridgeFaults
    \/ /\ bridgeFaults < MaxBridgeFaults /\ bridgeFaults' = bridgeFaults + 1
       /\ UNCHANGED syncJobs

EnqueueIf(affected) ==
    IF affected THEN Enqueue ELSE UNCHANGED <<syncJobs, bridgeFaults>>

Changes == changes < MaxChanges /\ changes' = changes + 1

-----------------------------------------------------------------------------
(* GroupService *)

CreateGroup(g, m, r) ==
    /\ Changes
    /\ g \notin groupIds
    /\ groupIds' = groupIds \cup {g}
    /\ members' = [members EXCEPT ![g] = m]
    /\ grant' = [grant EXCEPT ![g] = r]
    /\ version' = IF r > 0 THEN version + 1 ELSE version
    /\ EnqueueIf(r > 0)
    /\ UNCHANGED <<userOn, spaceOn, provision, userSync, pusher, deletion, docmost>>

(* updateGroup; only differences are written, and a change of members      *)
(* leaves the version of the space as it is.                               *)
UpdateGroup(g, m, r) ==
    /\ Changes
    /\ g \in groupIds /\ <<m, r>> # <<members[g], grant[g]>>
    /\ members' = [members EXCEPT ![g] = m]
    /\ grant' = [grant EXCEPT ![g] = r]
    /\ version' = IF r # grant[g] THEN version + 1 ELSE version
    /\ EnqueueIf(r # grant[g] \/ grant[g] > 0)
    /\ UNCHANGED <<groupIds, userOn, spaceOn, provision, userSync, pusher, deletion, docmost>>

(* replaceSpacePermissions: the grants of all groups at once. *)
ReplaceSpacePermissions(new) ==
    /\ Changes
    /\ new # grant /\ \A g \in PGroups \ groupIds : new[g] = 0
    /\ grant' = new
    /\ version' = version + 1
    /\ Enqueue
    /\ UNCHANGED <<members, groupIds, userOn, spaceOn, provision, userSync, pusher, deletion, docmost>>

(* deleteGroup reads members and permissions, and then deletes whatever    *)
(* the group has; version, record and sync job follow what was read.       *)
DeleteGroupRead(g) ==
    /\ Changes
    /\ g \in groupIds /\ deletion = NoDeletion
    /\ deletion' = [group |-> {g}, granted |-> grant[g] > 0]
    /\ UNCHANGED <<dbVars, provision, userSync, syncJobs, pusher, docmost, bridgeFaults>>

KeepsGrants ==             \* mutant: the grants of the group are not deleted
    /\ deletion # NoDeletion
    /\ groupIds' = groupIds \ deletion.group
    /\ members' = [g \in PGroups |-> IF g \in deletion.group THEN {} ELSE members[g]]
    /\ EnqueueIf(deletion.granted)
    /\ deletion' = NoDeletion
    /\ UNCHANGED <<grant, version, userOn, spaceOn, provision, userSync, pusher, docmost, changes>>

DeleteGroupTx ==
    /\ deletion # NoDeletion
    /\ groupIds' = groupIds \ deletion.group
    /\ members' = [g \in PGroups |-> IF g \in deletion.group THEN {} ELSE members[g]]
    /\ grant' = [g \in PGroups |-> IF g \in deletion.group THEN 0 ELSE grant[g]]
    /\ version' = IF deletion.granted THEN version + 1 ELSE version
    /\ EnqueueIf(deletion.granted)
    /\ deletion' = NoDeletion
    /\ UNCHANGED <<userOn, spaceOn, provision, userSync, pusher, docmost, changes>>

-----------------------------------------------------------------------------
(* UserService and SpaceService *)

Affects(u) == \E g \in groupIds : u \in members[g] /\ grant[g] > 0

UpdateUserStatus(u) ==
    /\ Changes
    /\ userOn' = IF u \in userOn THEN userOn \ {u} ELSE userOn \cup {u}
    /\ EnqueueIf(Affects(u))
    /\ UNCHANGED <<members, grant, groupIds, spaceOn, version, provision, userSync, pusher, deletion, docmost>>

(* deleteUser also takes the user out of all groups. *)
DeleteUserAccount(u) ==
    /\ Changes
    /\ userOn' = userOn \ {u}
    /\ members' = [g \in PGroups |-> members[g] \ {u}]
    /\ EnqueueIf(Affects(u))
    /\ UNCHANGED <<grant, groupIds, spaceOn, version, provision, userSync, pusher, deletion, docmost>>

(* archiveSpace removes the grants and enqueues nothing. *)
ArchiveSpace ==
    /\ Changes
    /\ spaceOn
    /\ spaceOn' = FALSE
    /\ grant' = [g \in PGroups |-> 0]
    /\ version' = version + 1
    /\ UNCHANGED <<members, groupIds, userOn, provision, userSync, syncJobs, pusher, deletion, docmost, bridgeFaults>>

-----------------------------------------------------------------------------
(* The queues for spaces and users *)

(* provisionSpace, then docmost_space_id; or the last attempt failed.      *)
ProvisionRuns(ok) ==
    /\ provision = "queued"
    /\ \/ ok /\ provision' = "done" /\ UNCHANGED bridgeFaults
       \/ /\ ~ok /\ bridgeFaults < MaxBridgeFaults /\ bridgeFaults' = bridgeFaults + 1
          /\ provision' = "failed"
    /\ UNCHANGED <<dbVars, userSync, syncJobs, pusher, deletion, docmost, changes>>

(* reconcileSpaces, every ten minutes: failed jobs of active spaces.       *)
ReconcileSpaces ==
    /\ provision = "failed" /\ spaceOn
    /\ provision' = "queued"
    /\ UNCHANGED <<dbVars, userSync, syncJobs, pusher, deletion, docmost, changes, bridgeFaults>>

(* syncUser, docmost_user_id, and permission syncs for the user's spaces.  *)
UserSyncRuns(u) ==
    /\ userSync[u] = "queued"
    /\ userSync' = [userSync EXCEPT ![u] = "done"]
    /\ EnqueueIf(provision = "done" /\ Affects(u))
    /\ UNCHANGED <<dbVars, provision, pusher, deletion, docmost, changes>>

UserSyncFails(u) ==
    /\ userSync[u] = "queued"
    /\ bridgeFaults < MaxBridgeFaults /\ bridgeFaults' = bridgeFaults + 1
    /\ userSync' = [userSync EXCEPT ![u] = "failed"]
    /\ UNCHANGED <<dbVars, provision, syncJobs, pusher, deletion, docmost, changes>>

(* reconcileUsers runs when the worker starts, and only then.  A job that  *)
(* was running is delivered again, a reconciliation is gone.               *)
WorkerRestarts ==
    /\ userSync' = [u \in PUsers |-> IF userSync[u] = "failed" /\ u \in userOn
                                     THEN "queued" ELSE userSync[u]]
    /\ syncJobs' = IF pusher["job"].pc = "idle" THEN syncJobs
                   ELSE [syncJobs EXCEPT ![pusher["job"].left] = @ + 1]
    /\ pusher' = [p \in Pushers |-> NotPushing]
    /\ Changes
    /\ UNCHANGED <<dbVars, provision, deletion, docmost, bridgeFaults>>

-----------------------------------------------------------------------------
(* Pushing permissions *)

Strongest(S) == CHOOSE r \in S : \A t \in S : r >= t

(* loadSpacePermissionMemberState and collapsePermissionRows: per active   *)
(* member the strongest role; members Docmost does not know are pending.   *)
WeakestRole(u) ==          \* mutant: the comparison of ranks is reversed
    LET held == {grant[g] : g \in {g \in groupIds : u \in members[g]}} \ {0}
    IN  IF held = {} \/ u \notin userOn THEN 0 ELSE CHOOSE r \in held : \A t \in held : r <= t

RoleOf(u) ==
    LET held == {grant[g] : g \in {g \in groupIds : u \in members[g]}} \ {0}
    IN  IF held = {} \/ u \notin userOn THEN 0 ELSE Strongest(held)

Expected == [u \in PUsers |-> RoleOf(u)]
Pending == {u \in PUsers : RoleOf(u) > 0 /\ userSync[u] # "done"}

(* One permission-sync job at a time; without a Docmost space it is done.  *)
JobStarts(a) ==
    /\ pusher["job"].pc = "idle" /\ syncJobs[a] > 0
    /\ syncJobs' = [syncJobs EXCEPT ![a] = @ - 1]
    /\ pusher' = IF provision = "done"
                 THEN [pusher EXCEPT !["job"].pc = "members", !["job"].left = a] ELSE pusher
    /\ UNCHANGED <<dbVars, provision, userSync, deletion, docmost, changes, bridgeFaults>>

(* The attempt failed: back to the queue, or given up. *)
AttemptFails ==
    /\ LET left == pusher["job"].left - 1
       IN  syncJobs' = IF left > 0 THEN [syncJobs EXCEPT ![left] = @ + 1] ELSE syncJobs
    /\ pusher' = [pusher EXCEPT !["job"] = NotPushing]

JobReadsMembers ==
    /\ pusher["job"].pc = "members"
    /\ IF Pending = {}
       THEN /\ pusher' = [pusher EXCEPT !["job"].pc = "push", !["job"].expected = Expected]
            /\ UNCHANGED syncJobs
       ELSE AttemptFails
    /\ UNCHANGED <<dbVars, provision, userSync, deletion, docmost, changes, bridgeFaults>>

JobPushes ==
    /\ pusher["job"].pc = "push"
    /\ docmost' = pusher["job"].expected
    /\ pusher' = [pusher EXCEPT !["job"] = NotPushing]
    /\ UNCHANGED <<dbVars, provision, userSync, syncJobs, deletion, changes, bridgeFaults>>

JobPushFails ==
    /\ pusher["job"].pc = "push"
    /\ bridgeFaults < MaxBridgeFaults /\ bridgeFaults' = bridgeFaults + 1
    /\ AttemptFails
    /\ UNCHANGED <<dbVars, provision, userSync, deletion, docmost, changes>>

(* runPermissionReconcile, for the space.  It skips a space with pending   *)
(* members; it pushes what it read when Docmost shows something else.      *)
ReconcileReads ==
    /\ provision = "done" /\ pusher["reconcile"].pc = "idle" /\ Pending = {}
    /\ pusher' = [pusher EXCEPT !["reconcile"].pc = "push", !["reconcile"].expected = Expected]
    /\ UNCHANGED <<dbVars, provision, userSync, syncJobs, deletion, docmost, changes, bridgeFaults>>

(* permissionMembersEqual *)
SameUsers(a, b) == {u \in PUsers : a[u] > 0} = {u \in PUsers : b[u] > 0}   \* mutant: roles ignored
MembersEqual(a, b) == a = b

ReconcileEnds ==
    /\ pusher["reconcile"].pc = "push"
    /\ docmost' = IF MembersEqual(pusher["reconcile"].expected, docmost)
                  THEN docmost ELSE pusher["reconcile"].expected
    /\ pusher' = [pusher EXCEPT !["reconcile"] = NotPushing]
    /\ UNCHANGED <<dbVars, provision, userSync, syncJobs, deletion, changes, bridgeFaults>>

ReconcileFails ==
    /\ pusher["reconcile"].pc = "push"
    /\ bridgeFaults < MaxBridgeFaults /\ bridgeFaults' = bridgeFaults + 1
    /\ pusher' = [pusher EXCEPT !["reconcile"] = NotPushing]
    /\ UNCHANGED <<dbVars, provision, userSync, syncJobs, deletion, docmost, changes>>

-----------------------------------------------------------------------------

PermChange ==
    \/ \E g \in PGroups, m \in SUBSET PUsers, r \in Grants : CreateGroup(g, m, r) \/ UpdateGroup(g, m, r)
    \/ \E new \in [PGroups -> Grants] : ReplaceSpacePermissions(new)
    \/ \E g \in PGroups : DeleteGroupRead(g)
    \/ DeleteGroupTx
    \/ \E u \in PUsers : UpdateUserStatus(u) \/ DeleteUserAccount(u)
    \/ ArchiveSpace

Synchronize ==
    \/ \E ok \in BOOLEAN : ProvisionRuns(ok)
    \/ ReconcileSpaces
    \/ \E u \in PUsers : UserSyncRuns(u) \/ UserSyncFails(u)
    \/ \E a \in 1 .. SyncAttempts : JobStarts(a)
    \/ JobReadsMembers \/ JobPushes \/ JobPushFails
    \/ ReconcileReads \/ ReconcileEnds \/ ReconcileFails
    \/ WorkerRestarts

PermNext == PermChange \/ Synchronize

(* The timer of the reconciliation fires every hour and its calls return;  *)
(* nothing is assumed of the job queue.                                    *)
ReconcileFair == WF_permVars(ReconcileReads) /\ WF_permVars(ReconcileEnds)

PermSpec == PermInit /\ [][PermNext]_permVars /\ ReconcileFair

-----------------------------------------------------------------------------
(* Properties *)

(* Docmost ends up with the roles the database grants, whatever sync jobs  *)
(* were lost, given up or pushed late with what they had read: unless a    *)
(* member of the space has no Docmost account, which blocks every push, or *)
(* the space is not provisioned.                                           *)
Converged == provision = "done" => Pending # {} \/ docmost = Expected
DocmostConverges == <>[]Converged

=============================================================================
