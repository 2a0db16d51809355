----------------------------- MODULE RobotAccess -----------------------------
(***************************************************************************)
(* What Harbor answers the engine.  Whether it takes the robot of a role   *)
(* that validation let through; whether the rollback then finds that       *)
(* robot, by a short name in one page of a listing, and may delete it.     *)
(* One read of creds/<role> and its WAL entry, any credential the engine   *)
(* may be configured with, roles rewritten and projects deleted meanwhile. *)
(*                                                                         *)
(* internal/backend/path_roles.go, path_creds.go, secret_robot.go,         *)
(* internal/harbor/client.go; Harbor's side is harbortest/server.go, which *)
(* states the rules of Harbor this code counts on.  The TTLs of a role are *)
(* in LeaseRenewal, the interleavings of several requests in RobotIssuance.*)
(***************************************************************************)
EXTENDS RobotNaming, FiniteSets

CONSTANTS
    Project,             \* names of projects
    Root,                \* "/", the namespace of kind=system
    NoNamespace,         \* the empty namespace
    WrittenLevels,       \* levels an operator writes to the role
    WrittenPermissions,  \* lists of permissions an operator writes to it
    RoleNames,           \* names the role may have
    NamePrefixes,        \* values of robot_name_prefix
    Suffix,              \* the random suffix of the robot's name
    HarborPrefixes,      \* values of Harbor's own robot prefix
    Copies,              \* what others put before and behind our robot's name
    Issuers,             \* credentials config may hold
    PageSize,            \* robots in a page of a listing, 100
    NoEntry              \* no WAL entry

EmptyRole == [level |-> "", perms |-> <<>>]

Rules == {"pull", "robot:create", "robot:read", "robot:list", "robot:delete",
          "robot:update", "incomplete"}
Namespace == Project \union {Root, NoNamespace, "*"}
Permission == [kind : {"project", "system", "other"}, namespace : Namespace, access : SUBSET Rules]
Principal == [type : {"user", "robot"}, sysadmin : BOOLEAN, admin : SUBSET Project,
              perms : SUBSET Permission]
Levels == {"system", "project"}

\* Characters of a full name; a project's name counts as one.  (The marks are
\* strings, but TLAPS does not know a literal to be one.)
Marks == {"$", "+", "-", ".", "_"}
Char == STRING \union Marks \union Alnum \union Namespace
Entry == [name : Seq(Char), level : Levels, namespace : Namespace]

ASSUME AccessAssumption ==
    /\ Root \notin Project /\ NoNamespace \notin Project
    /\ WrittenPermissions \subseteq Seq(Permission)
    /\ RoleNames \union NamePrefixes \subseteq Seq(STRING)
    /\ Suffix \in Seq(Alnum) \ {<<>>}
    /\ HarborPrefixes \subseteq Seq(STRING) \ {<<>>}
    /\ Copies \subseteq (Seq(Char) \X Seq(Char)) \ {<<<<>>, <<>>>>}
    /\ Issuers \subseteq Principal
    /\ PageSize \in Nat \ {0}
    /\ NoEntry \notin Entry

VARIABLES
    role,         \* the stored role
    projects,     \* projects Harbor has
    harborPrefix, \* Harbor's robot prefix
    robots,       \* robots in Harbor: full name, level, permissions
    pc,           \* where pathCredsRead is
    client,       \* the credential its client has
    wanted,       \* the role it read
    raw,          \* what the name is made of
    entry,        \* the WAL entry: short name, level, namespace
    lease,        \* full name of the robot under lease
    rollback      \* the rollback pass: step, credential, robot found, listing cut off

handlerVars == <<pc, client, wanted, raw>>
harborVars  == <<projects, harborPrefix, robots>>
vars == <<role, harborVars, handlerVars, entry, lease, rollback>>

Nobody == [type |-> "user", sysadmin |-> FALSE, admin |-> {}, perms |-> {}]
NoRobot == [full |-> <<>>, level |-> "", perms |-> <<>>]
Idle == [step |-> "idle", client |-> Nobody, found |-> NoRobot, cut |-> FALSE]
NoRaw == [prefix |-> <<>>, role |-> <<>>]

RoleLike(r) == r.level \in Levels /\ r.perms \in WrittenPermissions
Robot == [full : Seq(Char), level : Levels, perms : WrittenPermissions]
Pass == [step : {"idle", "resolve", "list", "delete", "drop"}, client : Issuers \union {Nobody},
         found : Robot \union {NoRobot}, cut : BOOLEAN]

TypeOK ==
    /\ role = EmptyRole \/ RoleLike(role)
    /\ projects \subseteq Project
    /\ harborPrefix \in HarborPrefixes
    /\ robots \subseteq Robot
    /\ pc \in {"idle", "naming", "create", "refused", "created", "cleanup", "over"}
    /\ client \in Issuers \union {Nobody}
    /\ wanted = EmptyRole \/ RoleLike(wanted)
    /\ raw = NoRaw \/ raw \in [prefix : NamePrefixes, role : RoleNames]
    /\ entry = NoEntry \/ (entry \in Entry /\ HarborRobotName(entry.name))
    /\ rollback \in Pass

Init ==
    /\ role = EmptyRole
    /\ projects = Project
    /\ harborPrefix \in HarborPrefixes
    /\ robots = {}
    /\ pc = "idle"
    /\ client = Nobody
    /\ wanted = EmptyRole
    /\ raw = NoRaw
    /\ entry = NoEntry
    /\ lease = <<>>
    /\ rollback = Idle

-----------------------------------------------------------------------------
(* Roles, path_roles.go                                                    *)

AnyLevel(l) == l # ""          \* mutant: whatever was written
KnownLevel(l) == l \in Levels

AnyNamespaces(perms) == TRUE   \* mutant: several projects in a project-level role
OneNamespace(perms) == \A i, j \in DOMAIN perms : perms[i].namespace = perms[j].namespace

validateRole(r) ==
    /\ KnownLevel(r.level)
    /\ r.perms # <<>>
    /\ r.level = "project" =>
          /\ \A i \in DOMAIN r.perms : r.perms[i].kind = "project"
          /\ OneNamespace(r.perms)
    /\ \A i \in DOMAIN r.perms :
          /\ r.perms[i].kind \in {"project", "system"}
          /\ r.perms[i].namespace # NoNamespace
          /\ r.perms[i].access # {}
          /\ "incomplete" \notin r.perms[i].access

\* pathRoleWrite: a field that is not given keeps what is stored, and what is
\* validated is the result.
WriteRole ==
    /\ \E level \in WrittenLevels \union {role.level},
          perms \in WrittenPermissions \union {role.perms} :
          LET r == [level |-> level, perms |-> perms]
          IN  validateRole(r) /\ role' = r
    /\ UNCHANGED <<harborVars, handlerVars, entry, lease, rollback>>

DeleteRole ==
    /\ role' = EmptyRole
    /\ UNCHANGED <<harborVars, handlerVars, entry, lease, rollback>>

-----------------------------------------------------------------------------
(* Harbor, harbortest/server.go                                            *)

System == [kind |-> "system", namespace |-> Root, access |-> {}]
InProject(p) == [kind |-> "project", namespace |-> p, access |-> {}]

namespaceCovers(held, target) ==
    IF held.kind = "system" THEN target.kind = "system"
    ELSE /\ held.kind = "project" /\ target.kind = "project"
         /\ held.namespace \in {"*", target.namespace}

holds(robot, target, rule) ==
    \E held \in robot.perms : namespaceCovers(held, target) /\ rule \in held.access

KnownRules(perm) == perm.access \intersect {"robot:update", "incomplete"} = {}

\* The 400s of robotsCreate.
WellFormed(r, short) ==
    /\ HarborRobotName(short)
    /\ r.level \in Levels
    /\ r.perms # <<>>
    /\ r.level = "project" => Len(r.perms) = 1 /\ r.perms[1].kind = "project"
    /\ \A i \in DOMAIN r.perms :
          /\ r.perms[i].kind \in {"project", "system"}
          /\ r.perms[i].kind = "project" => r.perms[i].namespace \in projects
          /\ KnownRules(r.perms[i])

\* Its 403s: a robot makes robots within its own permissions only.
MayCreate(p, r) ==
    \/ p.type = "user" /\ p.sysadmin
    \/ p.type = "user" /\ r.level = "project" /\ r.perms[1].namespace \in p.admin
    \/ /\ p.type = "robot"
       /\ r.level = "system" => holds(p, System, "robot:create")
       /\ \A i \in DOMAIN r.perms :
             \A rule \in r.perms[i].access \union {"robot:create"} : holds(p, r.perms[i], rule)

\* Its 409; for a project-level robot a system-level one of that name counts too.
Taken(r, short) ==
    \E level \in {"system", r.level} :
        FullName(harborPrefix, level, r.perms[1].namespace, short) \in {o.full : o \in robots}

\* The scope robotsList and robotByID want a robot principal to hold a rule in.
Scope(level, namespace) == IF level = "project" THEN InProject(namespace) ELSE System

MayList(p, level, namespace) ==
    p.type = "user" \/ holds(p, Scope(level, namespace), "robot:list")
MayDelete(p, r) ==
    p.type = "user" \/ holds(p, Scope(r.level, r.perms[1].namespace), "robot:delete")

\* robotsList with q=name=~short: without the project filter system-level
\* robots only.  Left out: the project's own name, in front of the short one,
\* may match too, which only adds robots to the page that IsNamed passes over;
\* and the filter goes by the project's id, here its name.
Listed(level, namespace, short) ==
    {r \in robots :
        /\ r.level = level
        /\ level = "project" => r.perms[1].namespace = namespace
        /\ Substring(short, ShortName(r.full))}

-----------------------------------------------------------------------------
(* pathCredsRead, path_creds.go                                            *)

Begin ==
    /\ pc = "idle" /\ role # EmptyRole
    /\ pc' = "naming"
    /\ client' \in Issuers
    /\ wanted' = role
    /\ raw' \in [prefix : NamePrefixes, role : RoleNames]
    /\ UNCHANGED <<role, harborVars, entry, lease, rollback>>

\* walRobot: what the rollback will have to go by.
LevelOnly(name) ==   \* mutant: the project is not recorded
    [name |-> name, level |-> wanted.level, namespace |-> NoNamespace]
WalRobot(name) ==
    [name |-> name, level |-> wanted.level,
     namespace |-> IF wanted.level = "project" THEN wanted.perms[1].namespace ELSE NoNamespace]

PutWAL ==
    /\ pc = "naming"
    /\ entry' = WalRobot(robotName(raw.prefix, raw.role, Suffix))
    /\ pc' = "create"
    /\ raw' = NoRaw
    /\ UNCHANGED <<role, harborVars, client, wanted, lease, rollback>>

\* The robot the entry stands for, as Harbor names it.
OwnName == FullName(harborPrefix, entry.level, entry.namespace, entry.name)

Accepts(r, short) == WellFormed(r, short) /\ MayCreate(client, r) /\ ~Taken(r, short)

CreateRobot ==
    /\ pc = "create"
    /\ \/ /\ Accepts(wanted, entry.name)
          /\ robots' = robots \union {[full |-> OwnName, level |-> wanted.level,
                                       perms |-> wanted.perms]}
          /\ pc' = "created"
       \/ ~Accepts(wanted, entry.name) /\ pc' = "refused" /\ UNCHANGED robots
    /\ wanted' = EmptyRole
    /\ UNCHANGED <<role, projects, harborPrefix, client, raw, entry, lease, rollback>>

\* The entry is dropped, best effort.
Refused ==
    /\ pc = "refused"
    /\ pc' = "over" /\ client' = Nobody
    /\ entry' \in {entry, NoEntry}
    /\ UNCHANGED <<role, harborVars, wanted, raw, lease, rollback>>

Own == {r \in robots : r.full = OwnName}

\* With the entry gone the robot is handed out; if it stays the robot goes.
DeleteWAL ==
    /\ pc = "created"
    /\ \/ pc' = "over" /\ client' = Nobody /\ lease' = OwnName /\ entry' = NoEntry
       \/ pc' = "cleanup" /\ UNCHANGED <<client, lease, entry>>
    /\ UNCHANGED <<role, harborVars, wanted, raw, rollback>>

\* DELETE /robots/{id} of the robot with this full name: a 403, or its end.
Forbidden(p, full) == \E r \in robots : r.full = full /\ ~MayDelete(p, r)
Without(full) == {r \in robots : r.full # full}

Cleanup ==
    /\ pc = "cleanup"
    /\ pc' = "over" /\ client' = Nobody
    /\ \/ UNCHANGED <<robots, entry>>
       \/ /\ ~Forbidden(client, OwnName)
          /\ robots' = Without(OwnName)
          /\ entry' \in {entry, NoEntry}
    /\ UNCHANGED <<role, projects, harborPrefix, wanted, raw, lease, rollback>>

\* The process dies, or the connection to Harbor does before a robot is asked
\* for; that a call errs which Harbor served is in RobotIssuance.
Die ==
    /\ pc \in {"create", "refused", "created", "cleanup"}
    /\ pc' = "over" /\ client' = Nobody /\ wanted' = EmptyRole
    /\ UNCHANGED <<role, harborVars, raw, entry, lease, rollback>>

\* secretRobotRevoke, with whatever credential is configured by then.
Revoke ==
    /\ lease # <<>>
    /\ \E p \in Issuers : ~Forbidden(p, lease)
    /\ robots' = Without(lease)
    /\ lease' = <<>>
    /\ UNCHANGED <<role, projects, harborPrefix, handlerVars, entry, rollback>>

-----------------------------------------------------------------------------
(* walRollback and FindRobotByShortName                                    *)

\* Entries of requests that still run are too young (RobotIssuance).
RollbackPick ==
    /\ rollback = Idle
    /\ pc = "over" /\ entry # NoEntry
    /\ \E p \in Issuers :
          rollback' = [Idle EXCEPT !.client = p,
                          !.step = IF entry.level = "project" THEN "resolve" ELSE "list"]
    /\ UNCHANGED <<role, harborVars, handlerVars, entry, lease>>

\* GetProject: without the project the pass errs and the entry stays.
NothingToDo  == [rollback EXCEPT !.step = "drop"]   \* mutant: a 404 is taken for the robot's
NoSuchProject == Idle

Resolve ==
    /\ rollback.step = "resolve"
    /\ rollback' = IF entry.namespace \in projects
                   THEN [rollback EXCEPT !.step = "list"] ELSE NoSuchProject
    /\ UNCHANGED <<role, harborVars, handlerVars, entry, lease>>

Matching(short) == Listed(entry.level, entry.namespace, short)

\* One page, in an order the code does not ask for.
Pages(short) ==
    LET all == Matching(short)
    IN  IF Cardinality(all) <= PageSize THEN {all} ELSE kSubset(PageSize, all)

FirstMatch(r, short) == TRUE   \* mutant: whatever the fuzzy search found
IsNamed(r, short)    == ShortName(r.full) = short

ListRobots ==
    /\ rollback.step = "list"
    /\ IF MayList(rollback.client, entry.level, entry.namespace)
       THEN \E page \in Pages(entry.name) :
               LET named == {r \in page : IsNamed(r, entry.name)}
               IN  \/ /\ named = {}
                      /\ rollback' = [rollback EXCEPT !.step = "drop", !.cut = page # Matching(entry.name)]
                   \/ \E r \in named :
                         rollback' = [rollback EXCEPT !.step = "delete", !.found = r]
       ELSE rollback' = Idle
    /\ UNCHANGED <<role, harborVars, handlerVars, entry, lease>>

DeleteRobot ==
    /\ rollback.step = "delete"
    /\ IF Forbidden(rollback.client, rollback.found.full)
       THEN rollback' = Idle /\ UNCHANGED robots
       ELSE /\ robots' = Without(rollback.found.full)
            /\ rollback' = [rollback EXCEPT !.step = "drop", !.found = NoRobot]
    /\ UNCHANGED <<role, projects, harborPrefix, handlerVars, entry, lease>>

Drop ==
    /\ rollback.step = "drop"
    /\ rollback' = Idle
    /\ entry' = NoEntry
    /\ UNCHANGED <<role, harborVars, handlerVars, lease>>

\* Any call errs: the entry stays for the next pass.
RollbackErr ==
    /\ rollback.step \in {"resolve", "list", "delete"}
    /\ rollback' = Idle
    /\ UNCHANGED <<role, harborVars, handlerVars, entry, lease>>

-----------------------------------------------------------------------------
(* The operators of Harbor                                                 *)

\* Robots of a project may go with it or stay, depending on Harbor.
DeleteProject ==
    \E p \in projects :
        /\ projects' = projects \ {p}
        /\ robots' \in {robots, {r \in robots : r.level = "project" => r.perms[1].namespace # p}}
        /\ UNCHANGED <<role, harborPrefix, handlerVars, entry, lease, rollback>>

CreateProject ==
    \E p \in Project \ projects :
        /\ projects' = projects \union {p}
        /\ UNCHANGED <<role, harborPrefix, robots, handlerVars, entry, lease, rollback>>

\* Someone makes a robot with the level and permissions of ours and a name
\* that Harbor takes and ours is part of, or deletes any robot.
CopyName(c) == c[1] \o entry.name \o c[2]
CopyFullName(c) == FullName(harborPrefix, entry.level, entry.namespace, CopyName(c))

CopyRobot ==
    /\ entry # NoEntry
    /\ \E r \in Own, c \in Copies :
          /\ HarborRobotName(CopyName(c))
          /\ robots' = robots \union {[r EXCEPT !.full = CopyFullName(c)]}
    /\ UNCHANGED <<role, projects, harborPrefix, handlerVars, entry, lease, rollback>>

DeleteInHarbor ==
    /\ \E r \in robots : robots' = robots \ {r}
    /\ UNCHANGED <<role, projects, harborPrefix, handlerVars, entry, lease, rollback>>

-----------------------------------------------------------------------------
Next ==
    \/ WriteRole \/ DeleteRole
    \/ Begin \/ PutWAL \/ CreateRobot \/ Refused \/ DeleteWAL \/ Cleanup \/ Die \/ Revoke
    \/ RollbackPick \/ Resolve \/ ListRobots \/ DeleteRobot \/ Drop \/ RollbackErr
    \/ DeleteProject \/ CreateProject \/ CopyRobot \/ DeleteInHarbor

Spec == Init /\ [][Next]_vars

-----------------------------------------------------------------------------
(* Properties                                                              *)

\* "Should be unreachable given normalization; guard anyway" (naming.go): for
\* every prefix config accepts and every name of a role, the segments that
\* survive normalisation make a name Harbor takes, so that no robot loses them.
GuardUnreached ==
    pc = "naming" => HarborRobotName(JoinedName(raw.prefix, raw.role, Suffix))

\* Harbor's own reasons to refuse a role that validation accepts, which the
\* engine does not look at: a rule Harbor does not know, a project it does not
\* have, and several permissions in a project-level role.
Unforeseen(r) ==
    \/ \E i \in DOMAIN r.perms : ~KnownRules(r.perms[i])
    \/ \E i \in DOMAIN r.perms : r.perms[i].kind = "project" /\ r.perms[i].namespace \notin projects
    \/ /\ r.level = "project" /\ Len(r.perms) > 1
       /\ \A i \in DOMAIN r.perms : r.perms[i].namespace = r.perms[1].namespace

\* validateRole stands in for Harbor's checks: whatever sequence of partial
\* writes made the role, a system administrator's request for its robot is
\* refused for an unforeseen reason only.
ValidRoleAccepted ==
    pc = "create" /\ client.type = "user" /\ client.sysadmin =>
        Accepts(wanted, entry.name) \/ Unforeseen(wanted)

\* README.md: the issuer robot holds create, read, list and delete together in
\* each scope it serves.
AsDocumented(p) ==
    \A held \in p.perms :
        "robot:create" \in held.access => {"robot:read", "robot:list", "robot:delete"} \subseteq held.access

\* What a documented credential may create it may also list, by what the WAL
\* entry recorded, and delete: its rollbacks and revocations are never refused.
CleanupAllowed ==
    entry # NoEntry => \A r \in Own, p \in Issuers :
        AsDocumented(p) /\ MayCreate(p, r) =>
            MayList(p, entry.level, entry.namespace) /\ MayDelete(p, r)

\* ShortName undoes FullName: not for a system-level robot when Harbor's robot
\* prefix, which is configurable, ends in another character than "$" and "+".
NameComesBack == entry.level = "project" \/ Last(harborPrefix) \in {"$", "+"}

\* When the rollback gives an entry up, its robot is gone, however the role was
\* rewritten meanwhile and whatever became of the project; unless the search
\* filled a page, or Harbor's prefix hides the short name.
DropMeansGone ==
    rollback.step = "drop" => Own = {} \/ rollback.cut \/ ~NameComesBack

\* The rollback deletes no robot but the one of its entry, although the search
\* also finds those named after it.
OnlyOwnFound == rollback.step = "delete" => rollback.found.full = OwnName

-----------------------------------------------------------------------------
(* The inductive invariant                                                 *)

\* What is stored as a role has been validated as it is, and so what was read.
RoleValid ==
    /\ role = EmptyRole \/ validateRole(role)
    /\ pc \in {"naming", "create"} => RoleLike(wanted) /\ validateRole(wanted)

\* The entry is put before a robot is asked for, and goes by the role that was
\* read.
EntryFollowsHandler ==
    /\ pc \in {"idle", "naming"} => entry = NoEntry
    /\ pc \in {"create", "refused", "created", "cleanup"} => entry # NoEntry
    /\ pc \in {"idle", "naming", "create"} => robots = {}
    /\ pc = "create" =>
          /\ entry.level = wanted.level
          /\ wanted.level = "project" => entry.namespace = wanted.perms[1].namespace

\* While the entry lasts, Harbor has the robot it stands for, or not, and those
\* named after it.
RobotsNamed ==
    entry # NoEntry => \A r \in robots :
        /\ validateRole(r)
        /\ r.level = entry.level
        /\ r.level = "project" => r.perms[1].namespace = entry.namespace
        /\ \/ r.full = OwnName
           \/ \E c \in Copies : HarborRobotName(CopyName(c)) /\ r.full = CopyFullName(c)

\* The rollback works on the entry of a request that is over, and what it has
\* found is the robot of that entry.
RollbackFollowsEntry ==
    /\ rollback.step # "idle" => pc = "over" /\ entry # NoEntry
    /\ rollback.step = "delete" => rollback.found \in Robot
    /\ OnlyOwnFound

IInv ==
    /\ TypeOK
    /\ RoleValid
    /\ EntryFollowsHandler
    /\ RobotsNamed
    /\ RollbackFollowsEntry
    /\ DropMeansGone

=============================================================================
