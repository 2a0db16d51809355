--------------------------- MODULE MCRobotAccess ---------------------------
(* RobotAccess with two projects, roles of every valid and invalid shape, and *)
(* names over a few characters, for TLC.                                     *)
EXTENDS RobotAccess

CONSTANTS p, q

TwoCharacters == {"a", "f"}
OneCapital == [c \in {"A"} |-> "a"]

Pull(ns) == [kind |-> "project", namespace |-> ns, access |-> {"pull"}]
Scan == [kind |-> "system", namespace |-> Root, access |-> {"pull"}]

\* One permission, two of one project, one of each project, a system one, a
\* mixture; then a rule Harbor does not know and four faults of form.
ManyPermissions ==
    {<<Pull(p)>>, <<Pull(p), Pull(p)>>, <<Pull(p), Pull(q)>>, <<Scan>>, <<Scan, Pull(p)>>,
     <<[Pull(p) EXCEPT !.access = {"robot:update"}]>>,
     <<>>, <<[Pull(p) EXCEPT !.access = {}]>>, <<[Pull(p) EXCEPT !.access = {"incomplete"}]>>,
     <<[Pull(p) EXCEPT !.kind = "other"]>>, <<Pull(NoNamespace)>>}

\* GenericNameRegex, lower-cased: a letter, digit or "_" at both ends.
LegalRoleNames ==
    {s \in UNION {[1..n -> {"a", "_", "."}] : n \in 1..3} :
        Head(s) # "." /\ Last(s) # "."}

\* pathConfigWrite accepts the empty prefix and any that survives normalisation.
LegalPrefixes ==
    {s \in UNION {[1..n -> {"A", "$"}] : n \in 0..2} :
        s = <<>> \/ normalizeSegment(s) # <<>>}

RandomSuffix == <<"f">>

\* "robot$" and "robot_".
DefaultAndOther == {<<"r", "$">>, <<"r", "_">>}

\* A robot's name with something behind it, or before it.
BehindAndBefore == {<<<<>>, <<"-", "a">>>>, <<<<"a", "_">>, <<>>>>}

RobotRules == {"robot:create", "robot:read", "robot:list", "robot:delete"}
User(sysadmin, admin) == [type |-> "user", sysadmin |-> sysadmin, admin |-> admin, perms |-> {}]
IssuerRobot(perms) == [type |-> "robot", sysadmin |-> FALSE, admin |-> {}, perms |-> perms]
Held(kind, ns, rules) == [kind |-> kind, namespace |-> ns, access |-> rules]

Sysadmin == User(TRUE, {})

\* A system and a project administrator; a robot for one project, one for all
\* of them and the system; one that may create but neither list nor delete.
ManyIssuers ==
    {Sysadmin, User(FALSE, {p}),
     IssuerRobot({Held("project", p, RobotRules \union {"pull"})}),
     IssuerRobot({Held("project", "*", RobotRules \union {"pull"}), Held("system", Root, RobotRules \union {"pull"})}),
     IssuerRobot({Held("project", p, {"robot:create", "pull"})})}
=============================================================================
