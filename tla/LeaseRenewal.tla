---------------------------- MODULE LeaseRenewal ----------------------------
(***************************************************************************)
(* Time: how long the lease of one issued robot lasts and when Harbor      *)
(* stops accepting the robot.  Issuance fixes both from the role; a        *)
(* renewal moves the lease, and the robot's duration when it has to; the   *)
(* role may change in between, and renewals of one lease may overlap.      *)
(* internal/backend/path_creds.go, duration.go, secret_robot.go.           *)
(*                                                                         *)
(* Instants and durations are ticks; Harbor counts a robot's duration in   *)
(* days.  What can go wrong before the lease exists is in RobotIssuance.   *)
(***************************************************************************)
EXTENDS Naturals, FiniteSets

CONSTANTS
    Renewal,     \* renewals of the lease that may be under way at once
    Roles,       \* definitions [ttl, max_ttl] the role is given, 0 for unset
    NoRole,      \* the role is deleted
    Increments,  \* increments renewals ask for, 0 for none
    Day,         \* ticks in a day
    DefaultTTL,  \* System().DefaultLeaseTTL()
    SystemMax,   \* System().MaxLeaseTTL()
    Latency,     \* longest time a request to the engine takes
    MaxTime,     \* bound on the clock
    Faults       \* the faults this instance admits

FaultKinds == {"update_error"}
Mishaps == {"overlap", "failed_update"}

ASSUME ConstantsAssumption ==
    /\ Roles \subseteq [ttl : Nat, max_ttl : Nat]
    /\ NoRole \notin Roles
    /\ \A r \in Roles : r.max_ttl > 0 => r.ttl <= r.max_ttl   \* validateRole
    /\ Increments \subseteq Nat
    /\ Day \in Nat \ {0}
    /\ DefaultTTL \in 1..SystemMax
    /\ SystemMax \in Nat
    /\ Latency \in Nat
    /\ MaxTime \in Nat
    /\ Faults \subseteq FaultKinds

VARIABLES
    now,    \* the clock Vault and Harbor share
    role,   \* the stored role, or NoRole
    issuer, \* auth_type of the configuration: a robot may not update robots
    issue,  \* the read of creds/<role>: its step, start and lease terms
    robot,  \* in Harbor: its state, creation time and duration in days
    lease,  \* in Vault: its state, issue and expiry time, and the expires_at kept with it
    renewal, \* each renewal: its step, start, increment, response and findings
    struck  \* the mishaps that have happened; no guard reads it

vars == <<now, role, issuer, issue, robot, lease, renewal, struck>>

Least(a, b) == IF a < b THEN a ELSE b

\* ttlToDays: whole days, rounded up, at least one.
RoundedDown(t) == IF t < Day THEN 1 ELSE t \div Day   \* mutant
Days(t) == IF t = 0 THEN 1 ELSE (t + Day - 1) \div Day

\* expires_at of the robot.
Expiry == robot.created + Day * robot.days

RenewalState == [step : {"idle", "get", "put", "reread", "answer"}, since : Nat,
                 inc : Increments \union {0}, want : Nat, ttl : Nat, max : Nat,
                 seen : Nat, known : Nat, capped : BOOLEAN]

TypeOK ==
    /\ now \in 0..MaxTime
    /\ role \in Roles \union {NoRole}
    /\ issuer \in {"user", "robot"}
    /\ issue \in [step : {"idle", "create", "respond", "over"}, since : Nat, ttl : Nat, max : Nat]
    /\ robot \in [state : {"none", "alive", "deleted"}, created : Nat, days : Nat]
    /\ lease \in [state : {"none", "active", "ended"}, issued : Nat, expire : Nat, known : Nat]
    /\ renewal \in [Renewal -> RenewalState]
    /\ struck \subseteq Mishaps

NotRenewing == [step |-> "idle", since |-> 0, inc |-> 0, want |-> 0, ttl |-> 0,
                max |-> 0, seen |-> 0, known |-> 0, capped |-> FALSE]

Init ==
    /\ now = 0
    /\ role \in Roles
    /\ issuer \in {"user", "robot"}
    /\ issue = [step |-> "idle", since |-> 0, ttl |-> 0, max |-> 0]
    /\ robot = [state |-> "none", created |-> 0, days |-> 0]
    /\ lease = [state |-> "none", issued |-> 0, expire |-> 0, known |-> 0]
    /\ renewal = [p \in Renewal |-> NotRenewing]
    /\ struck = {}

-----------------------------------------------------------------------------
(* Issuance, pathCredsRead                                                 *)

TTL(r) == IF r.ttl > 0 THEN r.ttl ELSE DefaultTTL
MaxTTL(r) == IF r.max_ttl > 0 THEN Least(r.max_ttl, SystemMax) ELSE SystemMax

ReadRole ==
    /\ issue.step = "idle"
    /\ role # NoRole
    /\ issue' = [step |-> "create", since |-> now,
                 ttl |-> Least(TTL(role), MaxTTL(role)), max |-> MaxTTL(role)]
    /\ UNCHANGED <<now, role, issuer, robot, lease, renewal, struck>>

\* Harbor makes the robot, for as many days as max_ttl takes.
CreateRobot ==
    /\ issue.step = "create"
    /\ issue' = [issue EXCEPT !.step = "respond"]
    /\ robot' = [state |-> "alive", created |-> now, days |-> Days(issue.max)]
    /\ UNCHANGED <<now, role, issuer, lease, renewal, struck>>

\* Vault registers the lease when it has the response.
RegisterLease ==
    /\ issue.step = "respond"
    /\ issue' = [step |-> "over", since |-> 0, ttl |-> 0, max |-> 0]
    /\ lease' = [state |-> "active", issued |-> now, expire |-> now + issue.ttl, known |-> Expiry]
    /\ UNCHANGED <<now, role, issuer, robot, renewal, struck>>

-----------------------------------------------------------------------------
(* secretRobotRenew                                                        *)

Goto(p, step) == renewal' = [renewal EXCEPT ![p].step = step]
EndRenewal(p) == renewal' = [renewal EXCEPT ![p] = NotRenewing]

Wanted(r, inc) == IF inc > TTL(r) THEN inc ELSE TTL(r)

\* Harbor is left alone when the expiry kept with the lease is late enough.
\* Vault starts no renewal of a lease that has run out.
RenewBegin(p) ==
    /\ renewal[p].step = "idle"
    /\ lease.state = "active" /\ now < lease.expire
    /\ role # NoRole
    /\ \E inc \in Increments \union {0} :
          LET want == now + Wanted(role, inc)
          IN  renewal' = [renewal EXCEPT ![p] =
                 [step |-> IF lease.known > want THEN "answer" ELSE "get",
                  since |-> now, inc |-> inc, want |-> want, ttl |-> role.ttl,
                  max |-> role.max_ttl, seen |-> 0, known |-> lease.known, capped |-> FALSE]]
    /\ UNCHANGED <<now, role, issuer, issue, robot, lease, struck>>

GetRobot(p) ==
    /\ renewal[p].step = "get"
    /\ \/ /\ robot.state = "alive"
          /\ renewal' = [renewal EXCEPT ![p].step = "put", ![p].seen = Expiry]
       \/ EndRenewal(p)
    /\ UNCHANGED <<now, role, issuer, issue, robot, lease, struck>>

\* capRenewToRobot: neither TTL nor MaxTTL of the response beyond what is left
\* of a robot that expires at exp.
Capped(limit, remaining) == IF limit > 0 THEN Least(limit, remaining) ELSE remaining

LimitTo(p, remaining) ==
    renewal' = [renewal EXCEPT ![p].step = "answer", ![p].capped = TRUE,
                               ![p].ttl = Capped(@, remaining), ![p].max = Capped(@, remaining)]

WarnOnly(p, exp) ==   \* mutant: the warning without the cap
    renewal' = [renewal EXCEPT ![p].step = "answer", ![p].capped = TRUE]
CapUnchecked(p, exp) == LimitTo(p, exp - now)   \* mutant: an expired robot too
CapToRobot(p, exp) == IF exp <= now THEN EndRenewal(p) ELSE LimitTo(p, exp - now)

\* durationForExpiry, counted from the creation of the robot.
DaysFromNow(p) == Days(renewal[p].want - now)   \* mutant: counted from the renewal
DaysWanted(p) == Days(renewal[p].want - robot.created)

\* Two ways in which a renewal leaves the robot or the lease worse than its own
\* record says: it sets a shorter duration while another renewal was under way,
\* or Harbor answers its update with an error although the robot lasts longer than
\* the expires_at kept with the lease, so that the lease is capped to the former.
Overlapping(p) ==
    \/ lease.known # renewal[p].known
    \/ \E q \in Renewal \ {p} : renewal[q].step # "idle"
Cut(p) ==
    IF Overlapping(p) /\ robot.created + Day * DaysWanted(p) < Expiry THEN {"overlap"} ELSE {}
Behind(p) == IF renewal[p].seen # renewal[p].known THEN {"failed_update"} ELSE {}

\* Harbor sets the duration, unless the issuer is a robot or the robot is gone.
MayUpdate == issuer = "user" /\ robot.state = "alive"
SetDuration(p) == MayUpdate /\ robot' = [robot EXCEPT !.days = DaysWanted(p)]

\* UpdateRobot.  On any error the renewal is capped to the expiry it has seen.
\* The error of an update Harbor may make takes the fault, and may hide that it
\* was made.
UpdateRobot(p) ==
    /\ renewal[p].step = "put"
    /\ \/ /\ SetDuration(p)
          /\ Goto(p, "reread")
          /\ struck' = struck \union Cut(p)
       \/ /\ "update_error" \in Faults
          /\ SetDuration(p)
          /\ CapToRobot(p, renewal[p].seen)
          /\ struck' = struck \union Cut(p) \union Behind(p)
       \/ /\ "update_error" \in Faults /\ MayUpdate
          /\ CapToRobot(p, renewal[p].seen)
          /\ struck' = struck \union Behind(p)
          /\ UNCHANGED robot
       \/ /\ ~MayUpdate
          /\ CapToRobot(p, renewal[p].seen)
          /\ UNCHANGED <<robot, struck>>
    /\ UNCHANGED <<now, role, issuer, issue, lease>>

\* The second GetRobot has the last word on the expiry.  An error fails the
\* renewal although the robot has been extended.
RereadRobot(p) ==
    /\ renewal[p].step = "reread"
    /\ \/ /\ robot.state = "alive"
          /\ IF Expiry < renewal[p].want
             THEN CapToRobot(p, Expiry)
             ELSE renewal' = [renewal EXCEPT ![p].step = "answer", ![p].known = Expiry]
       \/ EndRenewal(p)
    /\ UNCHANGED <<now, role, issuer, issue, robot, lease, struck>>

\* What Vault makes of the response: the increment or the TTL, but nothing
\* beyond MaxTTL from the time the lease was issued.
Limit(p) == lease.issued + IF renewal[p].max > 0 THEN Least(renewal[p].max, SystemMax) ELSE SystemMax
Granted(p) ==
    IF renewal[p].inc > 0 THEN renewal[p].inc
    ELSE IF renewal[p].ttl > 0 THEN renewal[p].ttl ELSE DefaultTTL

RenewAnswer(p) ==
    /\ renewal[p].step = "answer"
    /\ lease' = IF lease.state = "active" /\ now < Limit(p)
                THEN [lease EXCEPT !.expire = Least(now + Granted(p), Limit(p)),
                                   !.known = renewal[p].known]
                ELSE lease
    /\ EndRenewal(p)
    /\ UNCHANGED <<now, role, issuer, issue, robot, struck>>

-----------------------------------------------------------------------------
(* The environment                                                         *)

\* The lease runs out or is revoked, at any time.
EndLease ==
    /\ lease.state = "active"
    /\ lease' = [lease EXCEPT !.state = "ended"]
    /\ UNCHANGED <<now, role, issuer, issue, robot, renewal, struck>>

\* Someone deletes the robot in Harbor.
DeleteInHarbor ==
    /\ robot.state = "alive"
    /\ robot' = [robot EXCEPT !.state = "deleted"]
    /\ UNCHANGED <<now, role, issuer, issue, lease, renewal, struck>>

\* pathRoleWrite and pathRoleDelete.
WriteRole ==
    /\ role' \in (Roles \union {NoRole}) \ {role}
    /\ UNCHANGED <<now, issuer, issue, robot, lease, renewal, struck>>

\* No request is under way for longer than Latency.
Tick ==
    /\ now < MaxTime
    /\ issue.step \in {"create", "respond"} => now < issue.since + Latency
    /\ \A p \in Renewal : renewal[p].step # "idle" => now < renewal[p].since + Latency
    /\ now' = now + 1
    /\ UNCHANGED <<role, issuer, issue, robot, lease, renewal, struck>>

-----------------------------------------------------------------------------
Next ==
    \/ ReadRole \/ CreateRobot \/ RegisterLease
    \/ \E p \in Renewal :
          RenewBegin(p) \/ GetRobot(p) \/ UpdateRobot(p) \/ RereadRobot(p) \/ RenewAnswer(p)
    \/ EndLease \/ DeleteInHarbor \/ WriteRole \/ Tick

Spec == Init /\ [][Next]_vars

-----------------------------------------------------------------------------
(* Properties                                                              *)

\* "the robot's Harbor-side expiry always covers the lease" (README.md), but
\* for the time the request took that issued or renewed it: Harbor counts from
\* the creation of the robot and the renewal from its start, Vault from the
\* response.
LeaseAlwaysCovered == lease.state = "active" => lease.expire <= Expiry + Latency

\* It is so through role changes, failed re-reads, failed updates and renewals
\* that overlap, until one of the two mishaps: no other way of secretRobotRenew
\* leads to a lease beyond its robot.
LeaseCovered == struck = {} => LeaseAlwaysCovered

\* The expires_at kept with the lease, which lets a renewal pass without
\* asking Harbor, is never later than the robot's, whatever updates fail; only
\* overlapping renewals of which one shortens the robot leave it behind.
KnownIsSafe ==
    "overlap" \notin struck /\ lease.state = "active" => lease.known <= Expiry

\* "capping the lease at the robot's remaining lifetime so the credential never
\* outlives it" (secret_robot.go): what a renewal that Harbor refused
\* leaves of the lease is within the robot's life, however long the answer took
\* and whatever other renewals did meanwhile, short of the mishaps.
CapHolds ==
    [][\A p \in Renewal :
          /\ struck = {} /\ renewal[p].capped /\ renewal'[p].step = "idle"
          /\ lease' # lease /\ lease'.state = "active"
          => lease'.expire <= Expiry]_vars

\* README.md of robot mode: a renewal that cannot extend the robot is "capped at
\* the robot's remaining lifetime with a warning instead of failing".  So Vault,
\* which counts MaxTTL from the issue of the lease, must not refuse what the
\* engine capped while the lease still runs.
CappedNotRefused ==
    \A p \in Renewal :
        /\ renewal[p].step = "answer" /\ renewal[p].capped
        /\ lease.state = "active" /\ now < lease.expire
        => now < Limit(p)

-----------------------------------------------------------------------------
(* The inductive invariant                                                 *)

\* Issuance: every step within Latency of the first, the robot made for as many
\* days as the lease may last, no lease and no renewal before it is over.
IssueInTime ==
    /\ issue.ttl <= issue.max
    /\ issue.step \in {"create", "respond"} => now \in issue.since..(issue.since + Latency)
    /\ issue.step = "respond" => robot.created \in issue.since..now /\ robot.days = Days(issue.max)
    /\ issue.step # "over" => lease.state = "none"
    /\ lease.state = "none" => \A p \in Renewal : renewal[p].step = "idle"
    /\ lease.state # "none" => robot.created <= lease.issued /\ lease.issued <= now

\* A renewal under way is as old as Latency at most, and until it is capped it
\* wants whatever Vault will grant it.
RenewalInTime ==
    \A p \in Renewal : renewal[p].step # "idle" =>
        /\ renewal[p].since \in lease.issued..now /\ now <= renewal[p].since + Latency
        /\ ~renewal[p].capped => renewal[p].since + Granted(p) <= renewal[p].want
        /\ renewal[p].want > renewal[p].since

InTime ==
    /\ TypeOK
    /\ IssueInTime
    /\ RenewalInTime

\* What a renewal wants is no earlier than what it knew when it asked Harbor, and
\* no later than what it knows when it answers uncapped.
RenewalAsks ==
    \A p \in Renewal :
        /\ renewal[p].capped => renewal[p].step = "answer"
        /\ renewal[p].step \in {"get", "put"} => renewal[p].known <= renewal[p].want
        /\ renewal[p].step = "answer" /\ ~renewal[p].capped => renewal[p].want <= renewal[p].known

\* No renewal has shortened the robot under another one: it lasts as long as the
\* lease's record and every renewal under way believe.
RobotLasts ==
    "overlap" \notin struck =>
        /\ lease.state # "none" => lease.known <= Expiry
        /\ \A p \in Renewal :
              /\ renewal[p].step # "idle" => renewal[p].known <= Expiry
              /\ renewal[p].step = "put" => renewal[p].seen <= Expiry
              /\ renewal[p].step = "reread" => renewal[p].want <= Expiry

\* A capped response ends by an expiry the robot still has; if the robot may be
\* updated again, that is the one kept with the lease.
CapsWithin ==
    struck = {} => \A p \in Renewal : renewal[p].capped =>
        /\ renewal[p].max > 0 /\ lease.issued + renewal[p].max <= renewal[p].seen
        /\ renewal[p].seen <= Expiry
        /\ renewal[p].seen = renewal[p].known \/ ~MayUpdate

\* While a renewal may still change the robot's duration, the lease ends by the
\* expiry kept with it, which no renewal goes below.
CoveredByKnown ==
    struck = {} /\ lease.state = "active" /\ MayUpdate =>
        lease.expire <= lease.known + Latency

IInv ==
    /\ InTime
    /\ RenewalAsks
    /\ RobotLasts
    /\ CapsWithin
    /\ LeaseCovered
    /\ CoveredByKnown

=============================================================================
