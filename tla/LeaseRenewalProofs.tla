------------------------- MODULE LeaseRenewalProofs -------------------------
(***************************************************************************)
(* LeaseRenewal keeps InTime and IInv, for any number of overlapping       *)
(* renewals and whatever updates err: what a mishap costs is in IInv, whose*)
(* conjuncts name the mishaps that excuse them.  Each action has a lemma   *)
(* for InTime and one for the rest of IInv; all hold for every role,       *)
(* increment, length of a day and Latency.                                 *)
(***************************************************************************)
EXTENDS LeaseRenewal, TLAPS

\* ttlToDays rounds up: a robot made for Days(t) days lasts t ticks at least.
LEMMA DaysCover ==
    ASSUME NEW t \in Nat
    PROVE  Days(t) \in Nat /\ t <= Day * Days(t)
<1>1. CASE t = 0
  BY <1>1, ConstantsAssumption DEF Days
<1>2. CASE t # 0
  <2> DEFINE q == (t + Day - 1) \div Day
             m == (t + Day - 1) % Day
  <2>1. Day \in Nat \ {0} /\ t + Day - 1 \in Nat
    BY ConstantsAssumption
  <2>2. q \in Nat /\ m \in 0..(Day-1) /\ t + Day - 1 = Day * q + m
    BY <2>1
  <2>3. Days(t) = q
    BY <1>2 DEF Days
  <2> HIDE DEF q, m
  <2> QED BY <2>1, <2>2, <2>3
<1> QED BY <1>1, <1>2

\* The robot's expiry is an instant.
LEMMA ExpiryIsNat == TypeOK => Expiry \in Nat
BY ConstantsAssumption DEF TypeOK, Expiry

\* It depends on the creation time and the duration only.
LEMMA ExpiryKept ==
    robot'.created = robot.created /\ robot'.days = robot.days => Expiry' = Expiry
BY DEF Expiry

\* A renewal that is not under way is idle.
LEMMA NotRenewingState ==
    NotRenewing \in RenewalState /\ NotRenewing.step = "idle" /\ ~NotRenewing.capped
BY DEF NotRenewing, RenewalState

\* Least is one of its arguments and at most either.
LEMMA LeastBelow ==
    ASSUME NEW a \in Nat, NEW b \in Nat
    PROVE  /\ Least(a, b) \in {a, b}
           /\ Least(a, b) <= a /\ Least(a, b) <= b
BY DEF Least

\* The TTL and the maximum of a role are positive, defaults included.
LEMMA RoleTerms ==
    ASSUME NEW r \in Roles
    PROVE  /\ r.ttl \in Nat /\ r.max_ttl \in Nat
           /\ TTL(r) \in Nat /\ TTL(r) > 0 /\ MaxTTL(r) \in Nat
           /\ r.ttl > 0 => TTL(r) = r.ttl
           /\ r.ttl = 0 => TTL(r) = DefaultTTL
BY ConstantsAssumption, LeastBelow DEF TTL, MaxTTL

\* Vault grants a positive time, and nothing beyond the maximum of the response
\* from the issue of the lease.
LEMMA GrantTypes ==
    ASSUME TypeOK, NEW p \in Renewal
    PROVE  /\ Granted(p) \in Nat /\ Granted(p) > 0
           /\ Limit(p) \in Nat
           /\ renewal[p].max > 0 => Limit(p) <= lease.issued + renewal[p].max
<1>1. renewal[p] \in RenewalState /\ lease.issued \in Nat
  BY DEF TypeOK
<1>2. /\ renewal[p].inc \in Nat /\ renewal[p].ttl \in Nat /\ renewal[p].max \in Nat
      /\ DefaultTTL \in Nat /\ DefaultTTL > 0 /\ SystemMax \in Nat /\ SystemMax > 0
  <2>1. renewal[p].inc \in Increments \union {0}
    BY <1>1 DEF RenewalState
  <2>2. renewal[p].ttl \in Nat /\ renewal[p].max \in Nat
    BY <1>1 DEF RenewalState
  <2>3. renewal[p].inc \in Nat
    <3>1. Increments \subseteq Nat
      BY ConstantsAssumption
    <3>2. \A i \in Increments : i \in Nat
      BY <3>1
    <3> QED
      BY <2>1, <3>2
  <2>4. DefaultTTL \in Nat /\ DefaultTTL > 0 /\ SystemMax \in Nat /\ SystemMax > 0
    BY ConstantsAssumption
  <2> QED
    BY <2>2, <2>3, <2>4
<1>3. Granted(p) \in Nat /\ Granted(p) > 0
  BY <1>2 DEF Granted
<1>4. CASE renewal[p].max > 0
  <2>1. Limit(p) = lease.issued + Least(renewal[p].max, SystemMax)
    BY <1>4 DEF Limit
  <2> QED
    BY <1>1, <1>2, <1>3, <2>1, LeastBelow
<1>5. CASE renewal[p].max = 0
  <2>1. Limit(p) = lease.issued + SystemMax
    BY <1>5, <1>2 DEF Limit
  <2> QED
    BY <1>1, <1>2, <1>3, <1>5, <2>1
<1> QED
  BY <1>2, <1>4, <1>5

\* A capped response is a response.
LEMMA CappedState ==
    ASSUME NEW s \in RenewalState, NEW t \in Nat, NEW m \in Nat
    PROVE  [s EXCEPT !.step = "answer", !.capped = TRUE, !.ttl = t, !.max = m]
               \in RenewalState
BY DEF RenewalState

\* capRenewToRobot ends the renewal, or leaves a maximum that ends by the expiry
\* it was given.
LEMMA CapResult ==
    ASSUME TypeOK, NEW p \in Renewal, NEW exp \in Nat, CapToRobot(p, exp)
    PROVE  /\ renewal' \in [Renewal -> RenewalState]
           /\ \A q \in Renewal : q # p => renewal'[q] = renewal[q]
           /\ \/ renewal'[p] = NotRenewing
              \/ /\ renewal'[p].step = "answer" /\ renewal'[p].capped
                 /\ renewal'[p].since = renewal[p].since
                 /\ renewal'[p].want = renewal[p].want
                 /\ renewal'[p].known = renewal[p].known
                 /\ renewal'[p].seen = renewal[p].seen
                 /\ renewal'[p].max > 0 /\ now + renewal'[p].max <= exp
<1>1. CASE exp <= now
  BY <1>1, NotRenewingState DEF TypeOK, CapToRobot, EndRenewal
<1>2. CASE exp > now
  <2>1. LimitTo(p, exp - now) /\ now \in Nat /\ exp - now \in Nat /\ exp - now > 0
    BY <1>2 DEF TypeOK, CapToRobot
  <2>2. \A limit \in Nat : /\ Capped(limit, exp - now) \in Nat
                           /\ Capped(limit, exp - now) > 0
                           /\ Capped(limit, exp - now) <= exp - now
    BY <2>1, LeastBelow DEF Capped
  <2>3. renewal[p].ttl \in Nat /\ renewal[p].max \in Nat
    BY DEF TypeOK, RenewalState
  <2>4. renewal' \in [Renewal -> RenewalState]
    <3>1. /\ Capped(renewal[p].ttl, exp - now) \in Nat
          /\ Capped(renewal[p].max, exp - now) \in Nat
      BY <2>2, <2>3
    <3>2. renewal' = [renewal EXCEPT ![p] = [renewal[p] EXCEPT
              !.step = "answer", !.capped = TRUE,
              !.ttl = Capped(renewal[p].ttl, exp - now),
              !.max = Capped(renewal[p].max, exp - now)]]
      BY <2>1 DEF LimitTo, TypeOK
    <3> QED
      BY <3>1, <3>2, CappedState DEF TypeOK
  <2>5. /\ renewal'[p].max = Capped(renewal[p].max, exp - now)
        /\ renewal'[p].step = "answer" /\ renewal'[p].capped
        /\ renewal'[p].since = renewal[p].since
        /\ renewal'[p].want = renewal[p].want
        /\ renewal'[p].known = renewal[p].known
        /\ renewal'[p].seen = renewal[p].seen
        /\ \A q \in Renewal : q # p => renewal'[q] = renewal[q]
    BY <2>1 DEF LimitTo, TypeOK
  <2> QED
    BY <2>1, <2>2, <2>3, <2>4, <2>5
<1> QED
  BY <1>1, <1>2 DEF TypeOK

\* durationForExpiry, counted from the creation of the robot: after the update
\* the robot lasts as long as the renewal wants.
LEMMA ExtensionReaches ==
    ASSUME InTime, NEW p \in Renewal, renewal[p].step = "put",
           robot' = [robot EXCEPT !.days = DaysWanted(p)]
    PROVE  /\ robot' \in [state : {"none", "alive", "deleted"}, created : Nat, days : Nat]
           /\ robot'.created = robot.created /\ robot'.state = robot.state
           /\ Expiry' = robot.created + Day * DaysWanted(p)
           /\ Expiry' \in Nat /\ renewal[p].want <= Expiry'
<1>1. robot.created \in Nat /\ renewal[p].want - robot.created \in Nat
  BY DEF InTime, TypeOK, RenewalState, IssueInTime, RenewalInTime
<1>2. DaysWanted(p) \in Nat /\ renewal[p].want <= robot.created + Day * DaysWanted(p)
  BY <1>1, DaysCover, ConstantsAssumption DEF DaysWanted, InTime, TypeOK,
     RenewalState
<1>3. /\ robot' \in [state : {"none", "alive", "deleted"}, created : Nat, days : Nat]
      /\ robot'.created = robot.created /\ robot'.state = robot.state
      /\ robot'.days = DaysWanted(p)
  BY <1>2 DEF InTime, TypeOK
<1>4. Expiry' = robot.created + Day * DaysWanted(p)
  BY <1>3 DEF Expiry
<1> QED
  BY <1>1, <1>2, <1>3, <1>4, ConstantsAssumption

-----------------------------------------------------------------------------
(* The actions                                                             *)

\* The rest of IInv speaks of the times of robot and lease and of what renewals
\* know: a step that leaves these alone keeps it, also when lease or robot ends.
LEMMA KeptUnlessMoved ==
    ASSUME IInv, InTime', UNCHANGED <<issuer, renewal, struck>>,
           robot'.created = robot.created, robot'.days = robot.days,
           robot'.state \in {robot.state, "deleted"},
           lease'.issued = lease.issued, lease'.expire = lease.expire,
           lease'.known = lease.known,
           lease' = lease \/ (lease.state = "active" /\ lease'.state = "ended")
    PROVE  IInv'
<1>1. Expiry' = Expiry /\ (MayUpdate' => MayUpdate)
  BY ExpiryKept DEF MayUpdate
<1>2. RenewalAsks'
  BY DEF IInv, RenewalAsks
<1>3. RobotLasts'
  BY <1>1 DEF IInv, RobotLasts
<1>4. CapsWithin'
  BY <1>1 DEF IInv, CapsWithin
<1>5. LeaseCovered' /\ CoveredByKnown'
  BY <1>1 DEF IInv, LeaseCovered, LeaseAlwaysCovered, CoveredByKnown
<1> QED
  BY <1>2, <1>3, <1>4, <1>5 DEF IInv

\* The lease terms come from the role: a TTL of at most the maximum.
LEMMA ReadRoleInTime ==
    ASSUME InTime, ReadRole
    PROVE  InTime'
<1>1. /\ issue'.ttl \in Nat /\ issue'.max \in Nat /\ issue'.ttl <= issue'.max
      /\ issue'.step = "create" /\ issue'.since = now
      /\ issue' \in [step : {"idle", "create", "respond", "over"},
                      since : Nat, ttl : Nat, max : Nat]
  BY RoleTerms, LeastBelow DEF InTime, TypeOK, ReadRole
<1>2. TypeOK'
  BY <1>1 DEF InTime, TypeOK, ReadRole
<1>3. IssueInTime'
  BY <1>1, ConstantsAssumption DEF InTime, IssueInTime, ReadRole
<1>4. RenewalInTime'
  BY <1>1 DEF InTime, RenewalInTime, Granted, ReadRole
<1> QED
  BY <1>2, <1>3, <1>4 DEF InTime

\* There is no lease yet.
LEMMA ReadRoleKeeps ==
    ASSUME IInv, ReadRole
    PROVE  IInv'
BY ReadRoleInTime, KeptUnlessMoved DEF IInv, ReadRole

\* The robot is made while the request runs, for the days the maximum takes.
LEMMA CreateRobotInTime ==
    ASSUME InTime, CreateRobot
    PROVE  InTime'
<1>1. TypeOK'
  BY DaysCover DEF InTime, TypeOK, CreateRobot
<1>2. IssueInTime'
  BY DEF InTime, IssueInTime, CreateRobot
<1>3. RenewalInTime'
  BY DEF InTime, RenewalInTime, Granted, CreateRobot
<1> QED
  BY <1>1, <1>2, <1>3 DEF InTime

\* There is no lease yet, and no renewal that knows the robot.
LEMMA CreateRobotKeeps ==
    ASSUME IInv, CreateRobot
    PROVE  IInv'
<1>1. InTime'
  BY CreateRobotInTime DEF IInv
<1>2. /\ lease.state = "none" /\ \A p \in Renewal : renewal[p].step = "idle" /\ ~renewal[p].capped
      /\ UNCHANGED <<lease, renewal, struck>>
  BY DEF IInv, InTime, IssueInTime, RenewalAsks, CreateRobot
<1>3. RenewalAsks' /\ RobotLasts' /\ CapsWithin' /\ LeaseCovered' /\ CoveredByKnown'
  BY <1>2 DEF RenewalAsks, RobotLasts, CapsWithin, LeaseCovered, LeaseAlwaysCovered,
     CoveredByKnown
<1> QED
  BY <1>1, <1>3 DEF IInv

\* The lease is registered within Latency of the request, and after the robot
\* was made.
LEMMA RegisterLeaseInTime ==
    ASSUME InTime, RegisterLease
    PROVE  InTime'
<1>1. /\ issue.max \in Nat /\ robot.days = Days(issue.max) /\ issue.max <= Day * Days(issue.max)
      /\ robot.created >= issue.since /\ now <= issue.since + Latency /\ issue.ttl <= issue.max
  BY DaysCover DEF InTime, TypeOK, IssueInTime, RegisterLease
<1>2. issue.max + robot.created <= Expiry
  BY <1>1, ConstantsAssumption DEF InTime, TypeOK, Expiry
<1>3. TypeOK'
  BY <1>1, <1>2, ExpiryIsNat DEF InTime, TypeOK, RegisterLease
<1>4. IssueInTime'
  BY <1>1, <1>2 DEF InTime, IssueInTime, RegisterLease
<1>5. RenewalInTime'
  BY <1>1, <1>2 DEF InTime, IssueInTime, RenewalInTime, RegisterLease
<1> QED
  BY <1>3, <1>4, <1>5 DEF InTime

\* The lease starts at most Latency after the request did, and the robot lasts
\* for its maximum from its creation: the lease is covered.
LEMMA RegisterLeaseKeeps ==
    ASSUME IInv, RegisterLease
    PROVE  IInv'
<1>1. /\ issue.max \in Nat /\ robot.days = Days(issue.max) /\ issue.max <= Day * Days(issue.max)
      /\ robot.created >= issue.since /\ now <= issue.since + Latency /\ issue.ttl <= issue.max
  BY DaysCover DEF IInv, InTime, TypeOK, IssueInTime, RegisterLease
<1>2. issue.max + robot.created <= Expiry
  BY <1>1, ConstantsAssumption DEF IInv, InTime, TypeOK, Expiry
<1>3. InTime'
  BY RegisterLeaseInTime DEF IInv
<1>4. /\ \A p \in Renewal : renewal[p].step = "idle" /\ ~renewal[p].capped
      /\ UNCHANGED <<now, robot, renewal, struck>> /\ Expiry' = Expiry /\ Expiry \in Nat
      /\ lease' = [state |-> "active", issued |-> now, expire |-> now + issue.ttl, known |-> Expiry]
  BY ExpiryIsNat, ExpiryKept DEF IInv, InTime, IssueInTime, RenewalAsks, RegisterLease
<1>5. RenewalAsks' /\ RobotLasts' /\ CapsWithin'
  BY <1>4 DEF RenewalAsks, RobotLasts, CapsWithin
<1>6. lease'.expire <= Expiry + Latency
  BY <1>1, <1>2, <1>4, ConstantsAssumption DEF IInv, InTime, TypeOK
<1>7. LeaseCovered' /\ CoveredByKnown'
  BY <1>4, <1>6 DEF LeaseCovered, LeaseAlwaysCovered, CoveredByKnown
<1> QED
  BY <1>3, <1>5, <1>7 DEF IInv

\* A renewal wants as much as Vault will grant it.
LEMMA RenewBeginInTime ==
    ASSUME InTime, NEW p \in Renewal, RenewBegin(p)
    PROVE  InTime'
<1>1. TypeOK'
  BY ConstantsAssumption, RoleTerms DEF InTime, TypeOK, RenewalState,
     RenewBegin, Wanted
<1>2. IssueInTime'
  BY DEF InTime, IssueInTime, RenewBegin
<1>3. RenewalInTime'
  BY ConstantsAssumption, RoleTerms DEF InTime, TypeOK, IssueInTime,
     RenewalInTime, Granted, RenewBegin, Wanted
<1> QED
  BY <1>1, <1>2, <1>3 DEF InTime

\* The expiry kept with the lease is late enough, or the robot is read.
LEMMA RenewBeginKeeps ==
    ASSUME IInv, NEW p \in Renewal, RenewBegin(p)
    PROVE  IInv'
<1>1. InTime'
  BY RenewBeginInTime DEF IInv
<1>2. /\ renewal' = [renewal EXCEPT ![p] = renewal'[p]]
      /\ UNCHANGED <<issuer, robot, lease, struck>> /\ Expiry' = Expiry
  BY ExpiryKept DEF IInv, InTime, TypeOK, RenewBegin
<1>3. /\ ~renewal'[p].capped /\ renewal'[p].known = lease.known
      /\ \/ renewal'[p].step = "answer" /\ lease.known > renewal'[p].want
         \/ renewal'[p].step = "get" /\ lease.known <= renewal'[p].want
  <2>1. PICK inc \in Increments \union {0} :
          LET want == now + Wanted(role, inc)
          IN  renewal' = [renewal EXCEPT ![p] =
                 [step |-> IF lease.known > want THEN "answer" ELSE "get",
                  since |-> now, inc |-> inc, want |-> want, ttl |-> role.ttl,
                  max |-> role.max_ttl, seen |-> 0, known |-> lease.known, capped |-> FALSE]]
    BY DEF RenewBegin
  <2> DEFINE want == now + Wanted(role, inc)
  <2>2. want \in Nat /\ lease.known \in Nat
    BY ConstantsAssumption, RoleTerms DEF IInv, InTime, TypeOK, RenewBegin, Wanted
  <2>3. renewal'[p] = [step |-> IF lease.known > want THEN "answer" ELSE "get",
                       since |-> now, inc |-> inc, want |-> want, ttl |-> role.ttl,
                       max |-> role.max_ttl, seen |-> 0, known |-> lease.known, capped |-> FALSE]
    BY <2>1 DEF IInv, InTime, TypeOK
  <2> HIDE DEF want
  <2>4. CASE lease.known > want
    BY <2>2, <2>3, <2>4
  <2>5. CASE lease.known <= want
    BY <2>2, <2>3, <2>5
  <2> QED
    BY <2>2, <2>4, <2>5
<1>4. RenewalAsks'
  BY <1>2, <1>3, <1>1 DEF IInv, InTime, TypeOK, RenewalState, RenewalAsks
<1>5. RobotLasts' /\ CapsWithin'
  BY <1>2, <1>3 DEF IInv, InTime, TypeOK, RobotLasts, CapsWithin, MayUpdate, RenewBegin
<1>6. LeaseCovered' /\ CoveredByKnown'
  BY <1>2 DEF IInv, LeaseCovered, LeaseAlwaysCovered, CoveredByKnown, MayUpdate
<1> QED
  BY <1>1, <1>4, <1>5, <1>6 DEF IInv

\* Reading the robot changes neither the request's age nor what it wants.
LEMMA GetRobotInTime ==
    ASSUME InTime, NEW p \in Renewal, GetRobot(p)
    PROVE  InTime'
<1>1. TypeOK'
  BY ConstantsAssumption, NotRenewingState, ExpiryIsNat, ExpiryKept
     DEF InTime, TypeOK, RenewalState, GetRobot, EndRenewal
<1>2. IssueInTime'
  BY DEF InTime, IssueInTime, GetRobot
<1>3. RenewalInTime'
  BY NotRenewingState DEF InTime, TypeOK, RenewalState, RenewalInTime,
     Granted, GetRobot, EndRenewal
<1> QED
  BY <1>1, <1>2, <1>3 DEF InTime

\* The renewal has seen the robot's expiry.
LEMMA GetRobotKeeps ==
    ASSUME IInv, NEW p \in Renewal, GetRobot(p)
    PROVE  IInv'
<1>1. InTime'
  BY GetRobotInTime DEF IInv
<1>2. UNCHANGED <<issuer, robot, lease, struck>> /\ Expiry' = Expiry /\ Expiry \in Nat
  BY ExpiryKept, ExpiryIsNat DEF IInv, InTime, GetRobot
<1>3. /\ \A q \in Renewal : q # p => renewal'[q] = renewal[q]
      /\ renewal[p].step = "get" /\ ~renewal[p].capped
      /\ \/ renewal'[p] = NotRenewing
         \/ /\ renewal'[p].step = "put" /\ renewal'[p].seen = Expiry /\ ~renewal'[p].capped
            /\ renewal'[p].known = renewal[p].known /\ renewal'[p].want = renewal[p].want
  BY DEF IInv, InTime, TypeOK, RenewalState, RenewalAsks, GetRobot, EndRenewal
<1>4. RenewalAsks'
  BY <1>3, NotRenewingState DEF IInv, RenewalAsks
<1>5. RobotLasts' /\ CapsWithin'
  BY <1>2, <1>3, NotRenewingState DEF IInv, RobotLasts, CapsWithin, MayUpdate
<1>6. LeaseCovered' /\ CoveredByKnown'
  BY <1>2 DEF IInv, LeaseCovered, LeaseAlwaysCovered, CoveredByKnown, MayUpdate
<1> QED
  BY <1>1, <1>4, <1>5, <1>6 DEF IInv

\* What UpdateRobot leaves: Harbor set the duration and the renewal reads it
\* again; or the renewal is capped to the expiry it had seen, or over.  Without a
\* mishap it shortens the robot only if it is the only renewal, and caps to the
\* expiry kept with the lease.
LEMMA UpdateResult ==
    ASSUME InTime, NEW p \in Renewal, UpdateRobot(p)
    PROVE  /\ robot' \in [state : {"none", "alive", "deleted"}, created : Nat, days : Nat]
           /\ robot'.created = robot.created /\ robot'.state = robot.state
           /\ Expiry \in Nat /\ Expiry' \in Nat
           /\ robot' = robot => Expiry' = Expiry
           /\ robot' # robot => MayUpdate /\ renewal[p].want <= Expiry'
           /\ struck \subseteq struck' /\ struck' \subseteq Mishaps
           /\ "overlap" \notin struck' => Expiry <= Expiry' \/ ~Overlapping(p)
           /\ renewal' \in [Renewal -> RenewalState]
           /\ \A q \in Renewal : q # p => renewal'[q] = renewal[q]
           /\ \/ renewal'[p] = NotRenewing
              \/ /\ renewal'[p].step = "reread" /\ renewal[p].want <= Expiry'
                 /\ \A x \in {"since", "inc", "want", "ttl", "max", "known", "capped"} :
                       renewal'[p][x] = renewal[p][x]
              \/ /\ renewal'[p].step = "answer" /\ renewal'[p].capped
                 /\ \A x \in {"since", "want", "known", "seen"} : renewal'[p][x] = renewal[p][x]
                 /\ renewal'[p].max > 0 /\ now + renewal'[p].max <= renewal[p].seen
                 /\ struck' = {} => renewal[p].seen = renewal[p].known \/ ~MayUpdate
<1>1. /\ renewal[p].step = "put" /\ renewal[p].seen \in Nat
      /\ UNCHANGED <<now, role, issuer, issue, lease>>
  BY DEF InTime, TypeOK, RenewalState, UpdateRobot
<1>2. CASE SetDuration(p) /\ struck' \in {struck \union Cut(p), struck \union Cut(p) \union Behind(p)}
  <2>1. MayUpdate /\ robot' = [robot EXCEPT !.days = DaysWanted(p)]
    BY <1>2 DEF SetDuration
  <2>2. /\ robot' \in [state : {"none", "alive", "deleted"}, created : Nat, days : Nat]
        /\ robot'.created = robot.created /\ robot'.state = robot.state
        /\ Expiry \in Nat /\ Expiry' \in Nat /\ renewal[p].want <= Expiry'
        /\ Expiry' = robot.created + Day * DaysWanted(p)
        /\ robot' = robot => Expiry' = Expiry
    BY <1>1, <2>1, ExtensionReaches, ExpiryIsNat DEF InTime, Expiry
  <2>3. Cut(p) \subseteq Mishaps /\ Behind(p) \subseteq Mishaps
    BY DEF Cut, Behind, Mishaps
  <2>4. struck \subseteq struck' /\ struck' \subseteq Mishaps
    BY <1>2, <2>3 DEF InTime, TypeOK
  <2>5. ASSUME "overlap" \notin struck'
        PROVE  Expiry <= Expiry' \/ ~Overlapping(p)
    <3>1. "overlap" \notin Cut(p)
      BY <1>2, <2>5
    <3> QED
      BY <3>1, <2>2 DEF Cut
  <2>6. CASE Goto(p, "reread")
    BY <2>1, <2>2, <2>4, <2>5, <2>6 DEF Goto, InTime, TypeOK, RenewalState
  <2>7. CASE CapToRobot(p, renewal[p].seen) /\ struck' = struck \union Cut(p) \union Behind(p)
    <3>1. struck' = {} => renewal[p].seen = renewal[p].known
      BY <2>7 DEF Behind
    <3> QED
      BY <1>1, <2>1, <2>2, <2>4, <2>5, <2>7, <3>1, CapResult DEF InTime
  <2> QED
    BY <1>2, <2>1, <2>6, <2>7 DEF UpdateRobot, MayUpdate
<1>3. CASE /\ robot' = robot /\ CapToRobot(p, renewal[p].seen)
           /\ \/ MayUpdate /\ struck' = struck \union Behind(p)
              \/ ~MayUpdate /\ struck' = struck
  <2>1. Expiry \in Nat /\ Expiry' = Expiry
    BY <1>3, ExpiryIsNat DEF InTime, Expiry
  <2>2. struck \subseteq struck' /\ struck' \subseteq Mishaps
    BY <1>3 DEF Behind, Mishaps, InTime, TypeOK
  <2>3. struck' = {} => renewal[p].seen = renewal[p].known \/ ~MayUpdate
    BY <1>3 DEF Behind
  <2> QED
    BY <1>1, <1>3, <2>1, <2>2, <2>3, CapResult DEF InTime, TypeOK
<1>4. CASE SetDuration(p) /\ Goto(p, "reread") /\ struck' = struck \union Cut(p)
  BY <1>2, <1>4
<1>5. CASE SetDuration(p) /\ CapToRobot(p, renewal[p].seen)
           /\ struck' = struck \union Cut(p) \union Behind(p)
  BY <1>2, <1>5
<1>6. CASE /\ MayUpdate /\ CapToRobot(p, renewal[p].seen)
           /\ struck' = struck \union Behind(p) /\ UNCHANGED robot
  BY <1>3, <1>6
<1>7. CASE ~MayUpdate /\ CapToRobot(p, renewal[p].seen) /\ UNCHANGED <<robot, struck>>
  BY <1>3, <1>7
<1> QED
  BY <1>4, <1>5, <1>6, <1>7, Zenon DEF UpdateRobot

\* The update moves the robot's expiry only, and caps no time.
LEMMA UpdateRobotInTime ==
    ASSUME InTime, NEW p \in Renewal, UpdateRobot(p)
    PROVE  InTime'
<1>1. /\ renewal[p].step = "put" /\ lease.state # "none" /\ issue.step = "over"
      /\ UNCHANGED <<now, role, issuer, issue, lease>>
  BY DEF InTime, IssueInTime, UpdateRobot
<1>2. TypeOK'
  BY <1>1, UpdateResult DEF InTime, TypeOK
<1>3. IssueInTime'
  BY <1>1, UpdateResult DEF InTime, IssueInTime
<1>4. RenewalInTime'
  BY <1>1, UpdateResult, NotRenewingState DEF InTime, RenewalInTime, Granted
<1> QED
  BY <1>2, <1>3, <1>4 DEF InTime

\* The robot is set to what the renewal wants, which is later than the expiry it
\* knew; without a mishap nobody else knows a later one.  A capped renewal ends
\* by the expiry it saw.
LEMMA UpdateRobotKeeps ==
    ASSUME IInv, NEW p \in Renewal, UpdateRobot(p)
    PROVE  IInv'
<1>1. /\ renewal[p].step = "put" /\ lease.state # "none"
      /\ ~renewal[p].capped /\ renewal[p].known <= renewal[p].want
      /\ InTime /\ UNCHANGED <<now, role, issuer, issue, lease>>
      /\ robot'.state = robot.state
      /\ MayUpdate' = MayUpdate
  BY UpdateResult DEF IInv, InTime, IssueInTime, RenewalAsks, UpdateRobot, MayUpdate
<1>2. InTime'
  BY <1>1, UpdateRobotInTime
<1>3. RenewalAsks'
  BY <1>1, UpdateResult, NotRenewingState DEF IInv, RenewalAsks
<1> DEFINE Sound == "overlap" \notin struck'
<1>4. ASSUME Sound
      PROVE  /\ "overlap" \notin struck
             /\ lease.known <= Expiry'
             /\ \A q \in Renewal : renewal[q].step # "idle" => renewal[q].known <= Expiry'
             /\ renewal'[p].step = "answer" => renewal[p].seen <= Expiry' \/ Expiry' < Expiry
  <2>1. "overlap" \notin struck
    BY <1>4, UpdateResult, <1>1
  <2>2. /\ lease.known <= Expiry /\ renewal[p].seen <= Expiry
        /\ \A q \in Renewal : renewal[q].step # "idle" => renewal[q].known <= Expiry
    BY <1>1, <2>1 DEF IInv, RobotLasts
  <2>3. Expiry \in Nat /\ Expiry' \in Nat /\ lease.known \in Nat
        /\ \A q \in Renewal : renewal[q].known \in Nat /\ renewal[q].seen \in Nat /\ renewal[q].want \in Nat
    BY <1>1, UpdateResult DEF InTime, TypeOK, RenewalState
  <2>4. CASE Expiry <= Expiry'
    BY <2>1, <2>2, <2>3, <2>4
  <2>5. CASE Expiry' < Expiry
    <3>1. ~Overlapping(p)
      BY <1>1, <1>4, <2>3, <2>5, UpdateResult
    <3>2. renewal[p].want <= Expiry'
      BY <1>1, <2>3, <2>5, UpdateResult
    <3> QED
      BY <1>1, <2>1, <2>3, <2>5, <3>1, <3>2 DEF Overlapping
  <2> QED
    BY <2>3, <2>4, <2>5
<1>5. ASSUME Sound, NEW q \in Renewal, q # p
      PROVE  /\ renewal[q].step = "put" => renewal[q].seen <= Expiry'
             /\ renewal[q].step = "reread" => renewal[q].want <= Expiry'
             /\ renewal[q].capped => Expiry <= Expiry'
  <2>1. Expiry \in Nat /\ Expiry' \in Nat
        /\ renewal[q].seen \in Nat /\ renewal[q].want \in Nat
    BY <1>1, UpdateResult DEF InTime, TypeOK, RenewalState
  <2>2. CASE Expiry <= Expiry'
    BY <1>4, <1>5, <2>1, <2>2 DEF IInv, RobotLasts
  <2>3. CASE Expiry' < Expiry
    <3>1. ~Overlapping(p)
      BY <1>1, <1>5, <2>1, <2>3, UpdateResult
    <3>2. renewal[q].step = "idle"
      BY <1>5, <3>1 DEF Overlapping
    <3> QED
      BY <3>2 DEF IInv, RenewalAsks
  <2> QED
    BY <2>1, <2>2, <2>3
<1>6. RobotLasts'
  <2> SUFFICES ASSUME Sound
               PROVE  /\ lease'.state # "none" => lease'.known <= Expiry'
                      /\ \A q \in Renewal :
                            /\ renewal'[q].step # "idle" => renewal'[q].known <= Expiry'
                            /\ renewal'[q].step = "put" => renewal'[q].seen <= Expiry'
                            /\ renewal'[q].step = "reread" => renewal'[q].want <= Expiry'
    BY DEF RobotLasts
  <2>1. lease'.known <= Expiry'
    BY <1>1, <1>4
  <2>2. ASSUME NEW q \in Renewal, q # p
        PROVE  /\ renewal'[q].step # "idle" => renewal'[q].known <= Expiry'
               /\ renewal'[q].step = "put" => renewal'[q].seen <= Expiry'
               /\ renewal'[q].step = "reread" => renewal'[q].want <= Expiry'
    BY <1>1, <1>4, <1>5, <2>2, UpdateResult
  <2>3. /\ renewal'[p].step # "idle" => renewal'[p].known <= Expiry'
        /\ renewal'[p].step # "put"
        /\ renewal'[p].step = "reread" => renewal'[p].want <= Expiry'
    BY <1>1, <1>4, UpdateResult, NotRenewingState
  <2> QED
    BY <2>1, <2>2, <2>3
<1>7. CapsWithin'
  <2> SUFFICES ASSUME struck' = {}, NEW q \in Renewal, renewal'[q].capped
               PROVE  /\ renewal'[q].max > 0 /\ lease.issued + renewal'[q].max <= renewal'[q].seen
                      /\ renewal'[q].seen <= Expiry'
                      /\ renewal'[q].seen = renewal'[q].known \/ ~MayUpdate
    BY <1>1 DEF CapsWithin
  <2>1. struck = {} /\ Sound
    BY <1>1, UpdateResult
  <2>2. CASE q # p
    <3>1. renewal'[q] = renewal[q]
      BY <1>1, <2>2, UpdateResult
    <3>2. /\ renewal[q].max > 0 /\ lease.issued + renewal[q].max <= renewal[q].seen
          /\ renewal[q].seen <= Expiry
          /\ renewal[q].seen = renewal[q].known \/ ~MayUpdate
      BY <2>1, <3>1 DEF IInv, CapsWithin
    <3>3. Expiry <= Expiry'
      BY <1>5, <2>1, <2>2, <3>1
    <3>4. Expiry \in Nat /\ Expiry' \in Nat /\ renewal[q].seen \in Nat
      BY <1>1, UpdateResult DEF InTime, TypeOK, RenewalState
    <3> QED
      BY <3>1, <3>2, <3>3, <3>4
  <2>3. CASE q = p
    <3>1. /\ renewal'[p].step = "answer" /\ renewal'[p].seen = renewal[p].seen
          /\ renewal'[p].known = renewal[p].known
          /\ renewal'[p].max > 0 /\ now + renewal'[p].max <= renewal[p].seen
          /\ renewal[p].seen = renewal[p].known \/ ~MayUpdate
      BY <1>1, <2>3, UpdateResult, NotRenewingState
    <3>2. lease.issued <= now /\ lease.issued \in Nat /\ now \in Nat /\ renewal'[p].max \in Nat
          /\ renewal[p].seen \in Nat /\ Expiry \in Nat /\ Expiry' \in Nat
      BY <1>1, <1>2, UpdateResult DEF InTime, TypeOK, IssueInTime, RenewalState
    <3>3. renewal[p].seen <= Expiry'
      <4>1. CASE MayUpdate
        BY <1>1, <1>4, <2>1, <3>1, <4>1
      <4>2. CASE ~MayUpdate
        <5>1. Expiry' = Expiry
          BY <1>1, <4>2, UpdateResult
        <5> QED
          BY <1>1, <1>4, <2>1, <3>2, <5>1 DEF IInv, RobotLasts
      <4> QED
        BY <4>1, <4>2
    <3> QED
      BY <2>3, <3>1, <3>2, <3>3
  <2> QED
    BY <2>2, <2>3
<1>8. LeaseCovered' /\ CoveredByKnown'
  <2>1. CoveredByKnown'
    BY <1>1, UpdateResult DEF IInv, CoveredByKnown
  <2>2. ASSUME struck' = {}, lease.state = "active"
        PROVE  lease.expire <= Expiry' + Latency
    <3>1. struck = {} /\ Sound
      BY <1>1, <2>2, UpdateResult
    <3>2. /\ Expiry \in Nat /\ Expiry' \in Nat /\ lease.known \in Nat
          /\ lease.expire \in Nat /\ Latency \in Nat
      BY <1>1, UpdateResult, ConstantsAssumption DEF InTime, TypeOK
    <3>3. CASE MayUpdate
      <4>1. lease.expire <= lease.known + Latency
        BY <2>2, <3>1, <3>3 DEF IInv, CoveredByKnown
      <4> QED
        BY <1>4, <3>1, <3>2, <4>1
    <3>4. CASE ~MayUpdate
      <4>1. Expiry' = Expiry
        BY <1>1, <3>4, UpdateResult
      <4> QED
        BY <2>2, <3>1, <4>1 DEF IInv, LeaseCovered, LeaseAlwaysCovered
    <3> QED
      BY <3>3, <3>4
  <2> QED
    BY <1>1, <2>1, <2>2 DEF LeaseCovered, LeaseAlwaysCovered
<1> QED
  BY <1>2, <1>3, <1>6, <1>7, <1>8 DEF IInv

\* The second read caps the response or leaves it as it was.
LEMMA RereadRobotInTime ==
    ASSUME InTime, NEW p \in Renewal, RereadRobot(p)
    PROVE  InTime'
<1>1. TypeOK'
  BY ConstantsAssumption, NotRenewingState, ExpiryIsNat, ExpiryKept, CapResult
     DEF InTime, TypeOK, RenewalState, RereadRobot, EndRenewal
<1>2. IssueInTime'
  BY DEF InTime, IssueInTime, RereadRobot
<1>3. RenewalInTime'
  BY NotRenewingState, ExpiryIsNat, CapResult DEF InTime, TypeOK,
     RenewalState, IssueInTime, RenewalInTime, Granted, RereadRobot,
     EndRenewal
<1> QED
  BY <1>1, <1>2, <1>3 DEF InTime

\* What the second read finds is what the renewal knows, and it covers what the
\* renewal wants; a renewal that finds less has been overlapped.
LEMMA RereadRobotKeeps ==
    ASSUME IInv, NEW p \in Renewal, RereadRobot(p)
    PROVE  IInv'
<1>1. InTime'
  BY RereadRobotInTime DEF IInv
<1>2. /\ UNCHANGED <<issuer, robot, lease, struck>> /\ Expiry' = Expiry /\ Expiry \in Nat
      /\ renewal[p].step = "reread" /\ ~renewal[p].capped
      /\ renewal[p].want \in Nat
  BY ExpiryKept, ExpiryIsNat DEF IInv, InTime, TypeOK, RenewalState, RenewalAsks, RereadRobot
<1>3. /\ \A q \in Renewal : q # p => renewal'[q] = renewal[q]
      /\ \/ renewal'[p] = NotRenewing
         \/ /\ renewal'[p].step = "answer" /\ ~renewal'[p].capped
            /\ renewal'[p].known = Expiry /\ renewal'[p].want <= Expiry
         \/ /\ renewal'[p].step = "answer" /\ renewal'[p].capped
            /\ Expiry < renewal[p].want /\ renewal'[p].known = renewal[p].known
  <2>1. CASE CapToRobot(p, Expiry) /\ Expiry < renewal[p].want
    BY <1>2, <2>1, CapResult DEF IInv, InTime
  <2>2. CASE EndRenewal(p)
    BY <2>2 DEF IInv, InTime, TypeOK, EndRenewal
  <2>3. CASE /\ renewal' = [renewal EXCEPT ![p].step = "answer", ![p].known = Expiry]
             /\ ~(Expiry < renewal[p].want)
    BY <1>2, <2>3 DEF IInv, InTime, TypeOK, RenewalState
  <2> QED
    BY <2>1, <2>2, <2>3 DEF RereadRobot
<1>4. RenewalAsks'
  BY <1>3, NotRenewingState DEF IInv, RenewalAsks
<1>5. "overlap" \notin struck => renewal[p].want <= Expiry
  BY <1>2 DEF IInv, RobotLasts
<1>6. RobotLasts'
  BY <1>2, <1>3, <1>5, NotRenewingState DEF IInv, RobotLasts
<1>7. CapsWithin'
  BY <1>2, <1>3, <1>5, NotRenewingState DEF IInv, CapsWithin, MayUpdate
<1>8. LeaseCovered' /\ CoveredByKnown'
  BY <1>2 DEF IInv, LeaseCovered, LeaseAlwaysCovered, CoveredByKnown, MayUpdate
<1> QED
  BY <1>1, <1>4, <1>6, <1>7, <1>8 DEF IInv

\* Vault moves the lease; it stays issued when it was.
LEMMA RenewAnswerInTime ==
    ASSUME InTime, NEW p \in Renewal, RenewAnswer(p)
    PROVE  InTime'
<1>1. TypeOK'
  <2>1. /\ renewal' \in [Renewal -> RenewalState]
        /\ UNCHANGED <<now, role, issuer, issue, robot, struck>>
    BY NotRenewingState DEF InTime, TypeOK, RenewAnswer, EndRenewal
  <2>2. now + Granted(p) \in Nat /\ Limit(p) \in Nat /\ renewal[p].known \in Nat
    BY GrantTypes DEF InTime, TypeOK, RenewalState
  <2>3. Least(now + Granted(p), Limit(p)) \in Nat
    BY <2>2, LeastBelow
  <2>4. lease' \in [state : {"none", "active", "ended"},
                    issued : Nat, expire : Nat, known : Nat]
    BY <2>2, <2>3 DEF InTime, TypeOK, RenewAnswer
  <2> QED
    BY <2>1, <2>4 DEF InTime, TypeOK
<1>2. IssueInTime'
  BY DEF InTime, IssueInTime, RenewAnswer
<1>3. RenewalInTime'
  BY NotRenewingState DEF InTime, RenewalInTime, Granted, RenewAnswer,
     EndRenewal
<1> QED
  BY <1>1, <1>2, <1>3 DEF InTime

\* The lease is moved to at most Latency beyond what the renewal wanted, which
\* the robot covers, or within the cap.
LEMMA RenewAnswerKeeps ==
    ASSUME IInv, NEW p \in Renewal, RenewAnswer(p)
    PROVE  IInv'
<1>1. InTime'
  BY RenewAnswerInTime DEF IInv
<1>2. /\ UNCHANGED <<now, issuer, robot, struck>> /\ Expiry' = Expiry /\ Expiry \in Nat
      /\ renewal[p].step = "answer" /\ renewal'[p] = NotRenewing
      /\ \A q \in Renewal : q # p => renewal'[q] = renewal[q]
      /\ lease'.issued = lease.issued /\ lease'.state = lease.state
      /\ MayUpdate' = MayUpdate
  BY ExpiryKept, ExpiryIsNat DEF IInv, InTime, TypeOK, RenewAnswer, EndRenewal, MayUpdate
<1>3. \/ lease' = lease
      \/ /\ lease.state = "active" /\ lease'.known = renewal[p].known
         /\ lease'.expire = Least(now + Granted(p), Limit(p))
  BY DEF IInv, InTime, TypeOK, RenewAnswer
<1>4. RenewalAsks'
  BY <1>2, NotRenewingState DEF IInv, RenewalAsks
<1>5. RobotLasts'
  BY <1>2, <1>3, NotRenewingState DEF IInv, RobotLasts
<1>6. CapsWithin'
  BY <1>2, NotRenewingState DEF IInv, CapsWithin
<1>7. ASSUME struck = {}, lease' # lease
      PROVE  /\ MayUpdate => lease'.expire <= lease'.known + Latency
             /\ lease'.expire <= Expiry + Latency
  <2>1. /\ lease'.known = renewal[p].known
        /\ lease'.expire = Least(now + Granted(p), Limit(p))
    BY <1>3, <1>7
  <2>2. /\ Granted(p) \in Nat /\ Limit(p) \in Nat /\ now \in Nat /\ Latency \in Nat
        /\ renewal[p].known \in Nat /\ renewal[p].want \in Nat /\ renewal[p].since \in Nat
        /\ renewal[p].seen \in Nat /\ renewal[p].max \in Nat /\ lease.issued \in Nat
        /\ renewal[p].max > 0 => Limit(p) <= lease.issued + renewal[p].max
    BY GrantTypes, ConstantsAssumption DEF IInv, InTime, TypeOK, RenewalState
  <2>3. lease'.expire \in Nat /\ lease'.expire <= now + Granted(p) /\ lease'.expire <= Limit(p)
    BY <2>1, <2>2, LeastBelow
  <2>4. renewal[p].known <= Expiry
    BY <1>2, <1>7 DEF IInv, RobotLasts
  <2>5. CASE ~renewal[p].capped
    <3>1. renewal[p].since + Granted(p) <= renewal[p].want /\ now <= renewal[p].since + Latency
      BY <1>2, <2>5 DEF IInv, InTime, RenewalInTime
    <3>2. renewal[p].want <= renewal[p].known
      BY <1>2, <2>5 DEF IInv, RenewalAsks
    <3> QED
      BY <1>2, <2>1, <2>2, <2>3, <2>4, <3>1, <3>2
  <2>6. CASE renewal[p].capped
    <3>1. /\ renewal[p].max > 0 /\ lease.issued + renewal[p].max <= renewal[p].seen
          /\ renewal[p].seen <= Expiry
          /\ renewal[p].seen = renewal[p].known \/ ~MayUpdate
      BY <1>7, <2>6 DEF IInv, CapsWithin
    <3>2. lease'.expire <= renewal[p].seen
      BY <2>2, <2>3, <3>1
    <3> QED
      BY <1>2, <2>1, <2>2, <2>3, <3>1, <3>2
  <2> QED
    BY <2>5, <2>6
<1>8. LeaseCovered'
  BY <1>2, <1>7 DEF IInv, LeaseCovered, LeaseAlwaysCovered
<1>9. CoveredByKnown'
  BY <1>2, <1>7 DEF IInv, CoveredByKnown
<1> QED
  BY <1>1, <1>4, <1>5, <1>6, <1>8, <1>9 DEF IInv

\* The lease ends; its times stay.
LEMMA EndLeaseInTime ==
    ASSUME InTime, EndLease
    PROVE  InTime'
<1>1. TypeOK'
  BY DEF InTime, TypeOK, EndLease
<1>2. IssueInTime'
  BY DEF InTime, IssueInTime, EndLease
<1>3. RenewalInTime'
  BY DEF InTime, RenewalInTime, Granted, EndLease
<1> QED
  BY <1>1, <1>2, <1>3 DEF InTime

\* No lease is active any more.
LEMMA EndLeaseKeeps ==
    ASSUME IInv, EndLease
    PROVE  IInv'
BY EndLeaseInTime, KeptUnlessMoved DEF IInv, InTime, TypeOK, EndLease

\* The robot goes; its times stay.
LEMMA DeleteInHarborInTime ==
    ASSUME InTime, DeleteInHarbor
    PROVE  InTime'
<1>1. TypeOK'
  BY DEF InTime, TypeOK, DeleteInHarbor
<1>2. IssueInTime'
  BY DEF InTime, IssueInTime, DeleteInHarbor
<1>3. RenewalInTime'
  BY DEF InTime, RenewalInTime, Granted, DeleteInHarbor
<1> QED
  BY <1>1, <1>2, <1>3 DEF InTime

\* The robot is not there, but its expiry is what it was.
LEMMA DeleteInHarborKeeps ==
    ASSUME IInv, DeleteInHarbor
    PROVE  IInv'
BY DeleteInHarborInTime, KeptUnlessMoved DEF IInv, InTime, TypeOK, DeleteInHarbor

\* What was read from the role stays as it was read.
LEMMA WriteRoleInTime ==
    ASSUME InTime, WriteRole
    PROVE  InTime'
<1>1. TypeOK'
  BY DEF InTime, TypeOK, WriteRole
<1>2. IssueInTime'
  BY DEF InTime, IssueInTime, WriteRole
<1>3. RenewalInTime'
  BY DEF InTime, RenewalInTime, Granted, WriteRole
<1> QED
  BY <1>1, <1>2, <1>3 DEF InTime

\* The role is read once, when a renewal starts.
LEMMA WriteRoleKeeps ==
    ASSUME IInv, WriteRole
    PROVE  IInv'
BY WriteRoleInTime, KeptUnlessMoved DEF IInv, WriteRole

\* The clock waits for requests that have run for Latency.
LEMMA TickInTime ==
    ASSUME InTime, Tick
    PROVE  InTime'
<1>1. TypeOK'
  BY ConstantsAssumption DEF InTime, TypeOK, Tick
<1>2. IssueInTime'
  BY ConstantsAssumption DEF InTime, TypeOK, IssueInTime, Tick
<1>3. RenewalInTime'
  BY ConstantsAssumption DEF InTime, TypeOK, RenewalInTime, Granted, Tick
<1> QED
  BY <1>1, <1>2, <1>3 DEF InTime

\* No property compares the clock with the lease.
LEMMA TickKeeps ==
    ASSUME IInv, Tick
    PROVE  IInv'
BY TickInTime, KeptUnlessMoved DEF IInv, Tick

\* Every step keeps InTime, however renewals overlap.
LEMMA StaysInTime ==
    ASSUME InTime, [Next]_vars
    PROVE  InTime'
<1>1. CASE ReadRole
  BY <1>1, ReadRoleInTime
<1>2. CASE CreateRobot
  BY <1>2, CreateRobotInTime
<1>3. CASE RegisterLease
  BY <1>3, RegisterLeaseInTime
<1>4. ASSUME NEW p \in Renewal, RenewBegin(p) PROVE InTime'
  BY <1>4, RenewBeginInTime
<1>5. ASSUME NEW p \in Renewal, GetRobot(p) PROVE InTime'
  BY <1>5, GetRobotInTime
<1>6. ASSUME NEW p \in Renewal, UpdateRobot(p) PROVE InTime'
  BY <1>6, UpdateRobotInTime
<1>7. ASSUME NEW p \in Renewal, RereadRobot(p) PROVE InTime'
  BY <1>7, RereadRobotInTime
<1>8. ASSUME NEW p \in Renewal, RenewAnswer(p) PROVE InTime'
  BY <1>8, RenewAnswerInTime
<1>9. CASE EndLease
  BY <1>9, EndLeaseInTime
<1>10. CASE DeleteInHarbor
  BY <1>10, DeleteInHarborInTime
<1>11. CASE WriteRole
  BY <1>11, WriteRoleInTime
<1>12. CASE Tick
  BY <1>12, TickInTime
<1>13. CASE UNCHANGED vars
  BY <1>13 DEF vars, InTime, TypeOK, IssueInTime, RenewalInTime, Granted
<1> QED
  BY <1>1, <1>2, <1>3, <1>4, <1>5, <1>6, <1>7, <1>8, <1>9, <1>10, <1>11,
     <1>12, <1>13 DEF Next

\* Every step keeps IInv.
LEMMA StaysIInv ==
    ASSUME IInv, [Next]_vars
    PROVE  IInv'
<1>1. CASE ReadRole
  BY <1>1, ReadRoleKeeps
<1>2. CASE CreateRobot
  BY <1>2, CreateRobotKeeps
<1>3. CASE RegisterLease
  BY <1>3, RegisterLeaseKeeps
<1>4. ASSUME NEW p \in Renewal, RenewBegin(p) PROVE IInv'
  BY <1>4, RenewBeginKeeps
<1>5. ASSUME NEW p \in Renewal, GetRobot(p) PROVE IInv'
  BY <1>5, GetRobotKeeps
<1>6. ASSUME NEW p \in Renewal, UpdateRobot(p) PROVE IInv'
  BY <1>6, UpdateRobotKeeps
<1>7. ASSUME NEW p \in Renewal, RereadRobot(p) PROVE IInv'
  BY <1>7, RereadRobotKeeps
<1>8. ASSUME NEW p \in Renewal, RenewAnswer(p) PROVE IInv'
  BY <1>8, RenewAnswerKeeps
<1>9. CASE EndLease
  BY <1>9, EndLeaseKeeps
<1>10. CASE DeleteInHarbor
  BY <1>10, DeleteInHarborKeeps
<1>11. CASE WriteRole
  BY <1>11, WriteRoleKeeps
<1>12. CASE Tick
  BY <1>12, TickKeeps
<1>13. CASE UNCHANGED vars
  BY <1>13 DEF vars, IInv, InTime, TypeOK, IssueInTime, RenewalInTime,
     RenewalAsks, RobotLasts, CapsWithin, CoveredByKnown, LeaseCovered,
     LeaseAlwaysCovered, MayUpdate, Granted, Expiry
<1> QED
  BY <1>1, <1>2, <1>3, <1>4, <1>5, <1>6, <1>7, <1>8, <1>9, <1>10, <1>11,
     <1>12, <1>13 DEF Next

\* Nothing is under way at first.
LEMMA InitInTime == Init => InTime
BY ConstantsAssumption, NotRenewingState DEF Init, InTime, TypeOK,
   IssueInTime, RenewalInTime

\* And there is no lease.
LEMMA InitIInv == Init => IInv
BY InitInTime, NotRenewingState DEF Init, IInv, RenewalAsks, RobotLasts, CapsWithin,
   LeaseCovered, LeaseAlwaysCovered, CoveredByKnown

-----------------------------------------------------------------------------
(* The theorems                                                            *)

\* InTime, for any number of overlapping renewals and any faults: every request
\* of path_creds.go and secret_robot.go is as old as Latency at most, and what a
\* renewal is granted is within what it asked the robot to last.
THEOREM AlwaysInTime == Spec => []InTime
<1>1. Init => InTime
  BY InitInTime
<1>2. InTime /\ [Next]_vars => InTime'
  BY StaysInTime
<1> QED
  BY <1>1, <1>2, PTL DEF Spec

\* TypeOK: no duration or instant is negative, so durationForExpiry, which
\* subtracts the robot's creation time, and capRenewToRobot never underflow.
THEOREM TypeCorrect == Spec => []TypeOK
<1>1. InTime => TypeOK
  BY DEF InTime
<1> QED
  BY <1>1, AlwaysInTime, PTL

\* IInv: whatever renewals overlap and whatever updates err, what renewals and the
\* lease's record say of the robot is so, up to the mishaps each conjunct names.
THEOREM Inductive == Spec => []IInv
<1>1. Init => IInv
  BY InitIInv
<1>2. IInv /\ [Next]_vars => IInv'
  BY StaysIInv
<1> QED
  BY <1>1, <1>2, PTL DEF Spec

\* KnownIsSafe: the expires_at that secretRobotRenew keeps with the lease, and
\* later trusts without asking Harbor, is never later than the robot's, whatever
\* updates fail, until a renewal shortens the robot under another one.
THEOREM KnownExpirySafe == Spec => []KnownIsSafe
<1>1. IInv => KnownIsSafe
  BY DEF IInv, RobotLasts, KnownIsSafe
<1> QED
  BY <1>1, Inductive, PTL

\* LeaseCovered: the robot outlives its lease, but for Latency, for every role,
\* increment and length of a day and any number of renewals at once, until
\* secretRobotRenew shortens the robot under another renewal or caps a lease to
\* an expiry later than its record.
THEOREM LeasesCovered == Spec => []LeaseCovered
<1>1. IInv => LeaseCovered
  BY DEF IInv
<1> QED
  BY <1>1, Inductive, PTL

\* The answer of a capped renewal leaves the lease within the maximum in it, which
\* ends by the robot's expiry.
LEMMA StepCaps ==
    ASSUME IInv, [Next]_vars, NEW p \in Renewal, struck = {},
           renewal[p].capped, renewal'[p].step = "idle",
           lease' # lease, lease'.state = "active"
    PROVE  lease'.expire <= Expiry
<1>1. renewal[p].step = "answer" /\ lease.state # "none" /\ issue.step = "over"
  BY DEF IInv, InTime, IssueInTime, RenewalAsks
<1>2. CASE RegisterLease
  BY <1>1, <1>2 DEF RegisterLease
<1>3. CASE RenewAnswer(p)
  <2>1. lease'.expire = Least(now + Granted(p), Limit(p))
    BY <1>3 DEF IInv, InTime, RenewAnswer
  <2>2. now + Granted(p) \in Nat /\ Limit(p) \in Nat /\ Expiry \in Nat
        /\ renewal[p].seen \in Nat
    BY GrantTypes, ExpiryIsNat DEF IInv, InTime, TypeOK, RenewalState
  <2>3. Limit(p) <= lease.issued + renewal[p].max /\ lease.issued + renewal[p].max <= Expiry
    BY <2>2, GrantTypes DEF IInv, InTime, TypeOK, RenewalState, CapsWithin
  <2>4. lease.issued + renewal[p].max \in Nat
    BY DEF IInv, InTime, TypeOK, RenewalState
  <2> QED
    BY <2>1, <2>2, <2>3, <2>4, LeastBelow
<1>4. ASSUME NEW q \in Renewal, q # p, RenewAnswer(q)
      PROVE  FALSE
  BY <1>1, <1>4 DEF IInv, InTime, TypeOK, RenewAnswer, EndRenewal
<1>5. CASE ~RegisterLease /\ \A q \in Renewal : ~RenewAnswer(q)
  BY <1>5 DEF Next, vars, ReadRole, CreateRobot, RenewBegin, GetRobot,
     UpdateRobot, RereadRobot, EndLease, DeleteInHarbor, WriteRole, Tick,
     IInv, InTime, TypeOK
<1> QED
  BY <1>2, <1>3, <1>4, <1>5

\* CapHolds: what capRenewToRobot leaves of a lease is within the robot's life,
\* however long the answer takes and whatever other renewals do meanwhile, up to
\* the same two mishaps.
THEOREM CapsHold == Spec => CapHolds
<1>1. IInv /\ [Next]_vars =>
        [\A p \in Renewal :
            /\ struck = {} /\ renewal[p].capped /\ renewal'[p].step = "idle"
            /\ lease' # lease /\ lease'.state = "active"
            => lease'.expire <= Expiry]_vars
  BY StepCaps
<1> QED
  BY <1>1, Inductive, PTL DEF Spec, CapHolds

=============================================================================
