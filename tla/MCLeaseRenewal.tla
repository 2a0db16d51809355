--------------------------- MODULE MCLeaseRenewal ---------------------------
(* LeaseRenewal with a few roles and days of two ticks for TLC.              *)
EXTENDS LeaseRenewal, TLC

RenewalSymmetry == Permutations(Renewal)

\* A role shorter than a day, one of a whole number of days, and one that
\* leaves both limits to the mount.
SomeRoles == {[ttl |-> 1, max_ttl |-> 1], [ttl |-> 2, max_ttl |-> 4], [ttl |-> 0, max_ttl |-> 0]}

\* A role whose max_ttl ends between two days, and the mount's limits: renewals
\* by one and by the other want different times.
TwoRoles == {[ttl |-> 3, max_ttl |-> 3], [ttl |-> 0, max_ttl |-> 0]}

\* The role of a long-lived pull secret, never changed: renewed many times a
\* lifetime, with a max_ttl of whole days.
PullRole == {[ttl |-> 2, max_ttl |-> 4]}
=============================================================================
