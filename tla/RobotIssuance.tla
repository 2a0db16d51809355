--------------------------- MODULE RobotIssuance ---------------------------
(***************************************************************************)
(* The life of the Harbor robots issued by creds/<role>: the request that  *)
(* creates one, the write-ahead-log entry that covers it until a lease     *)
(* does, the rollback of entries whose request died, and the revocation    *)
(* of the lease.  internal/backend/path_creds.go, secret_robot.go.         *)
(*                                                                         *)
(* Every request makes at most one robot, under a random name of its own,  *)
(* so the robot and its WAL entry are named by the request.  A Harbor call *)
(* is a message sent, an effect in Harbor, and a reply that may be lost.   *)
(***************************************************************************)
EXTENDS Naturals, FiniteSets

CONSTANTS
    Request,       \* reads of creds/<role>
    Harbors,       \* Harbor instances config.url can point at
    NoConfig,      \* nothing stored under config
    MinAge,        \* WALRollbackMinAge, in ticks
    RequestLimit,  \* age a WAL entry can reach while its request still runs
    Faults         \* the faults this instance admits

FaultKinds == {"lost_reply", "late_crash", "ambiguous_delete", "reconfigure"}

ASSUME ConstantsAssumption ==
    /\ NoConfig \notin Harbors
    /\ MinAge \in Nat \ {0}
    /\ RequestLimit \in Nat
    /\ Faults \subseteq FaultKinds

VARIABLES
    pc,       \* where each request's handler is
    target,   \* Harbor of the client the request got from getClient
    call,     \* the request's POST /robots: none, sent, created, refused
    id,       \* numeric id Harbor gave the request's robot, 0 before
    nextId,   \* next robot id of each Harbor
    robots,   \* requests whose robot exists in Harbor
    wal,      \* requests that have a WAL entry
    age,      \* age of that entry, counted up to MinAge
    lease,    \* Vault's lease on the robot
    rollback, \* the rollback pass: its step, the entry and the client's Harbor
    config,   \* Harbor of the stored configuration, or NoConfig
    faulted   \* history: requests that one of Faults has struck

handlerVars == <<pc, target, call>>
harborVars  == <<id, nextId, robots>>
walVars     == <<wal, age>>
vars == <<handlerVars, harborVars, walVars, lease, rollback, config, faulted>>

Running == {"put_wal", "create", "waiting", "create_failed", "delete_wal",
            "cleanup", "cleanup_wal", "respond"}
Ended   == {"done", "failed", "dead"}

Idle == [step |-> "idle"]
Busy == [step : {"find", "delete", "drop"}, entry : Request, at : Harbors \union {NoConfig}]

TypeOK ==
    /\ pc \in [Request -> Running \union Ended \union {"idle"}]
    /\ target \in [Request -> Harbors \union {NoConfig}]
    /\ \A r \in Request : pc[r] \in Running => target[r] \in Harbors
    /\ call \in [Request -> {"none", "sent", "created", "refused"}]
    /\ id \in [Request -> Nat]
    /\ nextId \in [Harbors -> Nat \ {0}]
    /\ robots \subseteq Request
    /\ wal \subseteq Request
    /\ age \in [Request -> 0..MinAge]
    /\ lease \in [Request -> {"none", "active", "revoking", "revoked"}]
    /\ rollback \in {Idle} \union Busy
    /\ config \in Harbors \union {NoConfig}
    /\ faulted \subseteq Request

Init ==
    /\ pc = [r \in Request |-> "idle"]
    /\ target = [r \in Request |-> NoConfig]
    /\ call = [r \in Request |-> "none"]
    /\ id = [r \in Request |-> 0]
    /\ nextId = [h \in Harbors |-> 1]
    /\ robots = {}
    /\ wal = {}
    /\ age = [r \in Request |-> 0]
    /\ lease = [r \in Request |-> "none"]
    /\ rollback = Idle
    /\ config \in Harbors \union {NoConfig}
    /\ faulted = {}

Step(r, from, to) == pc[r] = from /\ pc' = [pc EXCEPT ![r] = to]

\* A storage delete that answers with an error has normally changed nothing.
DeleteEntry(r) == wal' = wal \ {r}
KeepEntry == wal' = wal

-----------------------------------------------------------------------------
(* pathCredsRead                                                           *)

Overlooked == TRUE   \* mutant: getClient goes on without a configuration
Configured == config # NoConfig

\* The role and the client: either may be missing, and nothing has happened.
Begin(r) ==
    /\ \/ /\ Step(r, "idle", "put_wal")
          /\ Configured
          /\ target' = [target EXCEPT ![r] = config]
       \/ Step(r, "idle", "failed") /\ UNCHANGED target
    /\ UNCHANGED <<call, harborVars, walVars, lease, rollback, config, faulted>>

\* A failed write may still have stored the entry; no robot was asked for.
PutWAL(r) ==
    /\ \/ /\ Step(r, "put_wal", "create")
          /\ wal' = wal \union {r}
       \/ /\ Step(r, "put_wal", "failed")
          /\ wal' \in {wal, wal \union {r}}
    /\ age' = [age EXCEPT ![r] = 0]
    /\ UNCHANGED <<target, call, harborVars, lease, rollback, config, faulted>>

\* client.CreateRobot: the request goes out, or the connection is refused.
SendCreate(r) ==
    /\ \/ /\ Step(r, "create", "waiting")
          /\ call' = [call EXCEPT ![r] = "sent"]
       \/ Step(r, "create", "create_failed") /\ UNCHANGED call
    /\ UNCHANGED <<target, harborVars, walVars, lease, rollback, config, faulted>>

\* Harbor serves POST /robots, whether or not anyone still waits for it.
HarborCreates(r) ==
    /\ call[r] = "sent"
    /\ \/ /\ call' = [call EXCEPT ![r] = "created"]
          /\ robots' = robots \union {r}
          /\ id' = [id EXCEPT ![r] = nextId[target[r]]]
          /\ nextId' = [nextId EXCEPT ![target[r]] = @ + 1]
       \/ /\ call' = [call EXCEPT ![r] = "refused"]
          /\ UNCHANGED harborVars
    /\ UNCHANGED <<pc, target, walVars, lease, rollback, config, faulted>>

CreateReply(r) ==
    /\ \/ call[r] = "created" /\ Step(r, "waiting", "delete_wal")
       \/ call[r] = "refused" /\ Step(r, "waiting", "create_failed")
    /\ UNCHANGED <<target, call, harborVars, walVars, lease, rollback, config, faulted>>

\* The call errs although Harbor did or will serve it: a timeout, a broken
\* connection, or a 2xx body that does not decode.
LoseCreateReply(r) ==
    /\ "lost_reply" \in Faults
    /\ call[r] \in {"sent", "created"}
    /\ Step(r, "waiting", "create_failed")
    /\ faulted' = faulted \union {r}
    /\ UNCHANGED <<target, call, harborVars, walVars, lease, rollback, config>>

\* Any error of CreateRobot drops the entry, best effort.
CreateFailed(r) ==
    /\ Step(r, "create_failed", "failed")
    /\ DeleteEntry(r) \/ KeepEntry
    /\ UNCHANGED <<target, call, harborVars, age, lease, rollback, config, faulted>>

\* An entry that cannot be dropped is no longer best effort: the robot exists.
DeleteErrorIgnored == "respond"   \* mutant: best effort here too
AfterDeleteError   == "cleanup"

DeleteWAL(r) ==
    /\ \/ /\ Step(r, "delete_wal", "respond")
          /\ DeleteEntry(r)
          /\ UNCHANGED faulted
       \/ /\ Step(r, "delete_wal", AfterDeleteError)
          /\ KeepEntry
          /\ UNCHANGED faulted
       \/ /\ "ambiguous_delete" \in Faults
          /\ Step(r, "delete_wal", AfterDeleteError)
          /\ DeleteEntry(r)
          /\ faulted' = faulted \union {r}
    /\ UNCHANGED <<target, call, harborVars, age, lease, rollback, config>>

\* cleanup: delete the robot (a 404 counts); on an error leave the entry to
\* the rollback.  An error may hide a deletion Harbor carried out.
CleanupErrorIgnored == "cleanup_wal"   \* mutant: the entry is dropped all the same
AfterCleanupError   == "failed"

Cleanup(r) ==
    /\ \/ /\ Step(r, "cleanup", "cleanup_wal")
          /\ robots' = robots \ {r}
       \/ /\ Step(r, "cleanup", AfterCleanupError)
          /\ robots' \in {robots, robots \ {r}}
    /\ UNCHANGED <<target, call, id, nextId, walVars, lease, rollback, config, faulted>>

CleanupWAL(r) ==
    /\ Step(r, "cleanup_wal", "failed")
    /\ DeleteEntry(r) \/ KeepEntry
    /\ UNCHANGED <<target, call, harborVars, age, lease, rollback, config, faulted>>

\* The response reaches Vault, which registers the lease.
RegisterLease(r) ==
    /\ Step(r, "respond", "done")
    /\ lease' = [lease EXCEPT ![r] = "active"]
    /\ UNCHANGED <<target, call, harborVars, walVars, rollback, config, faulted>>

-----------------------------------------------------------------------------
(* walRollback, run by the framework over the entries older than MinAge    *)

AnyAge(r)    == TRUE   \* mutant: WALRollbackMinAge overridden by next to nothing
OldEnough(r) == age[r] = MinAge

\* getClient: without a configuration the entry is given up.
RollbackPick(r) ==
    /\ rollback = Idle
    /\ r \in wal
    /\ OldEnough(r)
    /\ rollback' = [step |-> IF Configured THEN "find" ELSE "drop",
                    entry |-> r, at |-> config]
    /\ faulted' = IF config = target[r] THEN faulted ELSE faulted \union {r}
    /\ UNCHANGED <<handlerVars, harborVars, walVars, lease, config>>

RollbackAt(r, step) == rollback.step = step /\ rollback.entry = r

\* FindRobotByShortName at the Harbor of the client.
FoundByFullName(r) == FALSE   \* mutant: the full name compared with the short one
Found(r) == r \in robots /\ target[r] = rollback.at

\* No such robot is the end of it, not an error.
NotFoundIsError == "find"   \* mutant: searched for again and again
AfterNotFound   == "drop"

RollbackFind(r) ==
    /\ RollbackAt(r, "find")
    /\ rollback' = [rollback EXCEPT !.step =
                      IF Found(r) THEN "delete" ELSE AfterNotFound]
    /\ UNCHANGED <<handlerVars, harborVars, walVars, lease, config, faulted>>

RollbackDelete(r) ==
    /\ RollbackAt(r, "delete")
    /\ robots' = robots \ {r}
    /\ rollback' = [rollback EXCEPT !.step = "drop"]
    /\ UNCHANGED <<handlerVars, id, nextId, walVars, lease, config, faulted>>

\* walRollback returned nil: the framework deletes the entry.
RollbackDrop(r) ==
    /\ RollbackAt(r, "drop")
    /\ DeleteEntry(r)
    /\ rollback' = Idle
    /\ UNCHANGED <<handlerVars, harborVars, age, lease, config, faulted>>

\* Any error ends the pass and keeps the entry for the next one; the robot
\* may be gone already when it is the answer to the deletion that was lost.
RollbackError ==
    /\ rollback # Idle
    /\ rollback' = Idle
    /\ \/ UNCHANGED robots
       \/ rollback.step = "delete" /\ robots' = robots \ {rollback.entry}
    /\ UNCHANGED <<handlerVars, id, nextId, walVars, lease, config, faulted>>

-----------------------------------------------------------------------------
(* The lease                                                               *)

\* The TTL runs out, or someone revokes the lease.
EndLease(r) ==
    /\ lease[r] = "active"
    /\ lease' = [lease EXCEPT ![r] = "revoking"]
    /\ UNCHANGED <<handlerVars, harborVars, walVars, rollback, config, faulted>>

\* Robots a DELETE /robots/<id of r> removes at the configured Harbor.
Addressed(r) == {q \in robots : target[q] = config /\ id[q] = id[r]}

\* Any error but a 404 goes back to Vault, which keeps the lease.
RevokeErrorIgnored == "revoked"   \* mutant: every error taken for a 404
AfterRevokeError   == "revoking"

\* secretRobotRevoke.  An error, or a crash before Vault has dropped the lease,
\* may hide a deletion Harbor carried out.
Revoke(r) ==
    /\ lease[r] = "revoking"
    /\ Configured
    /\ \/ /\ lease' = [lease EXCEPT ![r] = "revoked"]
          /\ robots' = robots \ Addressed(r)
       \/ /\ lease' = [lease EXCEPT ![r] = AfterRevokeError]
          /\ robots' \in {robots, robots \ Addressed(r)}
    /\ faulted' = IF config = target[r] THEN faulted ELSE faulted \union Addressed(r) \union {r}
    /\ UNCHANGED <<handlerVars, id, nextId, walVars, rollback, config>>

-----------------------------------------------------------------------------
(* The environment                                                         *)

\* The process dies.  Without the fault it does not die in the window in
\* which a robot has neither an entry nor a lease.
Crash ==
    /\ (\E r \in Request : pc[r] \in Running) \/ rollback # Idle
    /\ "late_crash" \in Faults \/ \A r \in Request : pc[r] # "respond"
    /\ faulted' = faulted \union {r \in Request : pc[r] = "respond"}
    /\ pc' = [r \in Request |-> IF pc[r] \in Running THEN "dead" ELSE pc[r]]
    /\ rollback' = Idle
    /\ UNCHANGED <<target, call, harborVars, walVars, lease, config>>

\* Writes and deletes of config, seen only through the Harbor they select.
Reconfigure ==
    /\ "reconfigure" \in Faults
    /\ config' \in (Harbors \union {NoConfig}) \ {config}
    /\ UNCHANGED <<handlerVars, harborVars, walVars, lease, rollback, faulted>>

\* A handler, or the call it left behind, is at work under r's WAL entry.
Working(r) == pc[r] \in Running \/ call[r] = "sent"

\* Time; ages past MinAge are not told apart, and no entry grows past RequestLimit
\* while its request is at work.
Tick ==
    /\ \E r \in wal : age[r] < MinAge
    /\ \A r \in wal : Working(r) => age[r] < RequestLimit
    /\ age' = [r \in Request |-> IF r \in wal /\ age[r] < MinAge THEN age[r] + 1 ELSE age[r]]
    /\ UNCHANGED <<handlerVars, harborVars, wal, lease, rollback, config, faulted>>

-----------------------------------------------------------------------------
Handler(r) ==
    \/ Begin(r) \/ PutWAL(r) \/ SendCreate(r) \/ CreateReply(r)
    \/ LoseCreateReply(r) \/ CreateFailed(r) \/ DeleteWAL(r)
    \/ Cleanup(r) \/ CleanupWAL(r) \/ RegisterLease(r)

Rollback(r) ==
    RollbackPick(r) \/ RollbackFind(r) \/ RollbackDelete(r) \/ RollbackDrop(r)

Next ==
    \/ \E r \in Request :
          Handler(r) \/ HarborCreates(r) \/ Rollback(r) \/ EndLease(r) \/ Revoke(r)
    \/ RollbackError
    \/ Crash
    \/ Reconfigure
    \/ Tick

Spec == Init /\ [][Next]_vars

\* Requests that have begun go on and Harbor serves what it was sent; Vault
\* runs the rollback every minute and retries a revocation until it succeeds,
\* so a step that some request keeps making possible succeeds in the end.
Fairness ==
    /\ WF_vars(Tick)
    /\ WF_vars(\E r \in Request : Handler(r) /\ pc[r] # "idle")
    /\ WF_vars(\E r \in Request : HarborCreates(r))
    /\ SF_vars(\E r \in Request : RollbackPick(r))
    /\ SF_vars(\E r \in Request : RollbackFind(r))
    /\ SF_vars(\E r \in Request : RollbackDelete(r))
    /\ SF_vars(\E r \in Request : RollbackDrop(r))
    /\ SF_vars(\E r \in Request : Revoke(r) /\ lease' # lease)

FairSpec == Spec /\ Fairness

-----------------------------------------------------------------------------
(* Properties                                                              *)

\* Something will still delete the robot of r: its WAL entry, its lease, or
\* the handler about to hand the lease over.
Covered(r) ==
    \/ r \in wal
    \/ lease[r] \in {"active", "revoking"}
    \/ pc[r] = "respond"

\* Whatever fails in pathCredsRead and whenever the process dies, a robot that
\* no fault has struck is always covered.
NoOrphan == \A r \in robots \ faulted : Covered(r)

\* "a WAL entry that survives this handler means no lease was issued"
\* (path_creds.go): an entry and a lease never exist together, nor does a
\* rollback ever work on a leased robot.
EntryMeansNoLease ==
    \A r \in Request :
        r \in wal \/ (rollback # Idle /\ rollback.entry = r) => lease[r] = "none"

\* A lease in force has its robot in Harbor: rollback and the cleanup of a
\* failed request never take away a credential that was handed out.
LeaseHasRobot ==
    \A r \in Request : lease[r] = "active" => r \in robots \union faulted

\* A lease Vault has dropped as revoked left no robot behind.
RevokedIsGone ==
    \A r \in Request \ faulted : lease[r] = "revoked" => r \notin robots

\* While a request runs only its own cleanup deletes its robot: the rollback
\* acts on requests that are over, and revocation on other robots.
OnlyCleanupDeletes ==
    [][\A r \in robots \ robots' :
          pc[r] \in Running => pc[r] = "cleanup" \/ r \in faulted']_vars

\* A robot left without a lease by a request that is over is deleted in the
\* end, as long as no fault has struck it.
OrphanReclaimed ==
    \A r \in Request :
        (r \in robots /\ pc[r] \in Ended /\ lease[r] = "none")
            ~> (r \notin robots \/ r \in faulted)

\* A lease that ends takes its robot with it in the end.
RevocationCompletes ==
    \A r \in Request :
        lease[r] = "revoking" ~> (lease[r] = "revoked" /\ r \notin robots)

\* Leftover WAL entries do not stay: each is dropped once its request is over.
EntriesDrain ==
    \A r \in Request : (r \in wal /\ pc[r] \in Ended) ~> r \notin wal

\* design.md: "No orphaned robots under crash/network partition."  The same
\* as NoOrphan with no request excepted.
NoOrphanEver == \A r \in robots : Covered(r)

-----------------------------------------------------------------------------
(* Why the safety properties hold: the parts of the inductive invariant    *)

\* How far the handler got says what became of its POST /robots.
CallFollowsHandler ==
    \A r \in Request :
        /\ pc[r] \in {"idle", "put_wal", "create"} => call[r] = "none"
        /\ pc[r] = "waiting" => call[r] # "none"
        /\ pc[r] \in {"delete_wal", "cleanup", "cleanup_wal", "respond", "done"}
              => call[r] = "created"
        /\ pc[r] = "create_failed" /\ r \notin faulted => call[r] \in {"none", "refused"}
        /\ call[r] = "sent" =>
              \/ pc[r] = "waiting"
              \/ r \in faulted
              \/ pc[r] = "dead" /\ r \in wal

\* "a normal creds request never takes anywhere near this long" (backend.go).
Prompt == RequestLimit < MinAge

\* A robot is the only one with its id in its Harbor, now and ever after.
IdsIdentify ==
    /\ \A r \in Request : pc[r] \in Running \/ call[r] # "none" => target[r] \in Harbors
    /\ \A r \in robots : call[r] = "created"
    /\ \A r \in Request : call[r] = "created" => id[r] < nextId[target[r]]
    /\ \A q, r \in Request :
          /\ call[q] = "created" /\ call[r] = "created"
          /\ target[q] = target[r] /\ id[q] = id[r]
          => q = r

\* Where the handler is says whether its entry and its robot exist.
EntryFollowsHandler ==
    \A r \in Request :
        /\ pc[r] \in {"create", "waiting", "delete_wal"} => r \in wal
        /\ pc[r] \in {"idle", "respond", "done"} => r \notin wal
        /\ pc[r] = "cleanup" => r \in wal \union faulted
        /\ pc[r] = "cleanup_wal" => r \notin robots
        /\ pc[r] \in {"delete_wal", "respond"} => r \in robots \union faulted
        /\ pc[r] = "waiting" /\ call[r] = "created" => r \in robots \union faulted

LeaseFollowsHandler == \A r \in Request : lease[r] # "none" <=> pc[r] = "done"

\* An entry old enough to be rolled back belongs to a request that is over
\* and whose call is settled: this is where Prompt is needed.
RollbackFollowsHandler ==
    /\ \A r \in wal : Working(r) => age[r] <= RequestLimit
    /\ rollback # Idle =>
          /\ pc[rollback.entry] \in {"failed", "dead"}
          /\ call[rollback.entry] # "sent"
          /\ rollback.entry \notin faulted => rollback.at = target[rollback.entry]
          /\ rollback.step = "drop" => rollback.entry \notin robots \ faulted

\* The inductive invariant of the module.
IInv ==
    /\ TypeOK
    /\ CallFollowsHandler
    /\ IdsIdentify
    /\ EntryFollowsHandler
    /\ LeaseFollowsHandler
    /\ RollbackFollowsHandler
    /\ NoOrphan
    /\ LeaseHasRobot
    /\ RevokedIsGone

-----------------------------------------------------------------------------
(* The promise of RobotCustody, kept                                       *)

\* What the lease and Harbor together say of the robot of r.
Custody(r) ==
    CASE lease[r] = "active"   -> "leased"
      [] lease[r] = "revoking" -> "ending"
      [] OTHER -> IF r \in robots THEN "pending"
                  ELSE IF call[r] = "created" THEN "gone" ELSE "none"

custody == [r \in Request |-> Custody(r)]

Promise == INSTANCE RobotCustody WITH Robot <- Request, state <- custody

\* Every step of the engine is a step of RobotCustody or leaves it alone, even
\* when replies are lost and the process dies in its worst moment.
KeepsCustody == Promise!Spec

=============================================================================
