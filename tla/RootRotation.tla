---------------------------- MODULE RootRotation ----------------------------
(***************************************************************************)
(* The root credential of a user-mode configuration: the two-phase change  *)
(* of config/rotate-root, the settling of a rotation that was cut short,   *)
(* the client cached from the configuration, and the config writes and     *)
(* deletes that touch the same storage entry without holding clientMu.     *)
(* internal/backend/path_config.go, backend.go.                            *)
(*                                                                         *)
(* A configuration is the pair of passwords it holds.  generateSecret      *)
(* hands out a password that nobody has, so that those no one remembers    *)
(* may come back and any number of rotations takes a few of them.          *)
(***************************************************************************)
EXTENDS Naturals

CONSTANTS
    Proc,         \* requests to the engine
    NoConfig,     \* nothing stored under config
    Nobody,       \* clientMu is free
    NoClient,     \* no client is cached
    MaxPassword,  \* bound on the passwords somebody has
    Writes,       \* what config writes do about the password: "given", "omitted"
    Faults        \* the faults this instance admits

FaultKinds == {"lost_reply", "config_race", "lost_put"}

ASSUME ConstantsAssumption ==
    /\ Nobody \notin Proc
    /\ MaxPassword \in Nat \ {0}
    /\ Writes \subseteq {"given", "omitted"}
    /\ Faults \subseteq FaultKinds

Password == 1..MaxPassword
Config == [password : Password, pending : {0} \union Password]

ASSUME DistinctAssumption == NoConfig \notin Config /\ NoClient \notin Config

VARIABLES
    store,    \* the stored configuration
    live,     \* the password Harbor accepts
    late,     \* password changes whose caller gave up before Harbor served them
    clientMu, \* who holds clientMu for writing
    client,   \* configuration of the cached client
    pc,       \* where each request's handler is
    op,       \* what a holder of clientMu is there for: use or rotate
    cfg,      \* each handler's copy of the configuration
    struck    \* the faults that have happened

vars == <<store, live, late, clientMu, client, pc, op, cfg, struck>>

Settling == {"probe_old", "probe_new", "put_settled"}
Rotating == {"put_pending", "change", "clear", "commit"}
Writing  == {"verify", "put_config"}
Steps    == Settling \union Rotating \union Writing \union {"idle", "read", "build", "reset"}

TypeOK ==
    /\ store \in Config \union {NoConfig}
    /\ live \in Password
    /\ late \subseteq [old : Password, new : Password]
    /\ clientMu \in Proc \union {Nobody}
    /\ client \in Config \union {NoClient}
    /\ pc \in [Proc -> Steps]
    /\ op \in [Proc -> {"use", "rotate"}]
    /\ cfg \in [Proc -> Config]
    /\ struck \subseteq Faults

First == [password |-> 1, pending |-> 0]

Init ==
    /\ store \in {First, NoConfig}
    /\ live = 1
    /\ late = {}
    /\ clientMu = Nobody
    /\ client = NoClient
    /\ pc = [p \in Proc |-> "idle"]
    /\ op = [p \in Proc |-> "use"]
    /\ cfg = [p \in Proc |-> First]
    /\ struck = {}

Goto(p, from, to) == pc[p] = from /\ pc' = [pc EXCEPT ![p] = to]

\* A holder of clientMu goes on, with c as its copy of the configuration.
Advance(p, from, to, c) ==
    /\ Goto(p, from, to)
    /\ cfg' = [cfg EXCEPT ![p] = c]
    /\ UNCHANGED <<clientMu, op>>

\* The end of a handler, and of its local variables.
Leave(p, from) ==
    /\ Goto(p, from, "idle")
    /\ cfg' = [cfg EXCEPT ![p] = First]
    /\ op' = [op EXCEPT ![p] = "use"]

\* The deferred Unlock on every return of a holder of clientMu.
ReturnLocked(p, from) ==   \* mutant: a return that skips the Unlock
    Leave(p, from) /\ clientMu' = clientMu
Return(p, from) == Leave(p, from) /\ clientMu' = Nobody

\* A Put of c may fail, and one that failed may have been carried out.
MaybePut(c) == store' \in {store, c}

WithPending(p, pw) == [password |-> cfg[p].password, pending |-> pw]
Kept(p) == WithPending(p, 0)

AdoptedTooLate(p) == [password |-> 0, pending |-> 0]   \* mutant: pending cleared first
Adopted(p) == [password |-> cfg[p].pending, pending |-> 0]

Strike(faults) == faults \subseteq Faults /\ struck' = struck \union faults

\* A config write or delete falls between the read and the put of a request that
\* holds clientMu, or the other way round: nothing in the code prevents it.
RaceUnless(away) == IF away THEN {} ELSE {"config_race"}
WritersAway == \A q \in Proc : pc[q] \notin Writing
HolderAway  == \A q \in Proc : pc[q] \notin Settling \union Rotating

-----------------------------------------------------------------------------
(* getClient past its fast path, and the start of pathRotateRoot           *)

\* A request that finds a cached client leaves at once, so it is not a step.
Lock(p) ==
    /\ clientMu = Nobody
    /\ Goto(p, "idle", "read")
    /\ clientMu' = p
    /\ \/ op' = [op EXCEPT ![p] = "use"] /\ client = NoClient
       \/ op' = [op EXCEPT ![p] = "rotate"]
    /\ client' = NoClient
    /\ UNCHANGED <<store, live, late, cfg, struck>>

\* Where a holder of clientMu goes once nothing is pending.
Onward(p) == IF op[p] = "use" THEN "build" ELSE "put_pending"

NeverSettles == FALSE   \* mutant: getClient overlooks a pending rotation
MustSettle   == store.pending # 0

ReadConfig(p) ==
    /\ \/ /\ store # NoConfig
          /\ Advance(p, "read", IF MustSettle THEN "probe_old" ELSE Onward(p), store)
          /\ Strike(RaceUnless((op[p] = "rotate" \/ MustSettle) => WritersAway))
       \/ Return(p, "read") /\ UNCHANGED struck
    /\ UNCHANGED <<store, live, late, client>>

\* harbor.New and the cache.
Build(p) ==
    /\ Return(p, "build")
    /\ client' = cfg[p]
    /\ UNCHANGED <<store, live, late, struck>>

-----------------------------------------------------------------------------
(* settlePendingRotation                                                   *)

\* verifyConnection with a password.
AnyAnswer(pw) == TRUE   \* mutant: a rejection taken for success
Accepted(pw)  == live = pw

\* The stored password first; any error but a rejection leaves it all alone.
ProbeOld(p) ==
    /\ \/ Accepted(cfg[p].password) /\ Advance(p, "probe_old", "put_settled", Kept(p))
       \/ ~Accepted(cfg[p].password) /\ Advance(p, "probe_old", "probe_new", cfg[p])
       \/ Return(p, "probe_old")
    /\ UNCHANGED <<store, live, late, client, struck>>

ProbeNew(p) ==
    /\ \/ Accepted(cfg[p].pending) /\ Advance(p, "probe_new", "put_settled", Adopted(p))
       \/ Return(p, "probe_new")
    /\ UNCHANGED <<store, live, late, client, struck>>

PutSettled(p) ==
    /\ \/ Advance(p, "put_settled", Onward(p), cfg[p]) /\ store' = cfg[p]
       \/ Return(p, "put_settled") /\ MaybePut(cfg[p])
    /\ UNCHANGED <<live, late, client, struck>>

-----------------------------------------------------------------------------
(* pathRotateRoot                                                          *)

\* generateSecret.
Held(c) == {c.password, c.pending}
InUse ==
    {live} \union UNION {{m.old, m.new} : m \in late}
           \union UNION {Held(c) : c \in {store, client} \ {NoConfig, NoClient}}
           \union UNION {Held(cfg[p]) : p \in {q \in Proc : pc[q] \notin {"idle", "read", "reset"}}}
Unused == Password \ InUse
FreshPassword == CHOOSE pw \in Unused : TRUE

\* Phase 1: persist the candidate before Harbor sees it.
NothingPersisted(p) == store   \* mutant: the candidate is kept in memory only
PhaseOne(p) == WithPending(p, FreshPassword)

PutPending(p) ==
    /\ Unused # {}
    /\ \/ /\ Advance(p, "put_pending", "change", WithPending(p, FreshPassword))
          /\ store' = PhaseOne(p)
       \/ Return(p, "put_pending") /\ MaybePut(PhaseOne(p))
    /\ UNCHANGED <<live, late, client, struck>>

\* The bound is reached: the handler stops where generateSecret would be called.
OutOfPasswords(p) ==
    /\ Unused = {}
    /\ Return(p, "put_pending")
    /\ UNCHANGED <<store, live, late, client, struck>>

\* Phase 2, installSecret: Harbor changes the password if it is given the one
\* in force, or refuses, or cannot be reached.  With the fault the caller gets
\* an error for a change that Harbor made or still makes.
Change(p) ==
    /\ \/ /\ live = cfg[p].password
          /\ Advance(p, "change", "commit", cfg[p])
          /\ live' = cfg[p].pending
          /\ UNCHANGED <<late, struck>>
       \/ Advance(p, "change", "clear", cfg[p]) /\ UNCHANGED <<live, late, struck>>
       \/ /\ Strike({"lost_reply"})
          /\ live = cfg[p].password
          /\ Advance(p, "change", "clear", cfg[p])
          /\ \/ live' = cfg[p].pending /\ UNCHANGED late
             \/ /\ late' = late \union {[old |-> cfg[p].password, new |-> cfg[p].pending]}
                /\ UNCHANGED live
    /\ UNCHANGED <<store, client>>

\* Harbor serves a change nobody waits for any more.
LateChange ==
    \E m \in late :
        /\ late' = late \ {m}
        /\ live' = IF live = m.old THEN m.new ELSE live
        /\ UNCHANGED <<store, clientMu, client, pc, op, cfg, struck>>

\* Any error of installSecret clears the candidate.
Clear(p) ==
    /\ Return(p, "clear")
    /\ MaybePut(Kept(p))
    /\ UNCHANGED <<live, late, client, struck>>

\* Phase 3.
Commit(p) ==
    /\ Return(p, "commit")
    /\ MaybePut(Adopted(p))
    /\ UNCHANGED <<live, late, client, struck>>

-----------------------------------------------------------------------------
(* pathConfigWrite and pathConfigDelete, which never take clientMu to read *)
(* or to put, only in resetClient                                          *)

\* The operator gives the password in force, or omits it and keeps what is
\* stored, a pending candidate included; verify_connection=false skips the check.
BeginWrite(p) ==
    /\ Strike(RaceUnless(HolderAway))
    /\ Goto(p, "idle", "verify") \/ Goto(p, "idle", "put_config")
    /\ \/ /\ "given" \in Writes
          /\ cfg' = [cfg EXCEPT ![p] = [password |-> live, pending |-> 0]]
       \/ /\ "omitted" \in Writes
          /\ store # NoConfig
          /\ cfg' = [cfg EXCEPT ![p] = store]
    /\ UNCHANGED <<store, live, late, clientMu, client, op>>

\* An error to reach Harbor rejects the write like a refused password.
Verify(p) ==
    /\ \/ Accepted(cfg[p].password) /\ Goto(p, "verify", "put_config") /\ UNCHANGED <<op, cfg>>
       \/ Leave(p, "verify")
    /\ UNCHANGED <<store, live, late, clientMu, client, struck>>

\* Only a put that answers with success is followed by resetClient: with the
\* fault, storage did what it reports as failed, and the client stays.
NoReset  == "idle"   \* mutant: the cached client is left in place
AfterPut == "reset"

PutConfig(p) ==
    /\ \/ /\ Goto(p, "put_config", AfterPut) /\ cfg' = [cfg EXCEPT ![p] = First]
          /\ store' = cfg[p]
          /\ UNCHANGED <<op, struck>>
       \/ Leave(p, "put_config") /\ UNCHANGED <<store, struck>>
       \/ Leave(p, "put_config") /\ store' = cfg[p] /\ Strike({"lost_put"})
    /\ UNCHANGED <<live, late, clientMu, client>>

DeleteConfig(p) ==
    /\ store # NoConfig
    /\ store' = NoConfig
    /\ \/ Goto(p, "idle", AfterPut) /\ Strike(RaceUnless(HolderAway))
       \/ Goto(p, "idle", "idle") /\ Strike({"lost_put"} \union RaceUnless(HolderAway))
    /\ UNCHANGED <<live, late, clientMu, client, op, cfg>>

\* resetClient: also what Invalidate calls for a change made on another node.
ResetClient(p) ==
    /\ clientMu = Nobody
    /\ Leave(p, "reset")
    /\ client' = NoClient
    /\ UNCHANGED <<store, live, late, clientMu, struck>>

-----------------------------------------------------------------------------
\* The process dies: storage and Harbor stay.
Crash ==
    /\ \E p \in Proc : pc[p] # "idle"
    /\ pc' = [p \in Proc |-> "idle"]
    /\ op' = [p \in Proc |-> "use"]
    /\ cfg' = [p \in Proc |-> First]
    /\ clientMu' = Nobody
    /\ client' = NoClient
    /\ UNCHANGED <<store, live, late, struck>>

Locked(p) ==
    \/ ReadConfig(p) \/ Build(p) \/ ProbeOld(p) \/ ProbeNew(p) \/ PutSettled(p)
    \/ PutPending(p) \/ OutOfPasswords(p) \/ Change(p) \/ Clear(p) \/ Commit(p)

Unlocked(p) == Verify(p) \/ PutConfig(p) \/ ResetClient(p)

Next ==
    \/ \E p \in Proc :
          Lock(p) \/ Locked(p) \/ BeginWrite(p) \/ DeleteConfig(p) \/ Unlocked(p)
    \/ LateChange
    \/ Crash

Spec == Init /\ [][Next]_vars

\* Requests keep coming, handlers go on (Go's mutexes starve nobody), and Harbor
\* and the storage, asked again and again, answer in the end.
Fairness ==
    /\ \A p \in Proc : WF_vars(Locked(p)) /\ SF_vars(Unlocked(p))
    /\ SF_vars(\E p \in Proc : Lock(p) /\ op'[p] = "use")
    /\ SF_vars(\E p \in Proc : ReadConfig(p) /\ clientMu' = clientMu)
    /\ SF_vars(\E p \in Proc : ProbeOld(p) /\ clientMu' = clientMu)
    /\ SF_vars(\E p \in Proc : ProbeNew(p) /\ clientMu' = clientMu)
    /\ SF_vars(\E p \in Proc : PutSettled(p) /\ clientMu' = clientMu)

FairSpec == Spec /\ Fairness

-----------------------------------------------------------------------------
(* Properties                                                              *)

Pending == store # NoConfig /\ store.pending # 0

\* The stored configuration holds the password Harbor accepts, so that Vault can
\* find its way back in ("a crash after Harbor accepts it cannot lock Vault
\* out", path_config.go).
Recoverable == store # NoConfig => live \in {store.password, store.pending}

\* That is so wherever a rotation is cut short and whatever put or probe fails,
\* until a change loses its reply or a config write gets between.
StaysRecoverable == struck \subseteq {"lost_put"} => Recoverable

\* The same between requests: neither a rotation nor a config write under way.
RecoverableAtRest ==
    clientMu = Nobody /\ (\A p \in Proc : pc[p] \notin Writing) => Recoverable

\* The cached client was built from what is stored, unless a request that just
\* changed the store is about to drop it or storage lied to one about its put.
CacheMatchesStore ==
    client # NoClient =>
        client = store \/ "lost_put" \in struck \/ \E p \in Proc : pc[p] = "reset"

\* Harbor never accepts a password that is not in storage already as pending,
\* until a config write gets between; nor a change whose caller gave up.
ChangeIsPersisted ==
    [][live' # live /\ struck' \subseteq {"lost_put"} =>
           store # NoConfig /\ live' = store.pending]_vars

\* Only one request at a time is between the first read and the last put of a
\* settlement or a rotation, and clientMu is never left locked behind.
OneHolder ==
    \A p \in Proc :
        clientMu = p <=> pc[p] \in {"read", "build"} \union Settling \union Rotating

\* A rotation cut short is settled by the requests that follow, even between
\* config writes, unless one of those loses the password Harbor accepts, or
\* storage lied to one about its put, which leaves a client cached that every
\* request uses at once.
RotationSettles == Pending ~> (~Pending \/ ~Recoverable \/ "lost_put" \in struck)

\* A client of an older configuration does not stay cached, unless storage lied.
Stale == client # NoClient /\ client # store
StaleClientGoes == Stale ~> (~Stale \/ "lost_put" \in struck)

\* Every request that takes clientMu gives it back.
LockFreed == clientMu # Nobody ~> clientMu = Nobody

-----------------------------------------------------------------------------
(* The inductive invariant                                                 *)

\* Whoever settles or finishes a rotation has a candidate.
HasCandidate ==
    \A p \in Proc :
        pc[p] \in {"probe_old", "probe_new", "change", "clear", "commit"} => cfg[p].pending # 0

\* Nothing has happened yet that may lose the password Harbor accepts.
Sound == struck \subseteq {"lost_put"}

\* Then no password change is under way that nobody waits for.
NoLateChange == Sound => late = {}

\* Then whoever settles or rotates has the configuration to itself: its copy is
\* the stored one, but for the result of a settlement, and its place in the
\* handler says which of the two passwords is in force.
CopyTellsStore(p) ==
    /\ pc[p] \in {"probe_old", "probe_new", "put_pending", "change", "clear", "commit"} =>
          store = cfg[p]
    /\ pc[p] \in {"put_settled", "put_pending"} =>
          cfg[p].pending = 0 /\ live = cfg[p].password
    /\ pc[p] = "probe_new" => live = cfg[p].pending
    /\ pc[p] \in {"change", "clear"} => live = cfg[p].password
    /\ pc[p] = "commit" => live = cfg[p].pending

HolderAlone ==
    Sound => \A p \in Proc : pc[p] \in Settling \union Rotating => WritersAway /\ CopyTellsStore(p)

\* Then whoever writes a configuration has the password in force in it.
WriterHasLive == Sound => \A p \in Proc : pc[p] \in Writing => live \in Held(cfg[p])

\* A holder of clientMu has dropped the client before it reads, and what it is
\* about to build one from is stored or about to be reset again.
CacheFollowsStore ==
    /\ clientMu # Nobody => client = NoClient
    /\ \A p \in Proc : pc[p] = "build" =>
          cfg[p] = store \/ "lost_put" \in struck \/ \E q \in Proc : pc[q] = "reset"

IInv ==
    /\ TypeOK
    /\ OneHolder
    /\ HasCandidate
    /\ CacheMatchesStore
    /\ CacheFollowsStore
    /\ StaysRecoverable
    /\ NoLateChange
    /\ HolderAlone
    /\ WriterHasLive

=============================================================================
