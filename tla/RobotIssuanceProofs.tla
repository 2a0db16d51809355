------------------------ MODULE RobotIssuanceProofs ------------------------
(***************************************************************************)
(* RobotIssuance keeps IInv, for every set of requests and Harbors, every  *)
(* MinAge and RequestLimit with RequestLimit < MinAge, and every choice of *)
(* Faults; its safety properties follow.  Without reconfiguration it       *)
(* implements RobotCustody.                                                *)
(***************************************************************************)
EXTENDS RobotIssuance, TLAPS

\* A pass that is not idle works on an entry of some request.
LEMMA RollbackBusy ==
    ASSUME TypeOK, rollback # Idle
    PROVE  rollback \in Busy
BY DEF TypeOK

\* A pass at one of its steps for r is not idle.
LEMMA RollbackAtBusy ==
    ASSUME TypeOK, NEW r \in Request,
           NEW s \in {"find", "delete", "drop"}, RollbackAt(r, s)
    PROVE  /\ rollback \in Busy /\ rollback # Idle
           /\ rollback.entry = r /\ rollback.step = s
BY DEF TypeOK, RollbackAt, Idle

-----------------------------------------------------------------------------
(* The inductive invariant                                                 *)

\* Initially nothing exists and no handler has started.
LEMMA InitIInv == Init => IInv
<1> SUFFICES ASSUME Init PROVE IInv
  OBVIOUS
<1>1. TypeOK
  BY ConstantsAssumption DEF Init, TypeOK, Running, Ended
<1>2. CallFollowsHandler /\ EntryFollowsHandler /\ LeaseFollowsHandler
  BY DEF Init, CallFollowsHandler, EntryFollowsHandler, LeaseFollowsHandler
<1>3. IdsIdentify /\ RollbackFollowsHandler
  BY DEF Init, IdsIdentify, RollbackFollowsHandler, Running
<1>4. NoOrphan /\ LeaseHasRobot /\ RevokedIsGone
  BY DEF Init, NoOrphan, LeaseHasRobot, RevokedIsGone
<1> QED
  BY <1>1, <1>2, <1>3, <1>4 DEF IInv

\* A request that starts holds nothing yet, so only its own program counter
\* and client are disturbed.
LEMMA BeginKeeps ==
    ASSUME IInv, NEW r \in Request, Begin(r)
    PROVE  IInv'
<1>1. TypeOK'
  BY DEF Configured, IInv, Begin, TypeOK, Step, Running, Ended, harborVars, walVars,
     Idle, Busy
<1>2. CallFollowsHandler'
  BY DEF IInv, Begin, TypeOK, CallFollowsHandler, Step, Running, harborVars,
     walVars, Idle
<1>3. IdsIdentify'
  BY DEF Configured, IInv, Begin, TypeOK, IdsIdentify, Step, Running, Ended, harborVars,
     walVars, Idle, CallFollowsHandler
<1>4. EntryFollowsHandler'
  BY DEF IInv, Begin, TypeOK, EntryFollowsHandler, Step, Running,
     harborVars, walVars, Idle
<1>5. LeaseFollowsHandler'
  BY DEF IInv, Begin, TypeOK, LeaseFollowsHandler, Step, Running,
     harborVars, walVars, Idle
<1>6. RollbackFollowsHandler'
  BY DEF IInv, Begin, TypeOK, RollbackFollowsHandler, Step, Running, Ended,
     harborVars, walVars, Working, Idle, Busy, EntryFollowsHandler
<1>7. NoOrphan'
  BY DEF IInv, Begin, TypeOK, NoOrphan, Step, Running, harborVars, walVars,
     Covered, Idle
<1>8. LeaseHasRobot' /\ RevokedIsGone'
  BY DEF IInv, Begin, TypeOK, LeaseHasRobot, RevokedIsGone, Step, Running,
     harborVars, walVars, Idle
<1> QED
  BY <1>1, <1>2, <1>3, <1>4, <1>5, <1>6, <1>7, <1>8 DEF IInv

\* Writing the entry starts its age at zero, within RequestLimit.
LEMMA PutWALKeeps ==
    ASSUME IInv, NEW r \in Request, PutWAL(r)
    PROVE  IInv'
<1>1. TypeOK'
  BY ConstantsAssumption DEF IInv, PutWAL, TypeOK, Step, Running, Ended,
     harborVars, Idle, Busy
<1>2. CallFollowsHandler'
  BY DEF IInv, PutWAL, TypeOK, CallFollowsHandler, Step, Running,
     harborVars, Idle
<1>3. IdsIdentify'
  BY DEF IInv, PutWAL, TypeOK, IdsIdentify, Step, Running, Ended,
     harborVars, Idle
<1>4. EntryFollowsHandler'
  BY DEF IInv, PutWAL, TypeOK, EntryFollowsHandler, Step, Running,
     harborVars, Idle
<1>5. LeaseFollowsHandler'
  BY DEF IInv, PutWAL, TypeOK, LeaseFollowsHandler, Step, Running,
     harborVars, Idle
<1>6. RollbackFollowsHandler'
  BY ConstantsAssumption DEF IInv, PutWAL, TypeOK, RollbackFollowsHandler,
     Step, Running, Ended, harborVars, Working, Idle, Busy
<1>7. NoOrphan'
  BY DEF IInv, PutWAL, TypeOK, NoOrphan, Step, Running, harborVars, Covered,
     Idle
<1>8. LeaseHasRobot' /\ RevokedIsGone'
  BY DEF IInv, PutWAL, TypeOK, LeaseHasRobot, RevokedIsGone, Step, Running,
     harborVars, Idle
<1> QED
  BY <1>1, <1>2, <1>3, <1>4, <1>5, <1>6, <1>7, <1>8 DEF IInv

\* Sending POST /robots leaves the entry in place.
LEMMA SendCreateKeeps ==
    ASSUME IInv, NEW r \in Request, SendCreate(r)
    PROVE  IInv'
<1>1. TypeOK'
  BY DEF IInv, SendCreate, TypeOK, Step, Running, Ended, harborVars,
     walVars, Idle, Busy
<1>2. CallFollowsHandler'
  BY DEF IInv, SendCreate, TypeOK, CallFollowsHandler, Step, Running,
     harborVars, walVars, Idle
<1>3. IdsIdentify'
  BY DEF IInv, SendCreate, TypeOK, IdsIdentify, Step, Running, Ended,
     harborVars, walVars, Idle, CallFollowsHandler
<1>4. EntryFollowsHandler'
  BY DEF IInv, SendCreate, TypeOK, EntryFollowsHandler, Step, Running,
     harborVars, walVars, Idle
<1>5. LeaseFollowsHandler'
  BY DEF IInv, SendCreate, TypeOK, LeaseFollowsHandler, Step, Running,
     harborVars, walVars, Idle
<1>6. RollbackFollowsHandler'
  BY DEF IInv, SendCreate, TypeOK, RollbackFollowsHandler, Step, Running,
     Ended, harborVars, walVars, Working, Idle, Busy
<1>7. NoOrphan'
  BY DEF IInv, SendCreate, TypeOK, NoOrphan, Step, Running, harborVars,
     walVars, Covered, Idle
<1>8. LeaseHasRobot' /\ RevokedIsGone'
  BY DEF IInv, SendCreate, TypeOK, LeaseHasRobot, RevokedIsGone, Step,
     Running, harborVars, walVars, Idle
<1> QED
  BY <1>1, <1>2, <1>3, <1>4, <1>5, <1>6, <1>7, <1>8 DEF IInv

\* The robot Harbor creates gets an id no robot of that Harbor has, and is
\* covered by the entry unless a lost reply has struck the request.
LEMMA HarborCreatesKeeps ==
    ASSUME IInv, NEW r \in Request, HarborCreates(r)
    PROVE  IInv'
<1>1. TypeOK'
  BY DEF IInv, HarborCreates, TypeOK, Running, Ended, harborVars, walVars,
     Idle, Busy, IdsIdentify
<1>2. CallFollowsHandler'
  BY DEF IInv, HarborCreates, TypeOK, CallFollowsHandler, Running,
     harborVars, walVars, Idle
<1>3. IdsIdentify'
  BY DEF IInv, HarborCreates, TypeOK, IdsIdentify, Running, Ended,
     harborVars, walVars, Idle
<1>4. EntryFollowsHandler'
  BY DEF IInv, HarborCreates, TypeOK, EntryFollowsHandler, Running,
     harborVars, walVars, Idle, CallFollowsHandler
<1>5. RollbackFollowsHandler'
  BY DEF IInv, HarborCreates, TypeOK, RollbackFollowsHandler, Running,
     Ended, harborVars, walVars, Working, Idle, Busy
<1>6. NoOrphan'
  BY DEF IInv, HarborCreates, TypeOK, NoOrphan, Running, harborVars,
     walVars, Covered, Idle, CallFollowsHandler, EntryFollowsHandler
<1>7. LeaseHasRobot'
  BY DEF IInv, HarborCreates, TypeOK, LeaseHasRobot, Running, harborVars,
     walVars, Idle
<1>8. RevokedIsGone'
  BY DEF IInv, HarborCreates, TypeOK, RevokedIsGone, Running, harborVars,
     walVars, Idle, CallFollowsHandler, LeaseFollowsHandler
<1>9. LeaseFollowsHandler'
  BY DEF IInv, HarborCreates, TypeOK, LeaseFollowsHandler, Running,
     harborVars, walVars, Idle
<1> QED
  BY <1>1, <1>2, <1>3, <1>4, <1>5, <1>6, <1>7, <1>8, <1>9 DEF IInv

\* The reply tells the handler what Harbor did.
LEMMA CreateReplyKeeps ==
    ASSUME IInv, NEW r \in Request, CreateReply(r)
    PROVE  IInv'
<1>1. TypeOK'
  BY DEF IInv, CreateReply, TypeOK, Step, Running, Ended, harborVars,
     walVars, Idle, Busy
<1>2. CallFollowsHandler'
  BY DEF IInv, CreateReply, TypeOK, CallFollowsHandler, Step, Running,
     harborVars, walVars, Idle
<1>3. IdsIdentify'
  BY DEF IInv, CreateReply, TypeOK, IdsIdentify, Step, Running, Ended,
     harborVars, walVars, Idle
<1>4. EntryFollowsHandler'
  BY DEF IInv, CreateReply, TypeOK, EntryFollowsHandler, Step, Running,
     harborVars, walVars, Idle
<1>5. LeaseFollowsHandler'
  BY DEF IInv, CreateReply, TypeOK, LeaseFollowsHandler, Step, Running,
     harborVars, walVars, Idle
<1>6. RollbackFollowsHandler'
  BY DEF IInv, CreateReply, TypeOK, RollbackFollowsHandler, Step, Running,
     Ended, harborVars, walVars, Working, Idle, Busy
<1>7. NoOrphan'
  BY DEF IInv, CreateReply, TypeOK, NoOrphan, Step, Running, harborVars,
     walVars, Covered, Idle
<1>8. LeaseHasRobot' /\ RevokedIsGone'
  BY DEF IInv, CreateReply, TypeOK, LeaseHasRobot, RevokedIsGone, Step,
     Running, harborVars, walVars, Idle
<1> QED
  BY <1>1, <1>2, <1>3, <1>4, <1>5, <1>6, <1>7, <1>8 DEF IInv

\* A lost reply marks the request as struck, which excuses what follows.
LEMMA LoseCreateReplyKeeps ==
    ASSUME IInv, NEW r \in Request, LoseCreateReply(r)
    PROVE  IInv'
<1>1. TypeOK'
  BY DEF IInv, LoseCreateReply, TypeOK, Step, Running, Ended, harborVars,
     walVars, Idle, Busy
<1>2. CallFollowsHandler'
  BY DEF IInv, LoseCreateReply, TypeOK, CallFollowsHandler, Step, Running,
     harborVars, walVars, Idle
<1>3. IdsIdentify'
  BY DEF IInv, LoseCreateReply, TypeOK, IdsIdentify, Step, Running, Ended,
     harborVars, walVars, Idle
<1>4. EntryFollowsHandler'
  BY DEF IInv, LoseCreateReply, TypeOK, EntryFollowsHandler, Step, Running,
     harborVars, walVars, Idle
<1>5. LeaseFollowsHandler'
  BY DEF IInv, LoseCreateReply, TypeOK, LeaseFollowsHandler, Step, Running,
     harborVars, walVars, Idle
<1>6. RollbackFollowsHandler'
  BY DEF IInv, LoseCreateReply, TypeOK, RollbackFollowsHandler, Step,
     Running, Ended, harborVars, walVars, Working, Idle
<1>7. NoOrphan'
  BY DEF IInv, LoseCreateReply, TypeOK, NoOrphan, Step, Running, harborVars,
     walVars, Covered, Idle
<1>8. LeaseHasRobot'
  BY DEF IInv, LoseCreateReply, TypeOK, LeaseHasRobot, Step, Running,
     harborVars, walVars, Idle
<1>9. RevokedIsGone'
  BY DEF IInv, LoseCreateReply, TypeOK, RevokedIsGone, Step, Running,
     harborVars, walVars, Idle
<1> QED
  BY <1>1, <1>2, <1>3, <1>4, <1>5, <1>6, <1>7, <1>8, <1>9 DEF IInv

\* Dropping the entry after an error is safe: a request that was not struck
\* has no robot.
LEMMA CreateFailedKeeps ==
    ASSUME IInv, NEW r \in Request, CreateFailed(r)
    PROVE  IInv'
<1>1. TypeOK'
  BY DEF IInv, CreateFailed, TypeOK, Step, Running, Ended, DeleteEntry,
     KeepEntry, harborVars, Idle, Busy
<1>2. CallFollowsHandler'
  BY DEF IInv, CreateFailed, TypeOK, CallFollowsHandler, Step, Running,
     DeleteEntry, KeepEntry, harborVars, Idle
<1>3. IdsIdentify'
  BY DEF IInv, CreateFailed, TypeOK, IdsIdentify, Step, Running, Ended,
     DeleteEntry, KeepEntry, harborVars, Idle
<1>4. EntryFollowsHandler'
  BY DEF IInv, CreateFailed, TypeOK, EntryFollowsHandler, Step, Running,
     DeleteEntry, KeepEntry, harborVars, Idle
<1>5. LeaseFollowsHandler'
  BY DEF IInv, CreateFailed, TypeOK, LeaseFollowsHandler, Step, Running,
     DeleteEntry, KeepEntry, harborVars, Idle
<1>6. RollbackFollowsHandler'
  BY DEF IInv, CreateFailed, TypeOK, RollbackFollowsHandler, Step, Running,
     Ended, DeleteEntry, KeepEntry, harborVars, Working, Idle
<1>7. NoOrphan'
  BY DEF IInv, CreateFailed, TypeOK, NoOrphan, Step, Running, DeleteEntry,
     KeepEntry, harborVars, Covered, Idle, CallFollowsHandler, IdsIdentify
<1>8. LeaseHasRobot' /\ RevokedIsGone'
  BY DEF IInv, CreateFailed, TypeOK, LeaseHasRobot, RevokedIsGone, Step,
     Running, DeleteEntry, KeepEntry, harborVars, Idle
<1> QED
  BY <1>1, <1>2, <1>3, <1>4, <1>5, <1>6, <1>7, <1>8 DEF IInv

\* Once the entry is dropped the handler itself covers the robot.
LEMMA DeleteWALKeeps ==
    ASSUME IInv, NEW r \in Request, DeleteWAL(r)
    PROVE  IInv'
<1>1. TypeOK'
  BY DEF IInv, DeleteWAL, TypeOK, Step, Running, Ended, DeleteEntry,
     KeepEntry, harborVars, Idle, Busy, AfterDeleteError
<1>2. CallFollowsHandler'
  BY DEF IInv, DeleteWAL, TypeOK, CallFollowsHandler, Step, Running,
     DeleteEntry, KeepEntry, harborVars, Idle, AfterDeleteError
<1>3. IdsIdentify'
  BY DEF IInv, DeleteWAL, TypeOK, IdsIdentify, Step, Running, Ended,
     DeleteEntry, KeepEntry, harborVars, Idle, AfterDeleteError
<1>4. EntryFollowsHandler'
  BY DEF IInv, DeleteWAL, TypeOK, EntryFollowsHandler, Step, Running,
     DeleteEntry, KeepEntry, harborVars, Idle, AfterDeleteError
<1>5. LeaseFollowsHandler'
  BY DEF IInv, DeleteWAL, TypeOK, LeaseFollowsHandler, Step, Running,
     DeleteEntry, KeepEntry, harborVars, Idle, AfterDeleteError
<1>6. RollbackFollowsHandler'
  BY DEF IInv, DeleteWAL, TypeOK, RollbackFollowsHandler, Step, Running,
     Ended, DeleteEntry, KeepEntry, harborVars, Working, Idle,
     AfterDeleteError, Busy
<1>7. NoOrphan'
  BY DEF IInv, DeleteWAL, TypeOK, NoOrphan, Step, Running, DeleteEntry,
     KeepEntry, harborVars, Covered, Idle, AfterDeleteError
<1>8. LeaseHasRobot'
  BY DEF IInv, DeleteWAL, TypeOK, LeaseHasRobot, Step, Running, DeleteEntry,
     KeepEntry, harborVars, Idle, AfterDeleteError
<1>9. RevokedIsGone'
  BY DEF IInv, DeleteWAL, TypeOK, RevokedIsGone, Step, Running, DeleteEntry,
     KeepEntry, harborVars, Idle, AfterDeleteError
<1> QED
  BY <1>1, <1>2, <1>3, <1>4, <1>5, <1>6, <1>7, <1>8, <1>9 DEF IInv

\* The cleanup drops nothing from under a lease: there is none yet.
LEMMA CleanupKeeps ==
    ASSUME IInv, NEW r \in Request, Cleanup(r)
    PROVE  IInv'
<1>1. TypeOK'
  BY DEF IInv, Cleanup, TypeOK, Step, Running, Ended, walVars, Idle, Busy,
     AfterCleanupError
<1>2. CallFollowsHandler'
  BY DEF IInv, Cleanup, TypeOK, CallFollowsHandler, Step, Running, walVars,
     Idle, AfterCleanupError
<1>3. IdsIdentify'
  BY DEF IInv, Cleanup, TypeOK, IdsIdentify, Step, Running, Ended, walVars,
     Idle, AfterCleanupError
<1>4. EntryFollowsHandler'
  BY DEF IInv, Cleanup, TypeOK, EntryFollowsHandler, Step, Running, walVars,
     Idle, AfterCleanupError
<1>5. LeaseFollowsHandler'
  BY DEF IInv, Cleanup, TypeOK, LeaseFollowsHandler, Step, Running, walVars,
     Idle, AfterCleanupError
<1>6. RollbackFollowsHandler'
  BY DEF IInv, Cleanup, TypeOK, RollbackFollowsHandler, Step, Running,
     Ended, walVars, Working, Idle, AfterCleanupError, Busy
<1>7. NoOrphan'
  BY DEF IInv, Cleanup, TypeOK, NoOrphan, Step, Running, walVars, Covered,
     Idle, AfterCleanupError
<1>8. LeaseHasRobot'
  BY DEF IInv, Cleanup, TypeOK, LeaseHasRobot, Step, Running, walVars, Idle,
     AfterCleanupError, LeaseFollowsHandler
<1>9. RevokedIsGone'
  BY DEF IInv, Cleanup, TypeOK, RevokedIsGone, Step, Running, walVars, Idle,
     AfterCleanupError
<1> QED
  BY <1>1, <1>2, <1>3, <1>4, <1>5, <1>6, <1>7, <1>8, <1>9 DEF IInv

\* The entry dropped after a successful cleanup covers no robot.
LEMMA CleanupWALKeeps ==
    ASSUME IInv, NEW r \in Request, CleanupWAL(r)
    PROVE  IInv'
<1>1. TypeOK'
  BY DEF IInv, CleanupWAL, TypeOK, Step, Running, Ended, DeleteEntry,
     KeepEntry, harborVars, Idle, Busy
<1>2. CallFollowsHandler'
  BY DEF IInv, CleanupWAL, TypeOK, CallFollowsHandler, Step, Running,
     DeleteEntry, KeepEntry, harborVars, Idle
<1>3. IdsIdentify'
  BY DEF IInv, CleanupWAL, TypeOK, IdsIdentify, Step, Running, Ended,
     DeleteEntry, KeepEntry, harborVars, Idle
<1>4. EntryFollowsHandler'
  BY DEF IInv, CleanupWAL, TypeOK, EntryFollowsHandler, Step, Running,
     DeleteEntry, KeepEntry, harborVars, Idle
<1>5. LeaseFollowsHandler'
  BY DEF IInv, CleanupWAL, TypeOK, LeaseFollowsHandler, Step, Running,
     DeleteEntry, KeepEntry, harborVars, Idle
<1>6. RollbackFollowsHandler'
  BY DEF IInv, CleanupWAL, TypeOK, RollbackFollowsHandler, Step, Running,
     Ended, DeleteEntry, KeepEntry, harborVars, Working, Idle
<1>7. NoOrphan'
  BY DEF IInv, CleanupWAL, TypeOK, NoOrphan, Step, Running, DeleteEntry,
     KeepEntry, harborVars, Covered, Idle, EntryFollowsHandler
<1>8. LeaseHasRobot' /\ RevokedIsGone'
  BY DEF IInv, CleanupWAL, TypeOK, LeaseHasRobot, RevokedIsGone, Step,
     Running, DeleteEntry, KeepEntry, harborVars, Idle
<1> QED
  BY <1>1, <1>2, <1>3, <1>4, <1>5, <1>6, <1>7, <1>8 DEF IInv

\* The lease takes over from the handler.
LEMMA RegisterLeaseKeeps ==
    ASSUME IInv, NEW r \in Request, RegisterLease(r)
    PROVE  IInv'
<1>1. TypeOK'
  BY DEF IInv, RegisterLease, TypeOK, Step, Running, Ended, harborVars,
     walVars, Idle, Busy
<1>2. CallFollowsHandler'
  BY DEF IInv, RegisterLease, TypeOK, CallFollowsHandler, Step, Running,
     harborVars, walVars, Idle
<1>3. IdsIdentify'
  BY DEF IInv, RegisterLease, TypeOK, IdsIdentify, Step, Running, Ended,
     harborVars, walVars, Idle
<1>4. EntryFollowsHandler'
  BY DEF IInv, RegisterLease, TypeOK, EntryFollowsHandler, Step, Running,
     harborVars, walVars, Idle
<1>5. LeaseFollowsHandler'
  BY DEF IInv, RegisterLease, TypeOK, LeaseFollowsHandler, Step, Running,
     harborVars, walVars, Idle
<1>6. RollbackFollowsHandler'
  BY DEF IInv, RegisterLease, TypeOK, RollbackFollowsHandler, Step, Running,
     Ended, harborVars, walVars, Working, Idle
<1>7. NoOrphan'
  BY DEF IInv, RegisterLease, TypeOK, NoOrphan, Step, Running, harborVars,
     walVars, Covered, Idle
<1>8. LeaseHasRobot'
  BY DEF IInv, RegisterLease, TypeOK, LeaseHasRobot, Step, Running,
     harborVars, walVars, Idle, EntryFollowsHandler
<1>9. RevokedIsGone'
  BY DEF IInv, RegisterLease, TypeOK, RevokedIsGone, Step, Running,
     harborVars, walVars, Idle
<1> QED
  BY <1>1, <1>2, <1>3, <1>4, <1>5, <1>6, <1>7, <1>8, <1>9 DEF IInv

\* The only step that needs Prompt: an entry old enough to be rolled back is
\* older than its request can be, so its request is over.
LEMMA RollbackPickKeeps ==
    ASSUME Prompt, IInv, NEW r \in Request, RollbackPick(r)
    PROVE  IInv'
<1>1. TypeOK'
  BY DEF IInv, RollbackPick, TypeOK, Running, Ended, handlerVars,
     harborVars, walVars, Idle, Busy, OldEnough
<1>2. CallFollowsHandler'
  BY DEF IInv, RollbackPick, TypeOK, CallFollowsHandler, Running,
     handlerVars, harborVars, walVars, Idle, OldEnough
<1>3. EntryFollowsHandler'
  BY DEF IInv, RollbackPick, TypeOK, EntryFollowsHandler, Running,
     handlerVars, harborVars, walVars, Idle, OldEnough
<1>4. RollbackFollowsHandler'
  BY ConstantsAssumption DEF Configured, IInv, RollbackPick, TypeOK,
     RollbackFollowsHandler, Running, Ended, handlerVars, harborVars,
     walVars, Working, Idle, OldEnough, Busy, EntryFollowsHandler,
     IdsIdentify, Prompt
<1>5. NoOrphan'
  BY DEF IInv, RollbackPick, TypeOK, NoOrphan, Running, handlerVars,
     harborVars, walVars, Covered, Idle, OldEnough
<1>6. LeaseHasRobot'
  BY DEF IInv, RollbackPick, TypeOK, LeaseHasRobot, Running, handlerVars,
     harborVars, walVars, Idle, OldEnough
<1>7. RevokedIsGone'
  BY DEF IInv, RollbackPick, TypeOK, RevokedIsGone, Running, handlerVars,
     harborVars, walVars, Idle, OldEnough
<1>8. IdsIdentify' /\ LeaseFollowsHandler'
  BY DEF IInv, RollbackPick, TypeOK, IdsIdentify, LeaseFollowsHandler,
     Running, Ended, handlerVars, harborVars, walVars, Idle, OldEnough
<1> QED
  BY <1>1, <1>2, <1>3, <1>4, <1>5, <1>6, <1>7, <1>8 DEF IInv

\* A robot that is not found is not there, or was sought in the wrong Harbor.
LEMMA RollbackFindKeeps ==
    ASSUME IInv, NEW r \in Request, RollbackFind(r)
    PROVE  IInv'
<1>1. /\ rollback \in Busy /\ rollback # Idle
      /\ rollback.entry = r /\ rollback.step = "find"
  BY RollbackAtBusy DEF IInv, RollbackFind
<1>2. TypeOK'
  BY <1>1 DEF IInv, RollbackFind, TypeOK, Running, Ended, handlerVars,
     harborVars, walVars, RollbackAt, Idle, Busy, Found, AfterNotFound
<1>3. RollbackFollowsHandler'
  BY <1>1 DEF IInv, RollbackFind, TypeOK, RollbackFollowsHandler, Running,
     Ended, handlerVars, harborVars, walVars, RollbackAt, Working, Idle,
     Found, AfterNotFound
<1>4. CallFollowsHandler' /\ IdsIdentify' /\ EntryFollowsHandler' /\
      LeaseFollowsHandler' /\ NoOrphan' /\ LeaseHasRobot' /\ RevokedIsGone'
  BY DEF IInv, RollbackFind, TypeOK, CallFollowsHandler, IdsIdentify,
     EntryFollowsHandler, LeaseFollowsHandler, NoOrphan, LeaseHasRobot,
     RevokedIsGone, Running, Ended, handlerVars, harborVars, walVars,
     RollbackAt, Covered, Idle, Found, AfterNotFound
<1> QED
  BY <1>2, <1>3, <1>4 DEF IInv

\* The rollback deletes the robot of a request that is over without a lease.
LEMMA RollbackDeleteKeeps ==
    ASSUME IInv, NEW r \in Request, RollbackDelete(r)
    PROVE  IInv'
<1>1. /\ rollback \in Busy /\ rollback # Idle
      /\ rollback.entry = r /\ rollback.step = "delete"
  BY RollbackAtBusy DEF IInv, RollbackDelete
<1>2. TypeOK'
  BY <1>1 DEF IInv, RollbackDelete, TypeOK, Running, Ended, handlerVars,
     harborVars, walVars, RollbackAt, Idle, Busy
<1>3. IdsIdentify'
  BY <1>1 DEF IInv, RollbackDelete, TypeOK, IdsIdentify, Running, Ended,
     handlerVars, harborVars, walVars, RollbackAt, Idle
<1>4. EntryFollowsHandler'
  BY <1>1 DEF IInv, RollbackDelete, TypeOK, EntryFollowsHandler, Running,
     handlerVars, harborVars, walVars, RollbackAt, Idle,
     RollbackFollowsHandler
<1>5. RollbackFollowsHandler'
  BY <1>1 DEF IInv, RollbackDelete, TypeOK, RollbackFollowsHandler, Running,
     Ended, handlerVars, harborVars, walVars, RollbackAt, Working, Idle
<1>6. NoOrphan'
  BY <1>1 DEF IInv, RollbackDelete, TypeOK, NoOrphan, Running, handlerVars,
     harborVars, walVars, RollbackAt, Covered, Idle
<1>7. LeaseHasRobot'
  BY <1>1 DEF IInv, RollbackDelete, TypeOK, LeaseHasRobot, Running,
     handlerVars, harborVars, walVars, RollbackAt, Idle,
     LeaseFollowsHandler, RollbackFollowsHandler
<1>8. RevokedIsGone'
  BY <1>1 DEF IInv, RollbackDelete, TypeOK, RevokedIsGone, Running,
     handlerVars, harborVars, walVars, RollbackAt, Idle
<1>9. CallFollowsHandler' /\ LeaseFollowsHandler'
  BY DEF IInv, RollbackDelete, TypeOK, CallFollowsHandler,
     LeaseFollowsHandler, Running, handlerVars, harborVars, walVars,
     RollbackAt, Idle
<1> QED
  BY <1>2, <1>3, <1>4, <1>5, <1>6, <1>7, <1>8, <1>9 DEF IInv

\* The entry dropped at the end of a rollback covers no robot any more.
LEMMA RollbackDropKeeps ==
    ASSUME IInv, NEW r \in Request, RollbackDrop(r)
    PROVE  IInv'
<1>1. /\ rollback \in Busy /\ rollback # Idle
      /\ rollback.entry = r /\ rollback.step = "drop"
  BY RollbackAtBusy DEF IInv, RollbackDrop
<1>2. TypeOK'
  BY <1>1 DEF IInv, RollbackDrop, TypeOK, Running, Ended, DeleteEntry,
     handlerVars, harborVars, walVars, RollbackAt, Idle, Busy
<1>3. CallFollowsHandler'
  BY <1>1 DEF IInv, RollbackDrop, TypeOK, CallFollowsHandler, Running,
     DeleteEntry, handlerVars, harborVars, walVars, RollbackAt, Idle,
     RollbackFollowsHandler
<1>4. EntryFollowsHandler'
  BY <1>1 DEF IInv, RollbackDrop, TypeOK, EntryFollowsHandler, Running,
     DeleteEntry, handlerVars, harborVars, walVars, RollbackAt, Idle,
     RollbackFollowsHandler
<1>5. RollbackFollowsHandler'
  BY <1>1 DEF IInv, RollbackDrop, TypeOK, RollbackFollowsHandler, Running,
     Ended, DeleteEntry, handlerVars, harborVars, walVars, RollbackAt,
     Working, Idle
<1>6. NoOrphan'
  BY <1>1 DEF IInv, RollbackDrop, TypeOK, NoOrphan, Running, DeleteEntry,
     handlerVars, harborVars, walVars, RollbackAt, Covered, Idle,
     RollbackFollowsHandler
<1>7. IdsIdentify' /\ LeaseFollowsHandler' /\ LeaseHasRobot' /\
      RevokedIsGone'
  BY DEF IInv, RollbackDrop, TypeOK, IdsIdentify, LeaseFollowsHandler,
     LeaseHasRobot, RevokedIsGone, Running, Ended, DeleteEntry, handlerVars,
     harborVars, walVars, RollbackAt, Idle
<1> QED
  BY <1>2, <1>3, <1>4, <1>5, <1>6, <1>7 DEF IInv

\* A rollback that fails leaves the entry for the next one.
LEMMA RollbackErrorKeeps ==
    ASSUME IInv, RollbackError
    PROVE  IInv'
<1>1. rollback \in Busy
  BY RollbackBusy DEF IInv, RollbackError
<1>2. TypeOK'
  BY <1>1 DEF IInv, RollbackError, TypeOK, Running, Ended, handlerVars,
     harborVars, walVars, Idle, Busy
<1>3. IdsIdentify'
  BY <1>1 DEF IInv, RollbackError, TypeOK, IdsIdentify, Running, Ended,
     handlerVars, harborVars, walVars, Idle
<1>4. EntryFollowsHandler'
  BY <1>1 DEF IInv, RollbackError, TypeOK, EntryFollowsHandler, Running,
     handlerVars, harborVars, walVars, Idle, RollbackFollowsHandler
<1>5. RollbackFollowsHandler'
  BY <1>1 DEF IInv, RollbackError, TypeOK, RollbackFollowsHandler, Running,
     Ended, handlerVars, harborVars, walVars, Working, Idle
<1>6. NoOrphan'
  BY <1>1 DEF IInv, RollbackError, TypeOK, NoOrphan, Running, handlerVars,
     harborVars, walVars, Covered, Idle
<1>7. LeaseHasRobot'
  BY <1>1 DEF IInv, RollbackError, TypeOK, LeaseHasRobot, Running,
     handlerVars, harborVars, walVars, Idle, LeaseFollowsHandler,
     RollbackFollowsHandler
<1>8. RevokedIsGone'
  BY <1>1 DEF IInv, RollbackError, TypeOK, RevokedIsGone, Running,
     handlerVars, harborVars, walVars, Idle
<1>9. CallFollowsHandler' /\ LeaseFollowsHandler'
  BY DEF IInv, RollbackError, TypeOK, CallFollowsHandler,
     LeaseFollowsHandler, Running, handlerVars, harborVars, walVars, Idle
<1> QED
  BY <1>2, <1>3, <1>4, <1>5, <1>6, <1>7, <1>8, <1>9 DEF IInv

\* The end of a lease leaves the robot to the revocation.
LEMMA EndLeaseKeeps ==
    ASSUME IInv, NEW r \in Request, EndLease(r)
    PROVE  IInv'
<1>1. TypeOK'
  BY DEF IInv, EndLease, TypeOK, Running, Ended, handlerVars, harborVars,
     walVars, Idle, Busy
<1>2. LeaseFollowsHandler'
  BY DEF IInv, EndLease, TypeOK, LeaseFollowsHandler, Running, handlerVars,
     harborVars, walVars, Idle
<1>3. NoOrphan'
  BY DEF IInv, EndLease, TypeOK, NoOrphan, Running, handlerVars, harborVars,
     walVars, Covered, Idle
<1>4. LeaseHasRobot'
  BY DEF IInv, EndLease, TypeOK, LeaseHasRobot, Running, handlerVars,
     harborVars, walVars, Idle
<1>5. RevokedIsGone'
  BY DEF IInv, EndLease, TypeOK, RevokedIsGone, Running, handlerVars,
     harborVars, walVars, Idle
<1>6. CallFollowsHandler' /\ IdsIdentify' /\ EntryFollowsHandler' /\
      RollbackFollowsHandler'
  BY DEF IInv, EndLease, TypeOK, CallFollowsHandler, IdsIdentify,
     EntryFollowsHandler, RollbackFollowsHandler, Running, Ended,
     handlerVars, harborVars, walVars, Working, Idle
<1> QED
  BY <1>1, <1>2, <1>3, <1>4, <1>5, <1>6 DEF IInv

\* A revocation at the Harbor of its robot deletes that robot and no other.
LEMMA RevokeKeeps ==
    ASSUME IInv, NEW r \in Request, Revoke(r)
    PROVE  IInv'
<1>1. TypeOK'
  BY DEF IInv, Revoke, TypeOK, Running, Ended, handlerVars, harborVars,
     walVars, Addressed, Idle, Busy, AfterRevokeError
<1>2. CallFollowsHandler'
  BY DEF IInv, Revoke, TypeOK, CallFollowsHandler, Running, handlerVars,
     harborVars, walVars, Addressed, Idle, AfterRevokeError
<1>3. IdsIdentify'
  BY DEF IInv, Revoke, TypeOK, IdsIdentify, Running, Ended, handlerVars,
     harborVars, walVars, Addressed, Idle, AfterRevokeError
<1>4. EntryFollowsHandler'
  BY DEF IInv, Revoke, TypeOK, EntryFollowsHandler, Running, handlerVars,
     harborVars, walVars, Addressed, Idle, AfterRevokeError,
     CallFollowsHandler, IdsIdentify, LeaseFollowsHandler
<1>5. LeaseFollowsHandler'
  BY DEF IInv, Revoke, TypeOK, LeaseFollowsHandler, Running, handlerVars,
     harborVars, walVars, Addressed, Idle, AfterRevokeError
<1>6. RollbackFollowsHandler'
  BY DEF IInv, Revoke, TypeOK, RollbackFollowsHandler, Running, Ended,
     handlerVars, harborVars, walVars, Working, Addressed, Idle,
     AfterRevokeError
<1>7. NoOrphan'
  BY DEF IInv, Revoke, TypeOK, NoOrphan, Running, handlerVars, harborVars,
     walVars, Addressed, Covered, Idle, AfterRevokeError
<1>8. LeaseHasRobot'
  BY DEF IInv, Revoke, TypeOK, LeaseHasRobot, Running, handlerVars,
     harborVars, walVars, Addressed, Idle, AfterRevokeError,
     CallFollowsHandler, IdsIdentify, LeaseFollowsHandler
<1>9. RevokedIsGone'
  BY DEF IInv, Revoke, TypeOK, RevokedIsGone, Running, handlerVars,
     harborVars, walVars, Addressed, Idle, AfterRevokeError
<1> QED
  BY <1>1, <1>2, <1>3, <1>4, <1>5, <1>6, <1>7, <1>8, <1>9 DEF IInv

\* A crash leaves every robot to its entry or its lease, or strikes it.
LEMMA CrashKeeps ==
    ASSUME IInv, Crash
    PROVE  IInv'
<1>1. TypeOK'
  BY DEF IInv, Crash, TypeOK, Running, Ended, harborVars, walVars, Idle,
     Busy
<1>2. CallFollowsHandler'
  BY DEF IInv, Crash, TypeOK, CallFollowsHandler, Running, Ended,
     harborVars, walVars, Idle, EntryFollowsHandler
<1>3. IdsIdentify'
  BY DEF IInv, Crash, TypeOK, IdsIdentify, Running, Ended, harborVars,
     walVars, Idle
<1>4. EntryFollowsHandler'
  BY DEF IInv, Crash, TypeOK, EntryFollowsHandler, Running, Ended,
     harborVars, walVars, Idle
<1>5. LeaseFollowsHandler'
  BY DEF IInv, Crash, TypeOK, LeaseFollowsHandler, Running, Ended,
     harborVars, walVars, Idle
<1>6. RollbackFollowsHandler'
  BY DEF IInv, Crash, TypeOK, RollbackFollowsHandler, Running, Ended,
     harborVars, walVars, Working, Idle
<1>7. NoOrphan'
  BY DEF IInv, Crash, TypeOK, NoOrphan, Running, Ended, harborVars, walVars,
     Covered, Idle
<1>8. LeaseHasRobot'
  BY DEF IInv, Crash, TypeOK, LeaseHasRobot, Running, Ended, harborVars,
     walVars, Idle
<1>9. RevokedIsGone'
  BY DEF IInv, Crash, TypeOK, RevokedIsGone, Running, Ended, harborVars,
     walVars, Idle
<1> QED
  BY <1>1, <1>2, <1>3, <1>4, <1>5, <1>6, <1>7, <1>8, <1>9 DEF IInv

\* A configuration change touches no robot.
LEMMA ReconfigureKeeps ==
    ASSUME IInv, Reconfigure
    PROVE  IInv'
<1>1. TypeOK'
  BY DEF IInv, Reconfigure, TypeOK, Running, Ended, handlerVars, harborVars,
     walVars, Idle, Busy
<1>2. CallFollowsHandler' /\ IdsIdentify' /\ EntryFollowsHandler' /\
      LeaseFollowsHandler' /\ RollbackFollowsHandler' /\ NoOrphan' /\
      LeaseHasRobot' /\ RevokedIsGone'
  BY DEF IInv, Reconfigure, TypeOK, CallFollowsHandler, IdsIdentify,
     EntryFollowsHandler, LeaseFollowsHandler, RollbackFollowsHandler,
     NoOrphan, LeaseHasRobot, RevokedIsGone, Running, Ended, handlerVars,
     harborVars, walVars, Working, Covered, Idle
<1> QED
  BY <1>1, <1>2 DEF IInv

\* Time stops for no entry but one at RequestLimit whose request still works.
LEMMA TickKeeps ==
    ASSUME IInv, Tick
    PROVE  IInv'
<1>1. TypeOK'
  BY ConstantsAssumption DEF IInv, Tick, TypeOK, Running, Ended,
     handlerVars, harborVars, walVars, Working, Idle, Busy
<1>2. RollbackFollowsHandler'
  BY ConstantsAssumption DEF IInv, Tick, TypeOK, RollbackFollowsHandler,
     Running, Ended, handlerVars, harborVars, walVars, Working, Idle
<1>3. CallFollowsHandler' /\ IdsIdentify' /\ EntryFollowsHandler' /\
      LeaseFollowsHandler' /\ NoOrphan' /\ LeaseHasRobot' /\ RevokedIsGone'
  BY DEF IInv, Tick, TypeOK, CallFollowsHandler, IdsIdentify,
     EntryFollowsHandler, LeaseFollowsHandler, NoOrphan, LeaseHasRobot,
     RevokedIsGone, Running, Ended, handlerVars, harborVars, walVars,
     Working, Covered, Idle
<1> QED
  BY <1>1, <1>2, <1>3 DEF IInv

\* Every step keeps the invariant, given that requests are prompt.
LEMMA StepKeepsIInv ==
    ASSUME Prompt, IInv, [Next]_vars
    PROVE  IInv'
<1>1. ASSUME NEW r \in Request, Handler(r) PROVE IInv'
  BY <1>1, BeginKeeps, PutWALKeeps, SendCreateKeeps, CreateReplyKeeps,
     LoseCreateReplyKeeps, CreateFailedKeeps, DeleteWALKeeps,
     CleanupKeeps, CleanupWALKeeps, RegisterLeaseKeeps DEF Handler
<1>2. ASSUME NEW r \in Request, Rollback(r) PROVE IInv'
  BY <1>2, RollbackPickKeeps, RollbackFindKeeps, RollbackDeleteKeeps,
     RollbackDropKeeps DEF Rollback
<1>3. ASSUME NEW r \in Request, HarborCreates(r) \/ EndLease(r) \/ Revoke(r)
      PROVE  IInv'
  BY <1>3, HarborCreatesKeeps, EndLeaseKeeps, RevokeKeeps
<1>4. CASE RollbackError \/ Crash \/ Reconfigure \/ Tick
  BY <1>4, RollbackErrorKeeps, CrashKeeps, ReconfigureKeeps, TickKeeps
<1>5. CASE UNCHANGED vars
  BY <1>5 DEF IInv, TypeOK, CallFollowsHandler, IdsIdentify,
     EntryFollowsHandler, LeaseFollowsHandler, RollbackFollowsHandler,
     NoOrphan, LeaseHasRobot, RevokedIsGone, Covered, Working, vars,
     handlerVars, harborVars, walVars
<1> QED
  BY <1>1, <1>2, <1>3, <1>4, <1>5 DEF Next

\* IInv holds throughout.
THEOREM Inductive ==
    ASSUME Prompt
    PROVE  Spec => []IInv
<1>1. Init => IInv
  BY InitIInv
<1>2. IInv /\ [Next]_vars => IInv'
  BY StepKeepsIInv
<1> QED
  BY <1>1, <1>2, PTL DEF Spec

-----------------------------------------------------------------------------
(* Safety                                                                  *)

\* Every variable keeps its type.
THEOREM TypeCorrect ==
    ASSUME Prompt
    PROVE  Spec => []TypeOK
<1>1. IInv => TypeOK
  BY DEF IInv
<1> QED
  BY <1>1, Inductive, PTL

\* No robot is orphaned but by one of the listed faults: pathCredsRead covers
\* it by its WAL entry or by its lease at every moment.
THEOREM NoOrphans ==
    ASSUME Prompt
    PROVE  Spec => []NoOrphan
<1>1. IInv => NoOrphan
  BY DEF IInv
<1> QED
  BY <1>1, Inductive, PTL

\* A WAL entry that survives means that no lease was issued, so that the
\* rollback never works on a leased robot.
THEOREM SurvivingEntryMeansNoLease ==
    ASSUME Prompt
    PROVE  Spec => []EntryMeansNoLease
<1>1. IInv => EntryMeansNoLease
  <2> SUFFICES ASSUME IInv, NEW r \in Request,
                      r \in wal \/ (rollback # Idle /\ rollback.entry = r)
               PROVE  lease[r] = "none"
    BY DEF EntryMeansNoLease
  <2>1. pc[r] # "done"
    BY DEF IInv, EntryFollowsHandler, RollbackFollowsHandler
  <2> QED
    BY <2>1 DEF IInv, LeaseFollowsHandler
<1> QED
  BY <1>1, Inductive, PTL

\* A lease in force has its robot, unless a listed fault struck it: nothing the
\* engine does for another request or for the rollback deletes it.
THEOREM LeasesMatchRobots ==
    ASSUME Prompt
    PROVE  Spec => []LeaseHasRobot
<1>1. IInv => LeaseHasRobot
  BY DEF IInv
<1> QED
  BY <1>1, Inductive, PTL

\* When secretRobotRevoke reports success the robot is gone, unless a listed
\* fault struck it.
THEOREM RevokedRobotsGone ==
    ASSUME Prompt
    PROVE  Spec => []RevokedIsGone
<1>1. IInv => RevokedIsGone
  BY DEF IInv
<1> QED
  BY <1>1, Inductive, PTL

\* While a request runs, only its own cleanup deletes its robot, unless a
\* revocation sent to another Harbor hits it by its id.
THEOREM RunningRobotsKept ==
    ASSUME Prompt
    PROVE  Spec => OnlyCleanupDeletes
<1> DEFINE Kept ==
      \A r \in robots \ robots' :
          pc[r] \in Running => pc[r] = "cleanup" \/ r \in faulted'
<1>1. ASSUME IInv, [Next]_vars PROVE Kept
  <2>1. ASSUME NEW r \in Request, Cleanup(r) PROVE Kept
    BY <2>1 DEF Cleanup, Step
  <2>2. ASSUME NEW r \in Request, RollbackDelete(r) PROVE Kept
    <3>1. rollback # Idle /\ rollback.entry = r
      BY <1>1, <2>2, RollbackAtBusy DEF IInv, RollbackDelete
    <3>2. pc[r] \notin Running
      BY <1>1, <3>1 DEF IInv, RollbackFollowsHandler, Running
    <3> QED
      BY <2>2, <3>2 DEF RollbackDelete
  <2>3. CASE RollbackError
    <3>1. pc[rollback.entry] \notin Running
      BY <1>1, <2>3 DEF IInv, RollbackFollowsHandler, RollbackError, Running
    <3> QED
      BY <2>3, <3>1 DEF RollbackError
  <2>4. ASSUME NEW r \in Request, Revoke(r) PROVE Kept
    <3>1. CASE config # target[r]
      BY <2>4, <3>1 DEF Revoke
    <3>2. CASE config = target[r]
      <4>1. pc[r] = "done" /\ call[r] = "created"
        BY <1>1, <2>4 DEF IInv, Revoke, LeaseFollowsHandler, CallFollowsHandler
      <4>2. \A q \in Addressed(r) : q = r
        BY <1>1, <3>2, <4>1 DEF IInv, TypeOK, IdsIdentify, Addressed
      <4> QED
        BY <2>4, <4>1, <4>2 DEF Revoke, Running
    <3> QED
      BY <3>1, <3>2
  <2>5. ASSUME NEW r \in Request, HarborCreates(r) PROVE Kept
    BY <2>5 DEF HarborCreates, harborVars
  <2>6. ASSUME NEW r \in Request, Handler(r) PROVE Kept
    BY <2>1, <2>6 DEF Handler, Begin, PutWAL, SendCreate, CreateReply,
       LoseCreateReply, CreateFailed, DeleteWAL, CleanupWAL, RegisterLease,
       harborVars
  <2>7. ASSUME NEW r \in Request, Rollback(r) PROVE Kept
    BY <2>2, <2>7 DEF Rollback, RollbackPick, RollbackFind, RollbackDrop,
       harborVars
  <2>8. CASE UNCHANGED vars
    BY <2>8 DEF vars, harborVars
  <2> QED
    BY <1>1, <2>3, <2>4, <2>5, <2>6, <2>7, <2>8 DEF Next, EndLease, Crash,
       Reconfigure, Tick, harborVars
<1>2. IInv /\ [Next]_vars => [Kept]_vars
  BY <1>1
<1> QED
  BY <1>2, Inductive, PTL DEF Spec, OnlyCleanupDeletes

-----------------------------------------------------------------------------
(* RobotCustody                                                            *)

\* Without reconfiguration every client is of the configured Harbor, and no
\* request that was struck gets to a lease.
RInv ==
    /\ IInv
    /\ \A r \in Request : target[r] \in {NoConfig, config}
    /\ \A r \in faulted :
          pc[r] \in {"create_failed", "cleanup", "cleanup_wal", "failed", "dead"}

\* RInv is inductive when config is left alone.
LEMMA StepKeepsRInv ==
    ASSUME Prompt, "reconfigure" \notin Faults, RInv, [Next]_vars
    PROVE  RInv'
<1>1. IInv'
  BY StepKeepsIInv DEF RInv
<1>2. config' = config
  BY DEF Next, Handler, Rollback, Begin, PutWAL, SendCreate, CreateReply,
     LoseCreateReply, CreateFailed, DeleteWAL, Cleanup, CleanupWAL,
     RegisterLease, HarborCreates, RollbackPick, RollbackFind, RollbackDelete,
     RollbackDrop, RollbackError, EndLease, Revoke, Crash, Reconfigure, Tick, vars
<1>3. \A r \in Request : target'[r] \in {NoConfig, config}
  BY DEF RInv, IInv, TypeOK, Next, Handler, Rollback, Begin, PutWAL, SendCreate,
     CreateReply, LoseCreateReply, CreateFailed, DeleteWAL, Cleanup, CleanupWAL,
     RegisterLease, HarborCreates, RollbackPick, RollbackFind, RollbackDelete,
     RollbackDrop, RollbackError, EndLease, Revoke, Crash, Reconfigure, Tick,
     vars, handlerVars
<1> DEFINE Struck == {"create_failed", "cleanup", "cleanup_wal", "failed", "dead"}
           StruckStop == \A r \in faulted' : pc'[r] \in Struck
<1>4. StruckStop
  <2> USE DEF RInv, IInv, TypeOK, handlerVars
  <2>1. ASSUME NEW r \in Request, Handler(r) PROVE StruckStop
    BY <2>1 DEF Handler, Begin, PutWAL, SendCreate, CreateReply,
       LoseCreateReply, CreateFailed, DeleteWAL, Cleanup, CleanupWAL,
       RegisterLease, Step, AfterDeleteError, AfterCleanupError
  <2>2. ASSUME NEW r \in Request, RollbackPick(r) PROVE StruckStop
    <3>1. IInv'
      BY <1>1
    <3>2. pc[r] \in {"failed", "dead"}
      BY <2>2, <3>1, Zenon DEF RollbackPick, RollbackFollowsHandler, Idle
    <3> QED
      BY <2>2, <3>2 DEF RollbackPick
  <2>3. ASSUME NEW r \in Request, Revoke(r) PROVE StruckStop
    <3>1. call[r] = "created"
      BY <2>3 DEF Revoke, LeaseFollowsHandler, CallFollowsHandler
    <3>2. target[r] = config
      BY <3>1, ConstantsAssumption DEF IdsIdentify
    <3> QED
      BY <2>3, <3>2 DEF Revoke
  <2>4. CASE Crash
    BY <2>4 DEF Crash, Running
  <2>5. ASSUME NEW r \in Request, RollbackFind(r) \/ RollbackDelete(r) \/ RollbackDrop(r)
        PROVE  StruckStop
    BY <2>5 DEF RollbackFind, RollbackDelete, RollbackDrop
  <2>6. ASSUME NEW r \in Request, HarborCreates(r) \/ EndLease(r)
        PROVE  StruckStop
    BY <2>6 DEF HarborCreates, EndLease
  <2>7. CASE RollbackError \/ Reconfigure \/ Tick \/ UNCHANGED vars
    BY <2>7 DEF RollbackError, Reconfigure, Tick, vars
  <2> QED
    BY <2>1, <2>2, <2>3, <2>4, <2>5, <2>6, <2>7 DEF Next, Rollback
<1> QED
  BY <1>1, <1>2, <1>3, <1>4 DEF RInv

\* The moves RobotCustody allows, and standing still.
Moves == {<<"none", "pending">>, <<"pending", "leased">>, <<"pending", "gone">>,
          <<"leased", "ending">>, <<"ending", "gone">>}

\* One robot that moves as RobotCustody allows, the others unmoved, is a step
\* of RobotCustody.
LEMMA MoveIsAStep ==
    ASSUME NEW i \in Request,
           \A r \in Request \ {i} : Custody(r)' = Custody(r),
           <<Custody(i), Custody(i)'>> \in Moves \/ Custody(i)' = Custody(i)
    PROVE  [Promise!Next]_custody
<1>1. CASE Custody(i)' = Custody(i)
  <2>1. custody' = custody
    BY <1>1, Zenon DEF custody
  <2> QED
    BY <2>1
<1>2. CASE <<Custody(i), Custody(i)'>> \in Moves
  <2>1. custody' = [custody EXCEPT ![i] = Custody(i)'] /\ custody[i] = Custody(i)
    BY DEF custody
  <2>2. Promise!Next
    BY <1>2, <2>1 DEF Moves, Promise!Next, Promise!Create, Promise!HandOut,
       Promise!Discard, Promise!End, Promise!Remove, Promise!Move
  <2> QED
    BY <2>2
<1> QED
  BY <1>1, <1>2

\* Every step of the engine is a step of RobotCustody or leaves it alone.
LEMMA StepKeepsCustody ==
    ASSUME Prompt, RInv, [Next]_vars
    PROVE  [Promise!Next]_custody
<1> DEFINE Still == \A q \in Request : Custody(q)' = Custody(q)
           Moved(r) == /\ \A q \in Request \ {r} : Custody(q)' = Custody(q)
                       /\ <<Custody(r), Custody(r)'>> \in Moves \/ Custody(r)' = Custody(r)
<1>1. ASSUME Still PROVE [Promise!Next]_custody
  BY <1>1, Zenon DEF custody
<1>2. ASSUME NEW r \in Request, Moved(r) PROVE [Promise!Next]_custody
  BY <1>2, MoveIsAStep
<1> USE DEF RInv, IInv, TypeOK, Custody, harborVars
<1>3. ASSUME NEW r \in Request,
             \/ Begin(r) \/ PutWAL(r) \/ CreateReply(r) \/ LoseCreateReply(r)
             \/ CreateFailed(r) \/ DeleteWAL(r) \/ CleanupWAL(r)
             \/ RollbackPick(r) \/ RollbackFind(r) \/ RollbackDrop(r)
      PROVE  Still
  BY <1>3 DEF Begin, PutWAL, CreateReply, LoseCreateReply, CreateFailed,
     DeleteWAL, CleanupWAL, RollbackPick, RollbackFind, RollbackDrop, handlerVars
<1>4. ASSUME NEW r \in Request, SendCreate(r) PROVE Still
  BY <1>4 DEF SendCreate, Step, CallFollowsHandler, IdsIdentify
<1>5. ASSUME NEW r \in Request, HarborCreates(r) PROVE Moved(r)
  <2>1. r \notin robots /\ lease[r] = "none"
    BY <1>5 DEF HarborCreates, CallFollowsHandler, LeaseFollowsHandler, IdsIdentify
  <2> QED
    BY <1>5, <2>1 DEF HarborCreates, Moves
<1>6. ASSUME NEW r \in Request, RegisterLease(r) PROVE Moved(r)
  <2>1. r \in robots /\ lease[r] = "none"
    BY <1>6 DEF RegisterLease, Step, EntryFollowsHandler, LeaseFollowsHandler
  <2> QED
    BY <1>6, <2>1 DEF RegisterLease, Moves
<1>7. ASSUME NEW r \in Request, Cleanup(r) PROVE Moved(r)
  <2>1. lease[r] = "none" /\ call[r] = "created"
    BY <1>7 DEF Cleanup, Step, CallFollowsHandler, LeaseFollowsHandler
  <2> QED
    BY <1>7, <2>1 DEF Cleanup, Moves
<1>8. ASSUME NEW r \in Request, r \in robots, lease[r] = "none",
             robots' = robots \ {r}, UNCHANGED <<lease, call>>
      PROVE  Moved(r)
  BY <1>8 DEF Moves, IdsIdentify
<1>9. ASSUME NEW r \in Request, RollbackDelete(r) PROVE [Promise!Next]_custody
  <2>1. lease[r] = "none" /\ UNCHANGED <<lease, call>>
    BY <1>9, RollbackAtBusy DEF RollbackDelete, RollbackFollowsHandler,
       LeaseFollowsHandler, handlerVars
  <2>2. CASE r \in robots
    BY <1>2, <1>8, <1>9, <2>1, <2>2 DEF RollbackDelete
  <2>3. CASE r \notin robots
    <3>1. Still
      BY <1>9, <2>1, <2>3 DEF RollbackDelete
    <3> QED
      BY <1>1, <3>1
  <2> QED
    BY <2>2, <2>3
<1>10. ASSUME RollbackError PROVE [Promise!Next]_custody
  <2> DEFINE r == rollback.entry
  <2>1. r \in Request
    BY <1>10, RollbackBusy DEF RollbackError, Busy
  <2>2. lease[r] = "none" /\ UNCHANGED <<lease, call>>
    BY <1>10, <2>1 DEF RollbackError, RollbackFollowsHandler,
       LeaseFollowsHandler, handlerVars
  <2>3. CASE r \in robots /\ robots' = robots \ {r}
    BY <1>2, <1>8, <2>1, <2>2, <2>3
  <2>4. CASE robots' = robots
    <3>1. Still
      BY <2>2, <2>4
    <3> QED
      BY <1>1, <3>1
  <2> QED
    BY <1>10, <2>3, <2>4 DEF RollbackError
<1>11. ASSUME NEW r \in Request, EndLease(r) PROVE Moved(r)
  BY <1>11 DEF EndLease, Moves, handlerVars
<1>12. ASSUME NEW r \in Request, Revoke(r) PROVE Moved(r)
  <2>1. pc[r] = "done" /\ call[r] = "created"
    BY <1>12 DEF Revoke, LeaseFollowsHandler, CallFollowsHandler
  <2>2. target[r] = config /\ r \notin faulted
    BY <2>1, ConstantsAssumption DEF IdsIdentify
  <2>3. robots' \in {robots, robots \ {r}}
    BY <1>12, <2>1, <2>2 DEF Revoke, Addressed, IdsIdentify
  <2>4. lease'[r] = "revoked" => r \notin robots'
    BY <1>12, <2>1, <2>2 DEF Revoke, Addressed, AfterRevokeError
  <2> QED
    BY <1>12, <2>1, <2>3, <2>4 DEF Revoke, Moves, AfterRevokeError, handlerVars
<1>13. ASSUME Crash \/ Reconfigure \/ Tick \/ UNCHANGED vars
       PROVE  [Promise!Next]_custody
  <2>1. Still
    BY <1>13 DEF Crash, Reconfigure, Tick, vars, handlerVars
  <2> QED
    BY <1>1, <2>1
<1> HIDE DEF Still, Moved, RInv, IInv, TypeOK, Custody, harborVars
<1> QED
  BY <1>1, <1>2, <1>3, <1>4, <1>5, <1>6, <1>7, <1>9, <1>10, <1>11, <1>12, <1>13
     DEF Next, Handler, Rollback

\* The engine implements RobotCustody: a robot is handed out or discarded,
\* never both, and a leased robot goes only after its lease has ended.
THEOREM ImplementsCustody ==
    ASSUME Prompt, "reconfigure" \notin Faults
    PROVE  Spec => KeepsCustody
<1>1. Init => RInv
  BY InitIInv DEF RInv, Init
<1>2. RInv /\ [Next]_vars => RInv'
  BY StepKeepsRInv
<1>3. Init => Promise!Init
  BY DEF Init, Promise!Init, custody, Custody
<1>4. RInv /\ [Next]_vars => [Promise!Next]_custody
  BY StepKeepsCustody
<1> QED
  BY <1>1, <1>2, <1>3, <1>4, PTL DEF Spec, KeepsCustody, Promise!Spec

=============================================================================
