------------------------- MODULE RootRotationProofs -------------------------
(***************************************************************************)
(* RootRotation keeps IInv, for any number of requests and passwords and   *)
(* every choice of Faults; its safety properties follow.  Each action has  *)
(* a lemma with one step per conjunct of IInv.  Those of the last three,   *)
(* which hold until a fault may have lost the password in force, assume    *)
(* Sound in the next state: faults only accumulate, so it is Sound before. *)
(***************************************************************************)
EXTENDS RootRotation, TLAPS

\* generateSecret hands out a password nobody has.
LEMMA FreshIsUnused ==
    ASSUME Unused # {}
    PROVE  FreshPassword \in Unused /\ FreshPassword \in Password
BY DEF FreshPassword, Unused

\* The parts of a configuration are passwords, and what a rotation or a
\* settlement puts together from them is a configuration again.
LEMMA ConfigTypes ==
    /\ First \in Config
    /\ NoConfig \notin Config /\ NoClient \notin Config
    /\ \A pw \in Password : [password |-> pw, pending |-> 0] \in Config
    /\ \A c \in Config :
          /\ c.password \in Password /\ c.password # 0
          /\ c.pending \in Password \union {0}
          /\ \A pw \in Password \union {0} :
                [password |-> c.password, pending |-> pw] \in Config
          /\ c.pending # 0 => [password |-> c.pending, pending |-> 0] \in Config
BY ConstantsAssumption, DistinctAssumption DEF First, Config, Password

\* So are a handler's copy of the configuration and what it puts.
LEMMA CopyTypes ==
    ASSUME TypeOK, NEW p \in Proc
    PROVE  /\ cfg[p] \in Config
           /\ \A pw \in Password \union {0} : WithPending(p, pw) \in Config
           /\ Kept(p) \in Config
           /\ cfg[p].pending # 0 => Adopted(p) \in Config
BY ConfigTypes DEF TypeOK, WithPending, Kept, Adopted

-----------------------------------------------------------------------------
(* The inductive invariant                                                 *)

\* getClient past its fast path, or rotate-root, takes clientMu and drops the
\* client: it holds it alone and has read nothing yet.
LEMMA LockKeeps ==
    ASSUME IInv, NEW p \in Proc, Lock(p)
    PROVE  IInv'
<1>1. TypeOK'
  BY DEF IInv, TypeOK, Lock, Goto, Steps
<1>2. OneHolder'
  BY ConstantsAssumption DEF IInv, TypeOK, OneHolder, Lock, Goto
<1>3. HasCandidate'
  BY DEF IInv, TypeOK, HasCandidate, Lock, Goto
<1>4. CacheMatchesStore' /\ CacheFollowsStore'
  BY DEF IInv, TypeOK, CacheMatchesStore, CacheFollowsStore, Lock, Goto
<1>5. ASSUME Sound' PROVE Sound /\ Recoverable' /\ late' = {}
  BY <1>5 DEF IInv, TypeOK, Sound, StaysRecoverable, Recoverable,
     NoLateChange, Lock
<1>6. HolderAlone'
  BY <1>5 DEF IInv, TypeOK, HolderAlone, CopyTellsStore, WritersAway, Lock,
     Goto, Settling, Rotating, Writing
<1>7. WriterHasLive'
  BY <1>5 DEF IInv, TypeOK, WriterHasLive, Lock, Goto, Writing
<1> QED
  BY <1>1, <1>2, <1>3, <1>4, <1>5, <1>6, <1>7 DEF IInv, StaysRecoverable,
     NoLateChange, Sound

\* Reading the configuration under clientMu makes the handler's copy equal to
\* the store; in a Sound run no config write is under way to change it.
LEMMA ReadConfigKeeps ==
    ASSUME IInv, NEW p \in Proc, ReadConfig(p)
    PROVE  IInv'
<1>1. TypeOK'
  BY ConfigTypes DEF IInv, TypeOK, ReadConfig, Advance, Return, Leave, Goto,
     Onward, Strike, Steps, Settling, Rotating
<1>2. OneHolder'
  BY ConstantsAssumption DEF IInv, TypeOK, OneHolder, ReadConfig, Advance,
     Return, Leave, Goto, Onward, Settling, Rotating
<1>3. HasCandidate'
  BY DEF IInv, TypeOK, HasCandidate, ReadConfig, Advance, Return, Leave, Goto,
     MustSettle, Onward
<1>4. CacheMatchesStore' /\ CacheFollowsStore'
  BY DEF IInv, TypeOK, CacheMatchesStore, CacheFollowsStore, ReadConfig,
     Advance, Return, Leave, Goto, Strike
<1>5. ASSUME Sound' PROVE Sound /\ Recoverable' /\ late' = {}
  BY <1>5, ConstantsAssumption, DistinctAssumption DEF IInv, TypeOK, Sound,
     StaysRecoverable, Recoverable, NoLateChange, HolderAlone, CopyTellsStore,
     WriterHasLive, Held, ReadConfig, Advance, Return, Leave, Goto,
     MustSettle, Onward, Strike, RaceUnless, Settling, Rotating, Writing,
     Config
<1>6. HolderAlone'
  BY <1>5 DEF IInv, TypeOK, Sound, Recoverable, HolderAlone, CopyTellsStore,
     WritersAway, ReadConfig, Advance, Return, Leave, Goto, MustSettle,
     Onward, Strike, RaceUnless, Settling, Rotating, Writing, Password
<1>7. WriterHasLive'
  BY <1>5 DEF IInv, TypeOK, WriterHasLive, ReadConfig, Advance, Return, Leave,
     Goto, Onward, Writing
<1> QED
  BY <1>1, <1>2, <1>3, <1>4, <1>5, <1>6, <1>7 DEF IInv, StaysRecoverable,
     NoLateChange, Sound

\* The client is built from the handler's copy, which CacheFollowsStore relates
\* to the store.
LEMMA BuildKeeps ==
    ASSUME IInv, NEW p \in Proc, Build(p)
    PROVE  IInv'
<1>1. TypeOK'
  BY ConfigTypes DEF IInv, TypeOK, Build, Return, Leave, Goto, Steps
<1>2. OneHolder'
  BY ConstantsAssumption DEF IInv, TypeOK, OneHolder, Build, Return, Leave,
     Goto, Settling, Rotating
<1>3. HasCandidate'
  BY DEF IInv, TypeOK, HasCandidate, Build, Return, Leave, Goto
<1>4. CacheMatchesStore' /\ CacheFollowsStore'
  BY DEF IInv, TypeOK, CacheMatchesStore, CacheFollowsStore, Build, Return,
     Leave, Goto
<1>5. ASSUME Sound' PROVE Sound /\ Recoverable' /\ late' = {}
  BY <1>5 DEF IInv, TypeOK, Sound, StaysRecoverable, Recoverable,
     NoLateChange, Build
<1>6. HolderAlone'
  BY <1>5 DEF IInv, TypeOK, HolderAlone, CopyTellsStore, WritersAway, Build,
     Return, Leave, Goto, Settling, Rotating, Writing
<1>7. WriterHasLive'
  BY <1>5 DEF IInv, TypeOK, WriterHasLive, Build, Return, Leave, Goto, Writing
<1> QED
  BY <1>1, <1>2, <1>3, <1>4, <1>5, <1>6, <1>7 DEF IInv, StaysRecoverable,
     NoLateChange, Sound

\* The stored password is accepted, and kept, or rejected, and then only the
\* pending one can be in force.
LEMMA ProbeOldKeeps ==
    ASSUME IInv, NEW p \in Proc, ProbeOld(p)
    PROVE  IInv'
<1>1. TypeOK'
  BY ConfigTypes, CopyTypes DEF IInv, TypeOK, ProbeOld, Return, Leave, Goto,
     Advance, Steps, Settling
<1>2. OneHolder'
  BY ConstantsAssumption DEF IInv, TypeOK, OneHolder, ProbeOld, Return, Leave,
     Goto, Advance, Settling, Rotating
<1>3. HasCandidate'
  BY DEF IInv, TypeOK, HasCandidate, ProbeOld, Return, Leave, Goto, Advance
<1>4. CacheMatchesStore' /\ CacheFollowsStore'
  BY DEF IInv, TypeOK, CacheMatchesStore, CacheFollowsStore, ProbeOld, Return,
     Leave, Goto, Advance
<1>5. ASSUME Sound' PROVE Sound /\ Recoverable' /\ late' = {}
  BY <1>5 DEF IInv, TypeOK, Sound, StaysRecoverable, Recoverable,
     NoLateChange, ProbeOld
<1>6. HolderAlone'
  BY <1>5, DistinctAssumption DEF IInv, TypeOK, Recoverable, HolderAlone,
     CopyTellsStore, WritersAway, ProbeOld, Return, Leave, Goto, Advance,
     Accepted, Kept, WithPending, Settling, Writing
<1>7. WriterHasLive'
  BY <1>5 DEF IInv, TypeOK, WriterHasLive, ProbeOld, Return, Leave, Goto,
     Advance, Writing
<1> QED
  BY <1>1, <1>2, <1>3, <1>4, <1>5, <1>6, <1>7 DEF IInv, StaysRecoverable,
     NoLateChange, Sound

\* When the pending password is accepted the copy adopts it; else the store is
\* left alone.
LEMMA ProbeNewKeeps ==
    ASSUME IInv, NEW p \in Proc, ProbeNew(p)
    PROVE  IInv'
<1>1. TypeOK'
  BY ConfigTypes, CopyTypes DEF IInv, TypeOK, HasCandidate, ProbeNew, Return,
     Leave, Goto, Advance, Steps, Settling
<1>2. OneHolder'
  BY ConstantsAssumption DEF IInv, TypeOK, OneHolder, ProbeNew, Return, Leave,
     Goto, Advance, Settling, Rotating
<1>3. HasCandidate'
  BY DEF IInv, TypeOK, HasCandidate, ProbeNew, Return, Leave, Goto, Advance,
     Adopted
<1>4. CacheMatchesStore' /\ CacheFollowsStore'
  BY DEF IInv, TypeOK, CacheMatchesStore, CacheFollowsStore, ProbeNew, Return,
     Leave, Goto, Advance
<1>5. ASSUME Sound' PROVE Sound /\ Recoverable' /\ late' = {}
  BY <1>5 DEF IInv, TypeOK, Sound, Recoverable, NoLateChange, HolderAlone,
     CopyTellsStore, ProbeNew, Return, Leave, Goto, Advance, Settling
<1>6. HolderAlone'
  BY <1>5 DEF IInv, TypeOK, HolderAlone, CopyTellsStore, WritersAway,
     ProbeNew, Return, Leave, Goto, Advance, Adopted, Settling, Writing
<1>7. WriterHasLive'
  BY <1>5 DEF IInv, TypeOK, WriterHasLive, ProbeNew, Return, Leave, Goto,
     Advance, Writing
<1> QED
  BY <1>1, <1>2, <1>3, <1>4, <1>5, <1>6, <1>7 DEF IInv, StaysRecoverable,
     NoLateChange, Sound

\* A settlement puts the configuration with the password in force, and nothing
\* pending; its put may fail after it was carried out.
LEMMA PutSettledKeeps ==
    ASSUME IInv, NEW p \in Proc, PutSettled(p)
    PROVE  IInv'
<1>1. TypeOK'
  BY ConfigTypes DEF IInv, TypeOK, PutSettled, Return, Leave, Goto, Advance,
     Onward, MaybePut, Steps, Rotating
<1>2. OneHolder'
  BY ConstantsAssumption DEF IInv, TypeOK, OneHolder, PutSettled, Return,
     Leave, Goto, Advance, Onward, Settling, Rotating
<1>3. HasCandidate'
  BY DEF IInv, TypeOK, HasCandidate, PutSettled, Return, Leave, Goto, Advance,
     Onward
<1>4. CacheMatchesStore' /\ CacheFollowsStore'
  BY ConstantsAssumption DEF IInv, TypeOK, OneHolder, CacheMatchesStore,
     CacheFollowsStore, PutSettled, Return, Leave, Goto, Advance, Settling
<1>5. ASSUME Sound' PROVE Sound /\ Recoverable' /\ late' = {}
  BY <1>5 DEF IInv, TypeOK, Sound, StaysRecoverable, Recoverable,
     NoLateChange, HolderAlone, CopyTellsStore, PutSettled, Return, Leave,
     Goto, Advance, MaybePut, Settling
<1>6. HolderAlone'
  BY <1>5 DEF IInv, TypeOK, OneHolder, HolderAlone, CopyTellsStore,
     WritersAway, PutSettled, Return, Leave, Goto, Advance, Onward, Settling,
     Writing
<1>7. WriterHasLive'
  BY <1>5 DEF IInv, TypeOK, WriterHasLive, PutSettled, Return, Leave, Goto,
     Advance, Onward, Writing
<1> QED
  BY <1>1, <1>2, <1>3, <1>4, <1>5, <1>6, <1>7 DEF IInv, StaysRecoverable,
     NoLateChange, Sound

\* Phase 1 stores an unused candidate beside the password in force, so either
\* of the two is in the store.
LEMMA PutPendingKeeps ==
    ASSUME IInv, NEW p \in Proc, PutPending(p)
    PROVE  IInv'
<1>1. TypeOK'
  BY ConfigTypes, CopyTypes, FreshIsUnused DEF IInv, TypeOK, PutPending,
     Return, Leave, Goto, Advance, MaybePut, PhaseOne, Steps, Rotating
<1>2. OneHolder'
  BY ConstantsAssumption DEF IInv, TypeOK, OneHolder, PutPending, Return,
     Leave, Goto, Advance, Settling, Rotating
<1>3. HasCandidate'
  BY FreshIsUnused DEF IInv, TypeOK, HasCandidate, PutPending, Return, Leave,
     Goto, Advance, WithPending, Password
<1>4. CacheMatchesStore' /\ CacheFollowsStore'
  BY ConstantsAssumption DEF IInv, TypeOK, OneHolder, CacheMatchesStore,
     CacheFollowsStore, PutPending, Return, Leave, Goto, Advance, Rotating
<1>5. ASSUME Sound' PROVE Sound /\ Recoverable' /\ late' = {}
  BY <1>5 DEF IInv, TypeOK, Sound, Recoverable, NoLateChange, HolderAlone,
     CopyTellsStore, PutPending, Return, Leave, Goto, Advance, MaybePut,
     PhaseOne, WithPending, Rotating
<1>6. HolderAlone'
  BY <1>5 DEF IInv, TypeOK, OneHolder, HolderAlone, CopyTellsStore,
     WritersAway, PutPending, Return, Leave, Goto, Advance, PhaseOne,
     WithPending, Rotating, Writing
<1>7. WriterHasLive'
  BY <1>5 DEF IInv, TypeOK, WriterHasLive, PutPending, Return, Leave, Goto,
     Advance, Writing
<1> QED
  BY <1>1, <1>2, <1>3, <1>4, <1>5, <1>6, <1>7 DEF IInv, StaysRecoverable,
     NoLateChange, Sound

\* The handler that finds no unused password returns and changes nothing else.
LEMMA OutOfPasswordsKeeps ==
    ASSUME IInv, NEW p \in Proc, OutOfPasswords(p)
    PROVE  IInv'
<1>1. TypeOK'
  BY ConfigTypes DEF IInv, TypeOK, OutOfPasswords, Return, Leave, Goto, Steps
<1>2. OneHolder'
  BY ConstantsAssumption DEF IInv, TypeOK, OneHolder, OutOfPasswords, Return,
     Leave, Goto, Settling, Rotating
<1>3. HasCandidate'
  BY DEF IInv, TypeOK, HasCandidate, OutOfPasswords, Return, Leave, Goto
<1>4. CacheMatchesStore' /\ CacheFollowsStore'
  BY DEF IInv, TypeOK, CacheMatchesStore, CacheFollowsStore, OutOfPasswords,
     Return, Leave, Goto
<1>5. ASSUME Sound' PROVE Sound /\ Recoverable' /\ late' = {}
  BY <1>5 DEF IInv, TypeOK, Sound, Recoverable, NoLateChange, HolderAlone,
     CopyTellsStore, OutOfPasswords, Return, Leave, Goto, Rotating
<1>6. HolderAlone'
  BY <1>5 DEF IInv, TypeOK, HolderAlone, CopyTellsStore, WritersAway,
     OutOfPasswords, Return, Leave, Goto, Rotating, Writing
<1>7. WriterHasLive'
  BY <1>5 DEF IInv, TypeOK, WriterHasLive, OutOfPasswords, Return, Leave,
     Goto, Writing
<1> QED
  BY <1>1, <1>2, <1>3, <1>4, <1>5, <1>6, <1>7 DEF IInv, StaysRecoverable,
     NoLateChange, Sound

\* Phase 2: in a Sound run Harbor either makes the change, and the candidate is
\* in the store already, or refuses it, and the old password stays in force.
LEMMA ChangeKeeps ==
    ASSUME IInv, NEW p \in Proc, Change(p)
    PROVE  IInv'
<1>1. TypeOK'
  <2>1. pc' \in [Proc -> Steps] /\ cfg' \in [Proc -> Config]
    BY DEF IInv, TypeOK, Change, Advance, Goto, Steps, Rotating
  <2>2. cfg[p].password \in Password /\ cfg[p].pending \in Password
    BY ConfigTypes DEF IInv, TypeOK, HasCandidate, Change, Advance, Goto
  <2>3. live' \in Password
    BY <2>2 DEF IInv, TypeOK, Change
  <2>4. late' \subseteq [old : Password, new : Password]
    BY <2>2 DEF IInv, TypeOK, Change
  <2> QED
    BY <2>1, <2>3, <2>4 DEF IInv, TypeOK, Change, Advance, Strike
<1>2. OneHolder'
  BY DEF IInv, TypeOK, OneHolder, Change, Goto, Advance, Rotating
<1>3. HasCandidate'
  BY DEF IInv, TypeOK, HasCandidate, Change, Goto, Advance
<1>4. CacheMatchesStore' /\ CacheFollowsStore'
  BY DEF IInv, TypeOK, CacheMatchesStore, CacheFollowsStore, Change, Goto,
     Advance, Strike
<1>5. ASSUME Sound' PROVE Sound /\ Recoverable' /\ late' = {}
  <2>1. Sound
    BY <1>5 DEF Change, Strike, Sound
  <2>2. store = cfg[p] /\ live = cfg[p].password /\ late = {}
    BY <2>1 DEF IInv, Change, Advance, Goto, NoLateChange, HolderAlone,
       CopyTellsStore, Rotating
  <2>3. late' = late /\ live' \in {live, cfg[p].pending}
    BY <1>5 DEF Change, Strike, Sound
  <2> QED
    BY <2>1, <2>2, <2>3 DEF Change, Recoverable
<1>6. HolderAlone'
  BY <1>5 DEF IInv, TypeOK, OneHolder, Sound, HolderAlone, CopyTellsStore,
     WritersAway, Change, Goto, Advance, Strike, Rotating, Writing
<1>7. WriterHasLive'
  BY <1>5 DEF IInv, TypeOK, HolderAlone, WritersAway, WriterHasLive, Change,
     Goto, Advance, Rotating, Writing
<1> QED
  BY <1>1, <1>2, <1>3, <1>4, <1>5, <1>6, <1>7 DEF IInv, StaysRecoverable,
     NoLateChange, Sound

\* Clearing the candidate after an error keeps the password in force, since no
\* Sound run has an error for a change that Harbor made.
LEMMA ClearKeeps ==
    ASSUME IInv, NEW p \in Proc, Clear(p)
    PROVE  IInv'
<1>1. TypeOK'
  BY ConfigTypes, CopyTypes DEF IInv, TypeOK, Clear, Return, Leave, Goto,
     MaybePut, Steps
<1>2. OneHolder'
  BY ConstantsAssumption DEF IInv, TypeOK, OneHolder, Clear, Return, Leave,
     Goto, Settling, Rotating
<1>3. HasCandidate'
  BY DEF IInv, TypeOK, HasCandidate, Clear, Return, Leave, Goto
<1>4. CacheMatchesStore' /\ CacheFollowsStore'
  BY ConstantsAssumption DEF IInv, TypeOK, OneHolder, CacheMatchesStore,
     CacheFollowsStore, Clear, Return, Leave, Goto, Rotating
<1>5. ASSUME Sound' PROVE Sound /\ Recoverable' /\ late' = {}
  BY <1>5 DEF IInv, TypeOK, Sound, Recoverable, NoLateChange, HolderAlone,
     CopyTellsStore, Clear, Return, Leave, Goto, MaybePut, Kept, WithPending,
     Rotating
<1>6. HolderAlone'
  BY <1>5 DEF IInv, TypeOK, OneHolder, HolderAlone, Clear, Return, Leave,
     Goto, Settling, Rotating
<1>7. WriterHasLive'
  BY <1>5 DEF IInv, TypeOK, WriterHasLive, Clear, Return, Leave, Goto, Writing
<1> QED
  BY <1>1, <1>2, <1>3, <1>4, <1>5, <1>6, <1>7 DEF IInv, StaysRecoverable,
     NoLateChange, Sound

\* Phase 3 adopts the candidate that Harbor has accepted.
LEMMA CommitKeeps ==
    ASSUME IInv, NEW p \in Proc, Commit(p)
    PROVE  IInv'
<1>1. TypeOK'
  BY ConfigTypes, CopyTypes DEF IInv, TypeOK, HasCandidate, Commit, Return,
     Leave, Goto, MaybePut, Steps
<1>2. OneHolder'
  BY ConstantsAssumption DEF IInv, TypeOK, OneHolder, Commit, Return, Leave,
     Goto, Settling, Rotating
<1>3. HasCandidate'
  BY DEF IInv, TypeOK, HasCandidate, Commit, Return, Leave, Goto
<1>4. CacheMatchesStore' /\ CacheFollowsStore'
  BY ConstantsAssumption DEF IInv, TypeOK, OneHolder, CacheMatchesStore,
     CacheFollowsStore, Commit, Return, Leave, Goto, Rotating
<1>5. ASSUME Sound' PROVE Sound /\ Recoverable' /\ late' = {}
  BY <1>5 DEF IInv, TypeOK, Sound, Recoverable, NoLateChange, HolderAlone,
     CopyTellsStore, Commit, Return, Leave, Goto, MaybePut, Adopted, Rotating
<1>6. HolderAlone'
  BY <1>5 DEF IInv, TypeOK, OneHolder, HolderAlone, Commit, Return, Leave,
     Goto, Settling, Rotating
<1>7. WriterHasLive'
  BY <1>5 DEF IInv, TypeOK, WriterHasLive, Commit, Return, Leave, Goto,
     Writing
<1> QED
  BY <1>1, <1>2, <1>3, <1>4, <1>5, <1>6, <1>7 DEF IInv, StaysRecoverable,
     NoLateChange, Sound

\* A config write starts with the password in force, given or read from the
\* store; in a Sound run no rotation or settlement is under way.
LEMMA BeginWriteKeeps ==
    ASSUME IInv, NEW p \in Proc, BeginWrite(p)
    PROVE  IInv'
<1>1. TypeOK'
  BY ConfigTypes DEF IInv, TypeOK, BeginWrite, Strike, Goto, Steps, Writing
<1>2. OneHolder'
  BY DEF IInv, TypeOK, OneHolder, BeginWrite, Goto, Settling, Rotating
<1>3. HasCandidate'
  BY DEF IInv, TypeOK, HasCandidate, BeginWrite, Goto
<1>4. CacheMatchesStore' /\ CacheFollowsStore'
  BY DEF IInv, TypeOK, CacheMatchesStore, CacheFollowsStore, BeginWrite,
     Strike, Goto
<1>5. ASSUME Sound' PROVE Sound /\ Recoverable' /\ late' = {}
  BY <1>5 DEF IInv, TypeOK, Sound, StaysRecoverable, Recoverable,
     NoLateChange, BeginWrite, Strike
<1>6. HolderAlone'
  BY <1>5 DEF IInv, TypeOK, Sound, HolderAlone, HolderAway, BeginWrite,
     Strike, RaceUnless, Goto, Settling, Rotating
<1>7. WriterHasLive'
  BY <1>5 DEF IInv, TypeOK, Recoverable, WriterHasLive, Held, BeginWrite, Goto
<1> QED
  BY <1>1, <1>2, <1>3, <1>4, <1>5, <1>6, <1>7 DEF IInv, StaysRecoverable,
     NoLateChange, Sound

\* verify_connection lets the write go on or ends it.
LEMMA VerifyKeeps ==
    ASSUME IInv, NEW p \in Proc, Verify(p)
    PROVE  IInv'
<1>1. TypeOK'
  BY ConfigTypes DEF IInv, TypeOK, Verify, Leave, Goto, Steps, Writing
<1>2. OneHolder'
  BY DEF IInv, TypeOK, OneHolder, Verify, Leave, Goto, Settling, Rotating
<1>3. HasCandidate'
  BY DEF IInv, TypeOK, HasCandidate, Verify, Leave, Goto
<1>4. CacheMatchesStore' /\ CacheFollowsStore'
  BY DEF IInv, TypeOK, CacheMatchesStore, CacheFollowsStore, Verify, Leave,
     Goto
<1>5. ASSUME Sound' PROVE Sound /\ Recoverable' /\ late' = {}
  BY <1>5 DEF IInv, TypeOK, Sound, StaysRecoverable, Recoverable,
     NoLateChange, Verify
<1>6. HolderAlone'
  BY <1>5 DEF IInv, TypeOK, HolderAlone, WritersAway, Verify, Leave, Goto,
     Settling, Rotating, Writing
<1>7. WriterHasLive'
  BY <1>5 DEF IInv, TypeOK, WriterHasLive, Verify, Leave, Goto, Writing
<1> QED
  BY <1>1, <1>2, <1>3, <1>4, <1>5, <1>6, <1>7 DEF IInv, StaysRecoverable,
     NoLateChange, Sound

\* The config write puts the password in force, and the client it leaves behind
\* is about to be reset, unless storage lied about the put.
LEMMA PutConfigKeeps ==
    ASSUME IInv, NEW p \in Proc, PutConfig(p)
    PROVE  IInv'
<1>1. TypeOK'
  BY ConfigTypes DEF IInv, TypeOK, PutConfig, AfterPut, Goto, Leave, Strike,
     Steps
<1>2. OneHolder'
  BY DEF IInv, TypeOK, OneHolder, PutConfig, AfterPut, Goto, Leave, Settling,
     Rotating
<1>3. HasCandidate'
  BY DEF IInv, TypeOK, HasCandidate, PutConfig, AfterPut, Goto, Leave
<1>4. CacheMatchesStore' /\ CacheFollowsStore'
  BY DEF IInv, TypeOK, CacheMatchesStore, CacheFollowsStore, PutConfig,
     AfterPut, Goto, Leave, Strike
<1>5. ASSUME Sound' PROVE Sound /\ Recoverable' /\ late' = {}
  BY <1>5, ConstantsAssumption, DistinctAssumption DEF IInv, TypeOK, Sound,
     StaysRecoverable, Recoverable, NoLateChange, HolderAlone, CopyTellsStore,
     WriterHasLive, Held, PutConfig, AfterPut, Goto, Leave, Strike, Settling,
     Rotating, Writing, Config
<1>6. HolderAlone'
  BY <1>5 DEF IInv, TypeOK, HolderAlone, WritersAway, PutConfig, AfterPut,
     Goto, Leave, Settling, Rotating, Writing
<1>7. WriterHasLive'
  BY <1>5 DEF IInv, TypeOK, WriterHasLive, PutConfig, AfterPut, Goto, Leave,
     Writing
<1> QED
  BY <1>1, <1>2, <1>3, <1>4, <1>5, <1>6, <1>7 DEF IInv, StaysRecoverable,
     NoLateChange, Sound

\* A delete leaves no configuration to be locked out of.
LEMMA DeleteConfigKeeps ==
    ASSUME IInv, NEW p \in Proc, DeleteConfig(p)
    PROVE  IInv'
<1>1. TypeOK'
  BY DEF IInv, TypeOK, DeleteConfig, AfterPut, Goto, Strike, Steps
<1>2. OneHolder'
  BY DEF IInv, TypeOK, OneHolder, DeleteConfig, AfterPut, Goto, Settling,
     Rotating
<1>3. HasCandidate'
  BY DEF IInv, TypeOK, HasCandidate, DeleteConfig, AfterPut, Goto
<1>4. CacheMatchesStore' /\ CacheFollowsStore'
  BY DEF IInv, TypeOK, CacheMatchesStore, CacheFollowsStore, DeleteConfig,
     AfterPut, Goto, Strike
<1>5. ASSUME Sound' PROVE Sound /\ Recoverable' /\ late' = {}
  BY <1>5, ConstantsAssumption, DistinctAssumption DEF IInv, TypeOK, Sound,
     StaysRecoverable, Recoverable, NoLateChange, HolderAlone, CopyTellsStore,
     WriterHasLive, Held, DeleteConfig, AfterPut, Goto, Strike, RaceUnless,
     Settling, Rotating, Writing, Config
<1>6. HolderAlone'
  BY <1>5 DEF IInv, TypeOK, Sound, HolderAlone, HolderAway, DeleteConfig,
     AfterPut, Goto, Strike, RaceUnless, Settling, Rotating
<1>7. WriterHasLive'
  BY <1>5 DEF IInv, TypeOK, WriterHasLive, DeleteConfig, AfterPut, Goto,
     Writing
<1> QED
  BY <1>1, <1>2, <1>3, <1>4, <1>5, <1>6, <1>7 DEF IInv, StaysRecoverable,
     NoLateChange, Sound

\* resetClient waits for clientMu, so no handler is building a client.
LEMMA ResetClientKeeps ==
    ASSUME IInv, NEW p \in Proc, ResetClient(p)
    PROVE  IInv'
<1>1. TypeOK'
  BY ConfigTypes DEF IInv, TypeOK, ResetClient, Leave, Goto, Steps
<1>2. OneHolder'
  BY DEF IInv, TypeOK, OneHolder, ResetClient, Leave, Goto, Settling, Rotating
<1>3. HasCandidate'
  BY DEF IInv, TypeOK, HasCandidate, ResetClient, Leave, Goto
<1>4. CacheMatchesStore' /\ CacheFollowsStore'
  BY ConstantsAssumption DEF IInv, TypeOK, OneHolder, CacheMatchesStore,
     CacheFollowsStore, ResetClient, Leave, Goto
<1>5. ASSUME Sound' PROVE Sound /\ Recoverable' /\ late' = {}
  BY <1>5 DEF IInv, TypeOK, Sound, StaysRecoverable, Recoverable,
     NoLateChange, ResetClient
<1>6. HolderAlone'
  BY <1>5 DEF IInv, TypeOK, HolderAlone, CopyTellsStore, WritersAway,
     ResetClient, Leave, Goto, Settling, Rotating, Writing
<1>7. WriterHasLive'
  BY <1>5 DEF IInv, TypeOK, WriterHasLive, ResetClient, Leave, Goto, Writing
<1> QED
  BY <1>1, <1>2, <1>3, <1>4, <1>5, <1>6, <1>7 DEF IInv, StaysRecoverable,
     NoLateChange, Sound

\* No Sound run has a change that nobody waits for.
LEMMA LateChangeKeeps ==
    ASSUME IInv, LateChange
    PROVE  IInv'
<1>1. TypeOK'
  BY DEF IInv, TypeOK, LateChange
<1>2. OneHolder'
  BY DEF IInv, TypeOK, OneHolder, LateChange
<1>3. HasCandidate'
  BY DEF IInv, TypeOK, HasCandidate, LateChange
<1>4. CacheMatchesStore' /\ CacheFollowsStore'
  BY DEF IInv, TypeOK, CacheMatchesStore, CacheFollowsStore, LateChange
<1>5. ASSUME Sound' PROVE Sound /\ Recoverable' /\ late' = {}
  BY <1>5 DEF IInv, TypeOK, Sound, NoLateChange, LateChange
<1>6. HolderAlone'
  BY <1>5 DEF IInv, TypeOK, NoLateChange, HolderAlone, LateChange
<1>7. WriterHasLive'
  BY <1>5 DEF IInv, TypeOK, NoLateChange, WriterHasLive, LateChange
<1> QED
  BY <1>1, <1>2, <1>3, <1>4, <1>5, <1>6, <1>7 DEF IInv, StaysRecoverable,
     NoLateChange, Sound

\* A crash forgets every handler, clientMu and the client; the store keeps the
\* password in force.
LEMMA CrashKeeps ==
    ASSUME IInv, Crash
    PROVE  IInv'
<1>1. TypeOK'
  BY ConfigTypes DEF IInv, TypeOK, Crash, Steps
<1>2. OneHolder'
  BY ConstantsAssumption DEF IInv, TypeOK, OneHolder, Crash, Settling,
     Rotating
<1>3. HasCandidate'
  BY DEF IInv, TypeOK, HasCandidate, Crash
<1>4. CacheMatchesStore' /\ CacheFollowsStore'
  BY DEF IInv, TypeOK, CacheMatchesStore, CacheFollowsStore, Crash
<1>5. ASSUME Sound' PROVE Sound /\ Recoverable' /\ late' = {}
  BY <1>5 DEF IInv, TypeOK, Sound, StaysRecoverable, Recoverable,
     NoLateChange, Crash
<1>6. HolderAlone'
  BY <1>5 DEF IInv, TypeOK, HolderAlone, Crash, Settling, Rotating
<1>7. WriterHasLive'
  BY <1>5 DEF IInv, TypeOK, WriterHasLive, Crash, Writing
<1> QED
  BY <1>1, <1>2, <1>3, <1>4, <1>5, <1>6, <1>7 DEF IInv, StaysRecoverable,
     NoLateChange, Sound

\* A fresh process has no client, no holder of clientMu and Harbor's password in
\* the store.
LEMMA InitIInv == Init => IInv
<1> SUFFICES ASSUME Init PROVE IInv
  OBVIOUS
<1>1. TypeOK
  BY ConstantsAssumption, ConfigTypes DEF Init, TypeOK, Password, Steps
<1>2. OneHolder /\ HasCandidate /\ CacheMatchesStore /\ CacheFollowsStore
  BY ConstantsAssumption DEF Init, OneHolder, HasCandidate, CacheMatchesStore,
     CacheFollowsStore, Settling, Rotating
<1>3. StaysRecoverable /\ NoLateChange /\ HolderAlone /\ WriterHasLive
  BY DEF Init, StaysRecoverable, Recoverable, First, NoLateChange,
     HolderAlone, WriterHasLive, Settling, Rotating, Writing
<1> QED
  BY <1>1, <1>2, <1>3 DEF IInv

\* Every step is one of the actions above or changes nothing.
LEMMA StepKeepsIInv == IInv /\ [Next]_vars => IInv'
<1> SUFFICES ASSUME IInv, [Next]_vars PROVE IInv'
  OBVIOUS
<1>1. ASSUME NEW p \in Proc, Locked(p) PROVE IInv'
  BY <1>1, ReadConfigKeeps, BuildKeeps, ProbeOldKeeps, ProbeNewKeeps,
     PutSettledKeeps, PutPendingKeeps, OutOfPasswordsKeeps, ChangeKeeps,
     ClearKeeps, CommitKeeps DEF Locked
<1>2. ASSUME NEW p \in Proc, Unlocked(p) PROVE IInv'
  BY <1>2, VerifyKeeps, PutConfigKeeps, ResetClientKeeps DEF Unlocked
<1>3. CASE UNCHANGED vars
  BY <1>3 DEF vars, IInv, TypeOK, OneHolder, HasCandidate, CacheMatchesStore,
     CacheFollowsStore, StaysRecoverable, Recoverable, Sound, NoLateChange,
     HolderAlone, WritersAway, CopyTellsStore, WriterHasLive
<1> QED
  BY <1>1, <1>2, <1>3, LockKeeps, BeginWriteKeeps, DeleteConfigKeeps,
     LateChangeKeeps, CrashKeeps DEF Next

-----------------------------------------------------------------------------
(* The theorems                                                            *)

\* IInv holds in every reachable state: the stored configuration, the copies of
\* the handlers in path_config.go and the password in Harbor agree as it says.
THEOREM Inductive == Spec => []IInv
<1>1. Init => IInv
  BY InitIInv
<1>2. IInv /\ [Next]_vars => IInv'
  BY StepKeepsIInv
<1> QED
  BY <1>1, <1>2, PTL DEF Spec

\* TypeOK: configurations hold passwords, clientMu names a request or nobody.
THEOREM TypeCorrect == Spec => []TypeOK
<1>1. IInv => TypeOK
  BY DEF IInv
<1> QED
  BY <1>1, Inductive, PTL

\* OneHolder: exactly the holder of clientMu is between the first read and the
\* last put of a settlement or a rotation, and every return unlocks it.
THEOREM HolderExclusive == Spec => []OneHolder
<1>1. IInv => OneHolder
  BY DEF IInv
<1> QED
  BY <1>1, Inductive, PTL

\* CacheMatchesStore: the client getClient hands out was built from the stored
\* configuration, but for a pending reset and a put storage lied about.
THEOREM CacheAgrees == Spec => []CacheMatchesStore
<1>1. IInv => CacheMatchesStore
  BY DEF IInv
<1> QED
  BY <1>1, Inductive, PTL

\* StaysRecoverable: wherever rotate-root crashes or fails, the stored
\* configuration holds the password Harbor accepts, as long as no reply to a
\* change is lost and no config write or delete falls inside a rotation.
THEOREM NeverLockedOut == Spec => []StaysRecoverable
<1>1. IInv => StaysRecoverable
  BY DEF IInv
<1> QED
  BY <1>1, Inductive, PTL

\* In a Sound run only Change makes Harbor accept another password, and its
\* copy, candidate included, is what is stored.
LEMMA StepPersists ==
    ASSUME IInv, Next, live' # live, struck' \subseteq {"lost_put"}
    PROVE  store # NoConfig /\ live' = store.pending
<1>1. Sound
  <2>1. struck \subseteq struck'
    BY DEF Next, Locked, Unlocked, Lock, ReadConfig, Build, ProbeOld,
       ProbeNew, PutSettled, PutPending, OutOfPasswords, Change, Clear,
       Commit, LateChange, BeginWrite, Verify, PutConfig, DeleteConfig,
       ResetClient, Crash, Strike
  <2> QED
    BY <2>1 DEF Sound
<1>2. late = {}
  BY <1>1 DEF IInv, NoLateChange
<1>3. PICK p \in Proc : Change(p) /\ live' = cfg[p].pending
  BY <1>2 DEF Next, Locked, Unlocked, Lock, ReadConfig, Build, ProbeOld,
     ProbeNew, PutSettled, PutPending, OutOfPasswords, Change, Clear, Commit,
     LateChange, BeginWrite, Verify, PutConfig, DeleteConfig, ResetClient,
     Crash
<1>4. store = cfg[p] /\ cfg[p] \in Config
  BY <1>1, <1>3 DEF IInv, TypeOK, Change, Advance, Goto, HolderAlone,
     CopyTellsStore, Rotating
<1> QED
  BY <1>3, <1>4, ConfigTypes

\* ChangeIsPersisted: installSecret never has Harbor accept a password that is
\* not in the store as pending.
THEOREM CandidateFirst == Spec => ChangeIsPersisted
<1>1. IInv /\ [Next]_vars =>
        [live' # live /\ struck' \subseteq {"lost_put"} =>
            store # NoConfig /\ live' = store.pending]_vars
  BY StepPersists
<1> QED
  BY <1>1, Inductive, PTL DEF Spec, ChangeIsPersisted

=============================================================================
