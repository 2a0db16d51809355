-------------------------- MODULE HarborLoginProofs -------------------------
(***************************************************************************)
(* HarborLogin keeps IInv, and its properties follow: wherever the main    *)
(* step of the action fails or is cancelled, what it has saved tells the   *)
(* post step what to undo and what to leave alone.  Each action has a lemma*)
(* with one step per conjunct of IInv.                                     *)
(***************************************************************************)
EXTENDS HarborLogin, TLAPS

\* What the main step sets in the saved state leaves it a saved state.
LEMMA SavedUpdates ==
    ASSUME NEW s \in SavedState, NEW b \in BOOLEAN
    PROVE  /\ [s EXCEPT !.isPost = TRUE] \in SavedState
           /\ [s EXCEPT !.tokenActionOwned = b] \in SavedState
           /\ [s EXCEPT !.token = TRUE] \in SavedState
           /\ [s EXCEPT !.leaseId = TRUE] \in SavedState
           /\ [s EXCEPT !.loggedIn = TRUE] \in SavedState
BY DEF SavedState

\* parseInputs and markPostRun: nothing has been asked of Vault so far.
LEMMA StartKeeps ==
    ASSUME IInv, Start
    PROVE  IInv'
<1>1. TypeOK'
  <2>1. saved' \in SavedState
    BY SavedUpdates DEF IInv, TypeOK, Start, WithToken
  <2> QED
    BY <2>1 DEF IInv, TypeOK, SavedState, MainSteps, Start, Goto
<1>2. PostAfterMain'
  BY DEF IInv, TypeOK, SavedState, PostAfterMain, Start, Goto
<1>3. SavedInOrder'
  BY DEF IInv, TypeOK, SavedState, SavedInOrder, Start, Goto
<1>4. CallsFollowSaved'
  BY DEF IInv, TypeOK, SavedState, CallsFollowSaved, Start, Goto
<1>5. LoginFollowsDocker'
  BY DEF IInv, TypeOK, SavedState, LoginFollowsDocker, Start, Goto
<1>6. UndoneInOrder'
  BY DEF IInv, PostAfterMain, UndoneInOrder, Start, Goto
<1> QED
  BY <1>1, <1>2, <1>3, <1>4, <1>5, <1>6 DEF IInv

\* A supplied token or a login: still nothing to undo is on record.
LEMMA AuthenticateKeeps ==
    ASSUME IInv, Authenticate
    PROVE  IInv'
<1>1. TypeOK'
  BY DEF IInv, TypeOK, MainSteps, Authenticate, Goto
<1>2. PostAfterMain'
  BY DEF IInv, PostAfterMain, Authenticate, Goto
<1>3. SavedInOrder'
  BY DEF IInv, SavedInOrder, Authenticate, Goto
<1>4. CallsFollowSaved'
  BY DEF IInv, TypeOK, SavedInOrder, CallsFollowSaved, Authenticate, Goto
<1>5. LoginFollowsDocker'
  BY DEF IInv, LoginFollowsDocker, Authenticate, Goto
<1>6. UndoneInOrder'
  BY DEF IInv, UndoneInOrder, MustLogOut, Authenticate
<1> QED
  BY <1>1, <1>2, <1>3, <1>4, <1>5, <1>6 DEF IInv

\* Vault may mint the token when the main step is over; no lease comes of it.
LEMMA VaultLoginKeeps ==
    ASSUME IInv, VaultLogin
    PROVE  IInv'
<1>1. TypeOK'
  BY DEF IInv, TypeOK, VaultLogin
<1>2. PostAfterMain'
  BY DEF IInv, PostAfterMain, VaultLogin
<1>3. SavedInOrder'
  BY DEF IInv, SavedInOrder, VaultLogin
<1>4. CallsFollowSaved'
  BY DEF IInv, CallsFollowSaved, VaultLogin
<1>5. LoginFollowsDocker'
  BY DEF IInv, LoginFollowsDocker, VaultLogin
<1>6. UndoneInOrder'
  BY DEF IInv, CallsFollowSaved, UndoneInOrder, MustLogOut, VaultLogin
<1> QED
  BY <1>1, <1>2, <1>3, <1>4, <1>5, <1>6 DEF IInv

\* Only with an answer to the login does the main step go on.
LEMMA LoginReplyKeeps ==
    ASSUME IInv, LoginReply
    PROVE  IInv'
<1>1. TypeOK'
  BY DEF IInv, TypeOK, MainSteps, LoginReply, Goto
<1>2. PostAfterMain'
  BY DEF IInv, PostAfterMain, LoginReply, Goto
<1>3. SavedInOrder'
  BY DEF IInv, SavedInOrder, LoginReply, Goto
<1>4. CallsFollowSaved'
  BY DEF IInv, CallsFollowSaved, LoginReply, Goto
<1>5. LoginFollowsDocker'
  BY DEF IInv, LoginFollowsDocker, LoginReply, Goto
<1>6. UndoneInOrder'
  BY DEF IInv, UndoneInOrder, MustLogOut, LoginReply
<1> QED
  BY <1>1, <1>2, <1>3, <1>4, <1>5, <1>6 DEF IInv

\* Whose token it is goes on record while no token does yet.
LEMMA SaveOwnedKeeps ==
    ASSUME IInv, SaveOwned
    PROVE  IInv'
<1>1. TypeOK'
  <2>1. saved' \in SavedState
    BY SavedUpdates DEF IInv, TypeOK, SaveOwned, WithToken
  <2> QED
    BY <2>1 DEF IInv, TypeOK, MainSteps, SaveOwned, Goto
<1>2. PostAfterMain'
  BY DEF IInv, PostAfterMain, SaveOwned, Goto
<1>3. SavedInOrder'
  BY DEF IInv, SavedInOrder, SaveOwned, Goto
<1>4. CallsFollowSaved'
  BY DEF IInv, CallsFollowSaved, SaveOwned, Goto
<1>5. LoginFollowsDocker'
  BY DEF IInv, LoginFollowsDocker, SaveOwned, Goto
<1>6. UndoneInOrder'
  BY DEF IInv, SavedInOrder, UndoneInOrder, MustLogOut, SaveOwned
<1> QED
  BY <1>1, <1>2, <1>3, <1>4, <1>5, <1>6 DEF IInv

\* The token goes on record after whose it is.
LEMMA SaveTokenKeeps ==
    ASSUME IInv, SaveToken
    PROVE  IInv'
<1>1. TypeOK'
  <2>1. saved' \in SavedState
    BY SavedUpdates DEF IInv, TypeOK, SaveToken, WithToken
  <2> QED
    BY <2>1 DEF IInv, TypeOK, MainSteps, SaveToken, WithToken, Goto
<1>2. PostAfterMain'
  BY DEF IInv, PostAfterMain, SaveToken, Goto, WithToken
<1>3. SavedInOrder'
  BY DEF IInv, TypeOK, SavedInOrder, SaveToken, Goto, WithToken
<1>4. CallsFollowSaved'
  BY DEF IInv, CallsFollowSaved, SaveToken, Goto, WithToken
<1>5. LoginFollowsDocker'
  BY DEF IInv, LoginFollowsDocker, SaveToken, Goto, WithToken
<1>6. UndoneInOrder'
  BY DEF IInv, PostAfterMain, UndoneInOrder, SaveToken, Goto
<1> QED
  BY <1>1, <1>2, <1>3, <1>4, <1>5, <1>6 DEF IInv

\* A lease is asked for after the token is on record.
LEMMA SendReadCredsKeeps ==
    ASSUME IInv, SendReadCreds
    PROVE  IInv'
<1>1. TypeOK'
  BY DEF IInv, TypeOK, MainSteps, SendReadCreds, Goto
<1>2. PostAfterMain'
  BY DEF IInv, PostAfterMain, SendReadCreds, Goto
<1>3. SavedInOrder'
  BY DEF IInv, SavedInOrder, SendReadCreds, Goto
<1>4. CallsFollowSaved'
  BY DEF IInv, SavedInOrder, CallsFollowSaved, SendReadCreds, Goto
<1>5. LoginFollowsDocker'
  BY DEF IInv, LoginFollowsDocker, SendReadCreds, Goto
<1>6. UndoneInOrder'
  BY DEF IInv, UndoneInOrder, MustLogOut, SendReadCreds
<1> QED
  BY <1>1, <1>2, <1>3, <1>4, <1>5, <1>6 DEF IInv

\* Vault registers one lease at most: the request is answered once.
LEMMA VaultReadCredsKeeps ==
    ASSUME IInv, VaultReadCreds
    PROVE  IInv'
<1>1. TypeOK'
  BY DEF IInv, TypeOK, VaultReadCreds
<1>2. PostAfterMain'
  BY DEF IInv, PostAfterMain, VaultReadCreds
<1>3. SavedInOrder'
  BY DEF IInv, SavedInOrder, VaultReadCreds
<1>4. CallsFollowSaved'
  BY DEF IInv, CallsFollowSaved, VaultReadCreds
<1>5. LoginFollowsDocker'
  BY DEF IInv, LoginFollowsDocker, VaultReadCreds
<1>6. UndoneInOrder'
  BY DEF IInv, CallsFollowSaved, UndoneInOrder, MustLogOut, VaultReadCreds
<1> QED
  BY <1>1, <1>2, <1>3, <1>4, <1>5, <1>6 DEF IInv

\* Only with an answer does the main step record a lease.
LEMMA ReadCredsReplyKeeps ==
    ASSUME IInv, ReadCredsReply
    PROVE  IInv'
<1>1. TypeOK'
  BY DEF IInv, TypeOK, MainSteps, ReadCredsReply, Goto
<1>2. PostAfterMain'
  BY DEF IInv, PostAfterMain, ReadCredsReply, Goto
<1>3. SavedInOrder'
  BY DEF IInv, SavedInOrder, ReadCredsReply, Goto
<1>4. CallsFollowSaved'
  BY DEF IInv, CallsFollowSaved, ReadCredsReply, Goto
<1>5. LoginFollowsDocker'
  BY DEF IInv, LoginFollowsDocker, ReadCredsReply, Goto
<1>6. UndoneInOrder'
  BY DEF IInv, UndoneInOrder, MustLogOut, ReadCredsReply
<1> QED
  BY <1>1, <1>2, <1>3, <1>4, <1>5, <1>6 DEF IInv

\* The lease goes on record after the answer that named it.
LEMMA SaveLeaseKeeps ==
    ASSUME IInv, SaveLease
    PROVE  IInv'
<1>1. TypeOK'
  <2>1. saved' \in SavedState
    BY SavedUpdates DEF IInv, TypeOK, SaveLease, WithToken
  <2> QED
    BY <2>1 DEF IInv, TypeOK, SavedInOrder, MainSteps, SaveLease, Goto
<1>2. PostAfterMain'
  BY DEF IInv, PostAfterMain, SaveLease, Goto
<1>3. SavedInOrder'
  BY DEF IInv, SavedInOrder, SaveLease, Goto
<1>4. CallsFollowSaved'
  BY DEF IInv, CallsFollowSaved, SaveLease, Goto
<1>5. LoginFollowsDocker'
  BY DEF IInv, LoginFollowsDocker, SaveLease, Goto
<1>6. UndoneInOrder'
  BY DEF IInv, PostAfterMain, UndoneInOrder, SaveLease, Goto
<1> QED
  BY <1>1, <1>2, <1>3, <1>4, <1>5, <1>6 DEF IInv

\* The main step goes on only if the login to the registry is its own.
LEMMA DockerLoginKeeps ==
    ASSUME IInv, DockerLogin
    PROVE  IInv'
<1>1. TypeOK'
  BY DEF IInv, TypeOK, MainSteps, DockerLogin, Goto
<1>2. PostAfterMain'
  BY DEF IInv, PostAfterMain, DockerLogin, Goto
<1>3. SavedInOrder'
  BY DEF IInv, SavedInOrder, DockerLogin, Goto
<1>4. CallsFollowSaved'
  BY DEF IInv, CallsFollowSaved, DockerLogin, Goto
<1>5. LoginFollowsDocker'
  BY DEF IInv, LoginFollowsDocker, DockerLogin, Goto
<1>6. UndoneInOrder'
  BY DEF IInv, SavedInOrder, UndoneInOrder, MustLogOut, DockerLogin, Goto
<1> QED
  BY <1>1, <1>2, <1>3, <1>4, <1>5, <1>6 DEF IInv

\* The login goes on record after it was made.
LEMMA SaveLoginKeeps ==
    ASSUME IInv, SaveLogin
    PROVE  IInv'
<1>1. TypeOK'
  <2>1. saved' \in SavedState
    BY SavedUpdates DEF IInv, TypeOK, SaveLogin, WithToken
  <2> QED
    BY <2>1 DEF IInv, TypeOK, SavedInOrder, MainSteps, SaveLogin, Goto
<1>2. PostAfterMain'
  BY DEF IInv, PostAfterMain, SaveLogin, Goto
<1>3. SavedInOrder'
  BY DEF IInv, SavedInOrder, SaveLogin, Goto
<1>4. CallsFollowSaved'
  BY DEF IInv, CallsFollowSaved, SaveLogin, Goto
<1>5. LoginFollowsDocker'
  BY DEF IInv, LoginFollowsDocker, SaveLogin, Goto
<1>6. UndoneInOrder'
  BY DEF IInv, PostAfterMain, UndoneInOrder, SaveLogin, Goto
<1> QED
  BY <1>1, <1>2, <1>3, <1>4, <1>5, <1>6 DEF IInv

\* A main step killed anywhere has saved what its steps so far imply.
LEMMA CancelKeeps ==
    ASSUME IInv, Cancel
    PROVE  IInv'
<1>1. TypeOK'
  BY DEF IInv, TypeOK, MainSteps, Cancel
<1>2. PostAfterMain'
  BY DEF IInv, PostAfterMain, Cancel
<1>3. SavedInOrder'
  BY DEF IInv, SavedInOrder, Cancel
<1>4. CallsFollowSaved'
  BY DEF IInv, CallsFollowSaved, Cancel
<1>5. LoginFollowsDocker'
  BY DEF IInv, LoginFollowsDocker, Cancel
<1>6. UndoneInOrder'
  BY DEF IInv, UndoneInOrder, MustLogOut, Cancel
<1> QED
  BY <1>1, <1>2, <1>3, <1>4, <1>5, <1>6 DEF IInv

\* The post step starts after a main step that marked itself; otherwise the
\* bundle takes itself for the main step, with an empty saved state.
LEMMA StartPostKeeps ==
    ASSUME IInv, StartPost
    PROVE  IInv'
<1>1. TypeOK'
  BY DEF IInv, TypeOK, MainSteps, StartPost
<1>2. PostAfterMain'
  BY DEF IInv, PostAfterMain, StartPost
<1>3. SavedInOrder'
  BY DEF IInv, TypeOK, PostAfterMain, SavedInOrder, StartPost
<1>4. CallsFollowSaved'
  BY DEF IInv, PostAfterMain, CallsFollowSaved, StartPost
<1>5. LoginFollowsDocker'
  BY DEF IInv, LoginFollowsDocker, StartPost
<1>6. UndoneInOrder'
  BY DEF IInv, UndoneInOrder, StartPost
<1> QED
  BY <1>1, <1>2, <1>3, <1>4, <1>5, <1>6 DEF IInv

\* docker logout leaves no login of the action, or is recorded as failed.
LEMMA LogoutKeeps ==
    ASSUME IInv, Logout
    PROVE  IInv'
<1>1. TypeOK'
  <2>1. failed' \subseteq {"logout", "lease", "token"}
    BY DEF IInv, TypeOK, Logout
  <2> QED
    BY <2>1 DEF IInv, TypeOK, Logout
<1>2. PostAfterMain'
  BY DEF IInv, PostAfterMain, Logout
<1>3. SavedInOrder'
  BY DEF IInv, SavedInOrder, Logout
<1>4. CallsFollowSaved'
  BY DEF IInv, CallsFollowSaved, Logout
<1>5. LoginFollowsDocker'
  BY DEF IInv, SavedInOrder, LoginFollowsDocker, Logout, MustLogOut
<1>6. UndoneInOrder'
  BY DEF IInv, CallsFollowSaved, UndoneInOrder, Logout, MustLogOut
<1> QED
  BY <1>1, <1>2, <1>3, <1>4, <1>5, <1>6 DEF IInv

\* The lease ends, or the revocation is recorded as failed.
LEMMA RevokeLeaseKeeps ==
    ASSUME IInv, RevokeLease
    PROVE  IInv'
<1>1. TypeOK'
  <2>1. failed' \subseteq {"logout", "lease", "token"}
    BY DEF IInv, TypeOK, RevokeLease
  <2> QED
    BY <2>1 DEF IInv, TypeOK, RevokeLease, AfterLease
<1>2. PostAfterMain'
  BY DEF IInv, PostAfterMain, RevokeLease
<1>3. SavedInOrder'
  BY DEF IInv, SavedInOrder, RevokeLease
<1>4. CallsFollowSaved'
  BY DEF IInv, CallsFollowSaved, UndoneInOrder, RevokeLease
<1>5. LoginFollowsDocker'
  BY DEF IInv, LoginFollowsDocker, RevokeLease
<1>6. UndoneInOrder'
  BY DEF IInv, UndoneInOrder, MustLogOut, RevokeLease, AfterLease
<1> QED
  BY <1>1, <1>2, <1>3, <1>4, <1>5, <1>6 DEF IInv

\* The token ends, or the revocation is recorded as failed.
LEMMA RevokeTokenKeeps ==
    ASSUME IInv, RevokeToken
    PROVE  IInv'
<1>1. TypeOK'
  <2>1. failed' \subseteq {"logout", "lease", "token"}
    BY DEF IInv, TypeOK, RevokeToken
  <2> QED
    BY <2>1 DEF IInv, TypeOK, RevokeToken
<1>2. PostAfterMain'
  BY DEF IInv, PostAfterMain, RevokeToken
<1>3. SavedInOrder'
  BY DEF IInv, SavedInOrder, RevokeToken
<1>4. CallsFollowSaved'
  BY DEF IInv, CallsFollowSaved, RevokeToken
<1>5. LoginFollowsDocker'
  BY DEF IInv, LoginFollowsDocker, RevokeToken
<1>6. UndoneInOrder'
  BY DEF IInv, UndoneInOrder, MustLogOut, RevokeToken
<1> QED
  BY <1>1, <1>2, <1>3, <1>4, <1>5, <1>6 DEF IInv

\* A token that ends by itself undoes nothing that was undone.
LEMMA TokenEndsKeeps ==
    ASSUME IInv, TokenEnds
    PROVE  IInv'
<1>1. TypeOK'
  BY DEF IInv, TypeOK, TokenEnds
<1>2. PostAfterMain'
  BY DEF IInv, PostAfterMain, TokenEnds
<1>3. SavedInOrder'
  BY DEF IInv, SavedInOrder, TokenEnds
<1>4. CallsFollowSaved'
  BY DEF IInv, CallsFollowSaved, TokenEnds
<1>5. LoginFollowsDocker'
  BY DEF IInv, LoginFollowsDocker, TokenEnds
<1>6. UndoneInOrder'
  BY DEF IInv, UndoneInOrder, MustLogOut, TokenEnds
<1> QED
  BY <1>1, <1>2, <1>3, <1>4, <1>5, <1>6 DEF IInv

\* Nor does a lease that ends by itself.
LEMMA LeaseEndsKeeps ==
    ASSUME IInv, LeaseEnds
    PROVE  IInv'
<1>1. TypeOK'
  BY DEF IInv, TypeOK, LeaseEnds
<1>2. PostAfterMain'
  BY DEF IInv, PostAfterMain, LeaseEnds
<1>3. SavedInOrder'
  BY DEF IInv, SavedInOrder, LeaseEnds
<1>4. CallsFollowSaved'
  BY DEF IInv, CallsFollowSaved, LeaseEnds
<1>5. LoginFollowsDocker'
  BY DEF IInv, LoginFollowsDocker, LeaseEnds
<1>6. UndoneInOrder'
  BY DEF IInv, UndoneInOrder, MustLogOut, LeaseEnds
<1> QED
  BY <1>1, <1>2, <1>3, <1>4, <1>5, <1>6 DEF IInv

\* Nothing is saved at first.
LEMMA InitIInv == Init => IInv
BY DEF Init, IInv, TypeOK, SavedState, MainSteps, PostAfterMain, SavedInOrder,
   CallsFollowSaved, LoginFollowsDocker, UndoneInOrder

\* Every step is one of the actions above or changes nothing.
LEMMA StepKeepsIInv == IInv /\ [Next]_vars => IInv'
<1> SUFFICES ASSUME IInv, [Next]_vars PROVE IInv'
  OBVIOUS
<1>1. CASE Next
  BY <1>1, StartKeeps, AuthenticateKeeps, VaultLoginKeeps, LoginReplyKeeps,
     SaveOwnedKeeps, SaveTokenKeeps, SendReadCredsKeeps, VaultReadCredsKeeps,
     ReadCredsReplyKeeps, SaveLeaseKeeps, DockerLoginKeeps, SaveLoginKeeps,
     CancelKeeps, StartPostKeeps, LogoutKeeps, RevokeLeaseKeeps,
     RevokeTokenKeeps, TokenEndsKeeps, LeaseEndsKeeps DEF Next
<1>2. CASE UNCHANGED vars
  BY <1>2 DEF vars, IInv, TypeOK, PostAfterMain, SavedInOrder,
     CallsFollowSaved, LoginFollowsDocker, UndoneInOrder, MustLogOut
<1> QED
  BY <1>1, <1>2

-----------------------------------------------------------------------------
(* The theorems                                                            *)

\* IInv holds in every reachable state of the action's two steps: how far
\* main.ts came, what state.ts holds and what Vault and Docker hold agree.
THEOREM Inductive == Spec => []IInv
<1>1. Init => IInv
  BY InitIInv
<1>2. IInv /\ [Next]_vars => IInv'
  BY StepKeepsIInv
<1> QED
  BY <1>1, <1>2, PTL DEF Spec

\* TypeOK: a lease is on record only with its token, a Docker login only with
\* the lease (main.ts).
THEOREM TypeCorrect == Spec => []TypeOK
<1>1. IInv => TypeOK
  BY DEF IInv
<1> QED
  BY <1>1, Inductive, PTL

\* LeaseIsTraceable: main.ts saves the token, and whose it is, before Vault can
\* hold a lease for the job.
THEOREM LeasesTraceable == Spec => []LeaseIsTraceable
<1>1. IInv => LeaseIsTraceable
  BY DEF IInv, CallsFollowSaved, SavedInOrder, LeaseIsTraceable
<1> QED
  BY <1>1, Inductive, PTL

\* CleanedUp: what post.ts leaves in force once it is over, it left for a
\* reason: a supplied token, an input, a failed call or an answer that was lost.
THEOREM PostCleansUp == Spec => []CleanedUp
<1>1. IInv => CleanedUp
  BY DEF IInv, TypeOK, SavedState, SavedInOrder, CallsFollowSaved,
     UndoneInOrder, MustLogOut, CleanedUp
<1> QED
  BY <1>1, Inductive, PTL

\* Of the steps that move the post step, only those of post.ts revoke or log
\* out, and each asks the saved state first.
LEMMA StepKeepsForeign ==
    ASSUME IInv, Next, post' # post
    PROVE  /\ inputs.supplied => token' = token
           /\ docker = "other" => docker' = "other"
           /\ inputs.supplied /\ ~inputs.revoke => lease' = lease
<1>1. CASE StartPost
  BY <1>1 DEF StartPost
<1>2. CASE Logout
  BY <1>2 DEF IInv, LoginFollowsDocker, Logout, MustLogOut
<1>3. CASE RevokeLease
  BY <1>3 DEF RevokeLease
<1>4. CASE RevokeToken
  BY <1>4 DEF IInv, TypeOK, SavedState, SavedInOrder, UndoneInOrder,
     RevokeToken
<1> QED
  BY <1>1, <1>2, <1>3, <1>4 DEF Next, Start, Authenticate, VaultLogin,
     LoginReply, SaveOwned, SaveToken, SendReadCreds, VaultReadCreds,
     ReadCredsReply, SaveLease, DockerLogin, SaveLogin, Cancel, TokenEnds,
     LeaseEnds

\* ForeignKept: post.ts never ends a supplied token, a Docker login that was
\* there before, or, with revoke off and a supplied token, the lease.
THEOREM ForeignUntouched == Spec => ForeignKept
<1>1. IInv /\ [Next]_vars =>
        [post' # post =>
            /\ inputs.supplied => token' = token
            /\ docker = "other" => docker' = "other"
            /\ inputs.supplied /\ ~inputs.revoke => lease' = lease]_vars
  BY StepKeepsForeign
<1> QED
  BY <1>1, Inductive, PTL DEF Spec, ForeignKept

=============================================================================
