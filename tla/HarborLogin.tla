----------------------------- MODULE HarborLogin -----------------------------
(***************************************************************************)
(* The GitHub Action that logs a job in to Harbor: its main step, which    *)
(* obtains a Vault token and a Harbor credential and records in the        *)
(* runner's saved state what has to be undone, and its post step, which    *)
(* undoes it.  The main step may fail or be cancelled anywhere; a request  *)
(* to Vault it no longer waits for may still be served.                    *)
(* action/src/index.ts, main.ts, auth.ts, vault.ts, docker.ts, state.ts,   *)
(* post.ts.                                                                *)
(***************************************************************************)

VARIABLES
    inputs, \* what the workflow asks for
    main,   \* where the main step is
    post,   \* where the post step is; "none" when there is none to come
    saved,  \* the saved state
    call,   \* the request to Vault the main step last sent
    token,  \* Vault's view of the token the action uses
    lease,  \* Vault's view of the lease on the Harbor credential
    docker, \* whose login to the registry the Docker CLI holds
    failed  \* calls of the post step that answered with an error

vars == <<inputs, main, post, saved, call, token, lease, docker, failed>>

MainSteps == {"start", "authenticate", "login", "save_owned", "save_token", "read_creds",
              "creds", "save_lease", "docker", "save_login", "over"}

SavedState == [isPost : BOOLEAN, tokenActionOwned : BOOLEAN, token : BOOLEAN,
               leaseId : BOOLEAN, loggedIn : BOOLEAN]

TypeOK ==
    /\ inputs \in [valid : BOOLEAN, supplied : BOOLEAN, login : BOOLEAN,
                   revoke : BOOLEAN, logout : BOOLEAN]
    /\ main \in MainSteps
    /\ post \in {"waiting", "logout", "lease", "token", "over", "none"}
    /\ saved \in SavedState
    /\ (saved.leaseId => saved.token) /\ (saved.loggedIn => saved.leaseId)
    /\ call \in {"none", "login", "creds", "answered", "refused"}
    /\ token \in {"none", "alive", "dead"}
    /\ lease \in {"none", "active", "ended"}
    /\ docker \in {"none", "other", "ours"}
    /\ failed \subseteq {"logout", "lease", "token"}

Init ==
    /\ inputs \in [valid : BOOLEAN, supplied : BOOLEAN, login : BOOLEAN,
                   revoke : BOOLEAN, logout : BOOLEAN]
    /\ main = "start"
    /\ post = "waiting"
    /\ saved = [isPost |-> FALSE, tokenActionOwned |-> FALSE, token |-> FALSE,
                leaseId |-> FALSE, loggedIn |-> FALSE]
    /\ call = "none"
    /\ token = IF inputs.supplied THEN "alive" ELSE "none"
    /\ lease = "none"
    /\ docker \in {"none", "other"}
    /\ failed = {}

-----------------------------------------------------------------------------
(* The main step                                                           *)

Goto(from, to) == main = from /\ main' = to

\* parseInputs, then markPostRun and the inputs the post step needs.
Start ==
    /\ \/ inputs.valid /\ Goto("start", "authenticate") /\ saved' = [saved EXCEPT !.isPost = TRUE]
       \/ ~inputs.valid /\ Goto("start", "over") /\ UNCHANGED saved
    /\ UNCHANGED <<inputs, post, call, token, lease, docker, failed>>

\* A supplied token is used as it is; else an OIDC token is exchanged for one,
\* when there is an OIDC token.
Authenticate ==
    /\ \/ inputs.supplied /\ Goto("authenticate", "save_owned") /\ UNCHANGED call
       \/ ~inputs.supplied /\ Goto("authenticate", "login") /\ call' = "login"
       \/ ~inputs.supplied /\ Goto("authenticate", "over") /\ UNCHANGED call
    /\ UNCHANGED <<inputs, post, saved, token, lease, docker, failed>>

\* Vault serves the login, whether or not anyone still waits for it.
VaultLogin ==
    /\ call = "login"
    /\ \/ call' = "answered" /\ token' = "alive"
       \/ call' = "refused" /\ UNCHANGED token
    /\ UNCHANGED <<inputs, main, post, saved, lease, docker, failed>>

\* A refusal, a timeout, a lost or an unreadable answer all throw.
LoginReply ==
    /\ \/ call = "answered" /\ Goto("login", "save_owned")
       \/ Goto("login", "over")
    /\ UNCHANGED <<inputs, post, saved, call, token, lease, docker, failed>>

\* Whose token it is goes on record before the token does.
SaveOwned ==
    /\ Goto("save_owned", "save_token")
    /\ saved' = [saved EXCEPT !.tokenActionOwned = ~inputs.supplied]
    /\ UNCHANGED <<inputs, post, call, token, lease, docker, failed>>

NotSaved  == saved   \* mutant: the token is kept in memory only
WithToken == [saved EXCEPT !.token = TRUE]

SaveToken ==
    /\ Goto("save_token", "read_creds")
    /\ saved' = WithToken
    /\ UNCHANGED <<inputs, post, call, token, lease, docker, failed>>

SendReadCreds ==
    /\ Goto("read_creds", "creds")
    /\ call' = "creds"
    /\ UNCHANGED <<inputs, post, saved, token, lease, docker, failed>>

\* Vault checks the token and, if the engine issues a robot, registers a lease
\* that belongs to the token.
VaultReadCreds ==
    /\ call = "creds"
    /\ \/ token = "alive" /\ call' = "answered" /\ lease' = "active"
       \/ call' = "refused" /\ UNCHANGED lease
    /\ UNCHANGED <<inputs, main, post, saved, token, docker, failed>>

ReadCredsReply ==
    /\ \/ call = "answered" /\ Goto("creds", "save_lease")
       \/ Goto("creds", "over")
    /\ UNCHANGED <<inputs, post, saved, call, token, lease, docker, failed>>

SaveLease ==
    /\ Goto("save_lease", IF inputs.login THEN "docker" ELSE "over")
    /\ saved' = [saved EXCEPT !.leaseId = TRUE]
    /\ UNCHANGED <<inputs, post, call, token, lease, docker, failed>>

DockerLogin ==
    /\ \/ Goto("docker", "save_login") /\ docker' = "ours"
       \/ Goto("docker", "over") /\ UNCHANGED docker
    /\ UNCHANGED <<inputs, post, saved, call, token, lease, failed>>

SaveLogin ==
    /\ Goto("save_login", "over")
    /\ saved' = [saved EXCEPT !.loggedIn = TRUE]
    /\ UNCHANGED <<inputs, post, call, token, lease, docker, failed>>

\* The job is cancelled or times out: the main step is killed where it is.
Cancel ==
    /\ main # "over"
    /\ main' = "over"
    /\ UNCHANGED <<inputs, post, saved, call, token, lease, docker, failed>>

-----------------------------------------------------------------------------
(* The post step, which runs whatever became of the job                    *)

\* index.ts: without isPost in the saved state the bundle takes itself for the
\* main step, and no post step follows that one.
StartPost ==
    /\ main = "over" /\ post = "waiting"
    /\ \/ saved.isPost /\ post' = "logout" /\ UNCHANGED main
       \/ ~saved.isPost /\ post' = "none" /\ main' = "start"
    /\ UNCHANGED <<inputs, saved, call, token, lease, docker, failed>>

AlwaysLogOut == inputs.logout   \* mutant: whoever logged in
MustLogOut   == saved.loggedIn /\ inputs.logout

\* An error of docker logout is a warning.  Without a token there is no more to do.
Logout ==
    /\ post = "logout"
    /\ post' = IF saved.token THEN "lease" ELSE "over"
    /\ \/ MustLogOut /\ docker' = "none" /\ UNCHANGED failed
       \/ MustLogOut /\ failed' = failed \union {"logout"} /\ UNCHANGED docker
       \/ ~MustLogOut /\ UNCHANGED <<docker, failed>>
    /\ UNCHANGED <<inputs, main, saved, call, token, lease>>

NeverOwned == "over"   \* mutant: a token the action minted is left alone
AfterLease == IF saved.tokenActionOwned THEN "token" ELSE "over"

\* revokeLease, synchronous.  An error is a warning, and may hide a revocation.
RevokeLease ==
    /\ post = "lease"
    /\ post' = AfterLease
    /\ \/ /\ saved.leaseId /\ inputs.revoke
          /\ token = "alive"
          /\ lease' = "ended"
          /\ UNCHANGED failed
       \/ /\ saved.leaseId /\ inputs.revoke
          /\ lease' \in {lease, "ended"}
          /\ failed' = failed \union {"lease"}
       \/ ~(saved.leaseId /\ inputs.revoke) /\ UNCHANGED <<lease, failed>>
    /\ UNCHANGED <<inputs, main, saved, call, token, docker>>

\* revokeSelfToken.
RevokeToken ==
    /\ post = "token"
    /\ post' = "over"
    /\ \/ token = "alive" /\ token' = "dead" /\ UNCHANGED failed
       \/ token' \in {token, "dead"} /\ failed' = failed \union {"token"}
    /\ UNCHANGED <<inputs, main, saved, call, lease, docker>>

-----------------------------------------------------------------------------
(* Vault                                                                   *)

\* The token's TTL runs out, or its owner revokes it.
TokenEnds ==
    /\ token = "alive"
    /\ token' = "dead"
    /\ UNCHANGED <<inputs, main, post, saved, call, lease, docker, failed>>

\* The lease's TTL runs out, or it goes with its token.
LeaseEnds ==
    /\ lease = "active"
    /\ lease' = "ended"
    /\ UNCHANGED <<inputs, main, post, saved, call, token, docker, failed>>

Next ==
    \/ Start \/ Authenticate \/ VaultLogin \/ LoginReply \/ SaveOwned \/ SaveToken
    \/ SendReadCreds \/ VaultReadCreds \/ ReadCredsReply \/ SaveLease
    \/ DockerLogin \/ SaveLogin \/ Cancel
    \/ StartPost \/ Logout \/ RevokeLease \/ RevokeToken
    \/ TokenEnds \/ LeaseEnds

Spec == Init /\ [][Next]_vars

-----------------------------------------------------------------------------
(* Properties                                                              *)

\* "Anything the post step needs must be saved before a failure can occur"
\* (main.ts): from the moment Vault may hold a lease for the job, the saved
\* state has the token that can end it and says whose token that is.  A main
\* step that runs in the place of the post step is past saving anything.
LeaseIsTraceable ==
    post # "none" /\ (call = "creds" \/ lease = "active") =>
        saved.token /\ saved.tokenActionOwned = ~inputs.supplied

\* A post step that is over leaves a credential in force only under a token the
\* workflow supplied, when revoke is off, the answer with the lease id was lost
\* or the revocation failed; under a token of the action, only if revoking the
\* token failed.  It leaves a token of its own only if it never learnt of it.
CleanedUp ==
    post = "over" =>
        /\ lease = "active" /\ token = "alive" =>
              IF inputs.supplied
              THEN ~inputs.revoke \/ ~saved.leaseId \/ "lease" \in failed
              ELSE "token" \in failed
        /\ token = "alive" /\ ~inputs.supplied => ~saved.token \/ "token" \in failed
        /\ docker = "ours" => ~inputs.logout \/ ~saved.loggedIn \/ "logout" \in failed

\* The post step undoes nothing that is not the action's: it leaves a supplied
\* token alone, a Docker login that was there before, and, with revoke off and
\* a supplied token, the lease.
ForeignKept ==
    [][post' # post =>
          /\ inputs.supplied => token' = token
          /\ docker = "other" => docker' = "other"
          /\ inputs.supplied /\ ~inputs.revoke => lease' = lease]_vars

-----------------------------------------------------------------------------
(* The inductive invariant                                                 *)

\* The post step follows a main step that is over and had marked itself; before
\* the mark there is nothing to undo.
PostAfterMain ==
    /\ post \notin {"waiting", "none"} => main = "over" /\ saved.isPost
    /\ ~saved.isPost => main \in {"start", "over"} /\ ~saved.token /\ call = "none"

\* Where the main step is tells what it has saved.
SavedInOrder ==
    /\ main \in {"start", "authenticate", "login", "save_owned", "save_token"} => ~saved.token
    /\ main \in {"read_creds", "creds", "save_lease", "docker", "save_login"} => saved.token
    /\ main \in {"read_creds", "creds", "save_lease"} => ~saved.leaseId
    /\ main \in {"docker", "save_login"} => saved.leaseId
    /\ main # "over" => ~saved.loggedIn
    /\ saved.token \/ main = "save_token" => saved.tokenActionOwned = ~inputs.supplied

\* So does what Vault has been asked: no login is still to be served once the
\* token is saved, and no second lease to be had once the first is.
CallsFollowSaved ==
    /\ call = "login" => main \in {"login", "over"} /\ ~saved.token
    /\ call = "creds" \/ lease # "none" => saved.token
    /\ saved.leaseId \/ main = "save_lease" => call = "answered"

\* A login on record is one the action made.
LoginFollowsDocker ==
    /\ main = "save_login" => docker = "ours"
    /\ saved.loggedIn => docker # "other"

\* What each call of the post step that answered with success has undone.
UndoneInOrder ==
    /\ post \in {"lease", "token"} => saved.token
    /\ post = "token" => saved.tokenActionOwned
    /\ post \in {"lease", "token", "over"} /\ MustLogOut /\ "logout" \notin failed =>
          docker # "ours"
    /\ post \in {"token", "over"} /\ saved.leaseId /\ inputs.revoke /\ "lease" \notin failed =>
          lease # "active"
    /\ post = "over" /\ saved.token /\ saved.tokenActionOwned /\ "token" \notin failed =>
          token # "alive"

IInv ==
    /\ TypeOK
    /\ PostAfterMain
    /\ SavedInOrder
    /\ CallsFollowSaved
    /\ LoginFollowsDocker
    /\ UndoneInOrder

=============================================================================
