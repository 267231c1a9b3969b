------------------------ MODULE EnvironmentAuthority ------------------------
(***************************************************************************)
(* The root-owned authorization store, EnvironmentAuthority of             *)
(* ade/environment_auth.py and internal/ade/environment_auth.go:           *)
(* accounts.json, sessions.json (sessions and one-use run approvals) and   *)
(* policy.json, beside the run store that authorize_run writes to.  Only   *)
(* the Go helper can register an account.                                  *)
(*                                                                         *)
(* Every operation holds the authorization lock from its load to its last  *)
(* write, so each is one step, except authorize_run: the run it creates is *)
(* visible under the run store's own lock before the approval is written.  *)
(* "helper" is the authorize_run that holds the lock between those writes. *)
(* Where accounts.json is written before sessions.json, "crashed" is the   *)
(* outcome in which the process dies between the two.                      *)
(***************************************************************************)
EXTENDS RunStore

CONSTANTS
  Tokens,         \* bearer tokens, each drawn at random and never reused
  NoCredential, NoToken,
  MaxCredentials, \* bound: how often one account is set
  MaxPolicies     \* bound: how often the policy is saved

ASSUME TokenAssumption ==
  /\ NoToken \notin Tokens
  /\ NoCredential \notin [user : Users, credential : Nat]
ASSUME BoundAssumption == MaxCredentials \in Nat /\ MaxPolicies \in Nat

VARIABLES
  account,   \* accounts.json: role and credential_id; credential 0: no account
  session,   \* the credential each token was issued for
  live,      \* sessions.json: the tokens it lists whose expires_at is to come
  approval,  \* sessions.json: the session that approved each run
  policy,    \* policy.json; id 0: no file
  helper,    \* the authorize_run that holds the lock; run 0: the lock is free
  asked,     \* history variable: the session each manual run was asked with
  spent      \* history variable: how often each run was authorized to start

authVars == <<account, session, live, approval, policy, helper,
              asked, spent>>

Viewer   == 0
Operator == 1
Admin    == 2
Roles    == {Viewer, Operator, Admin}

Account    == [role : Roles, credential : Nat]
Credential == [user : Users, credential : Nat]
Policy     == [id : Nat, enabled : BOOLEAN,
               selection : Selections \cup {NoSelection}]

AuthTypeOK ==
  /\ account \in [Users -> Account]
  /\ session \in [Tokens -> Credential \cup {NoCredential}]
  /\ live \subseteq Tokens
  /\ approval \in [RunIds -> Tokens \cup {NoToken}]
  /\ policy \in Policy
  /\ helper \in [run : 0..MaxRuns, token : Tokens \cup {NoToken}]
  /\ asked \in [RunIds -> Tokens \cup {NoToken}]
  /\ spent \in [RunIds -> Nat]

Idle == [run |-> 0, token |-> NoToken]

AuthInit ==
  /\ account = [u \in Users |-> [role |-> Viewer, credential |-> 0]]
  /\ session = [t \in Tokens |-> NoCredential]
  /\ live = {}
  /\ approval = [r \in RunIds |-> NoToken]
  /\ policy = [id |-> 0, enabled |-> FALSE, selection |-> NoSelection]
  /\ helper = Idle
  /\ asked = [r \in RunIds |-> NoToken]
  /\ spent = [r \in RunIds |-> 0]

LockFree == helper = Idle

Fresh(t) == session[t] = NoCredential

Registered == \E u \in Users : account[u].credential > 0

(* Mutant: the credential a session was issued for is not compared.        *)
SessionListed(t, minimum) ==
  /\ t \in live
  /\ account[session[t].user].role >= minimum

(* A session is honoured while it is listed and unexpired, was issued for  *)
(* the account's current credential, and the account's role suffices.      *)
SessionValid(t, minimum) ==
  /\ t \in live
  /\ account[session[t].user].credential = session[t].credential
  /\ account[session[t].user].role >= minimum

(* A new bearer token, stored for the account's credential.                *)
Issue(t, u, credential) ==
  /\ session' = [session EXCEPT ![t] = [user |-> u, credential |-> credential]]
  /\ live' = live \cup {t}

(* First use: the account and then its session, while nobody registered.   *)
Register(u, t, crashed) ==
  /\ LockFree /\ ~Registered /\ Fresh(t)
  /\ account' = [account EXCEPT ![u] = [role |-> Admin, credential |-> 1]]
  /\ IF crashed THEN UNCHANGED <<session, live>> ELSE Issue(t, u, 1)
  /\ UNCHANGED <<approval, policy, helper, asked, spent>>

Login(u, t) ==
  /\ LockFree /\ Fresh(t)
  /\ account[u].credential > 0
  /\ Issue(t, u, account[u].credential)
  /\ UNCHANGED <<account, approval, policy, helper, asked, spent>>

(* Logout deletes the session only: its approvals stay in the file.        *)
Logout(t) ==
  /\ LockFree
  /\ t \in live
  /\ live' = live \ {t}
  /\ UNCHANGED <<account, session, approval, policy, helper, asked,
                 spent>>

SessionsOf(u) == {t \in live : session[t].user = u}

(* Password rotation or role change by root: a new credential_id, then the *)
(* removal of the user's sessions and of the approvals those gave.         *)
SetAccount(u, role, crashed) ==
  /\ LockFree
  /\ account[u].credential < MaxCredentials
  /\ account' = [account EXCEPT
                   ![u] = [role |-> role, credential |-> @.credential + 1]]
  /\ IF crashed
     THEN UNCHANGED <<live, approval>>
     ELSE /\ live' = live \ SessionsOf(u)
          /\ approval' = [r \in RunIds |-> IF approval[r] \in SessionsOf(u)
                                           THEN NoToken ELSE approval[r]]
  /\ UNCHANGED <<session, policy, helper, asked, spent>>

(* Twelve hours have passed: every later load drops the session and its    *)
(* approvals, which carry the same expires_at.  Time waits for no lock.    *)
Expire(t) ==
  /\ t \in live
  /\ live' = live \ {t}
  /\ approval' = [r \in RunIds |-> IF approval[r] = t THEN NoToken
                                   ELSE approval[r]]
  /\ UNCHANGED <<account, session, policy, helper, asked, spent>>

(* Each save draws a new policy_id; a disabled policy names no component.  *)
SavePolicy(t, enabled, selection) ==
  /\ LockFree
  /\ SessionValid(t, Admin)
  /\ policy.id < MaxPolicies
  /\ policy' = [id |-> policy.id + 1, enabled |-> enabled,
                selection |-> IF enabled THEN selection ELSE NoSelection]
  /\ UNCHANGED <<account, session, live, approval, helper, asked, spent>>

(* authorize_run, first write: the queued run, in the session user's name. *)
AuthorizeRun(t, selection) ==
  /\ LockFree
  /\ SessionValid(t, Operator)
  /\ Create("manual", session[t].user, selection)
  /\ helper' = [run |-> created + 1, token |-> t]
  /\ asked' = [asked EXCEPT ![created + 1] = t]
  /\ UNCHANGED <<account, session, live, approval, policy, spent>>

(* authorize_run, second write: the approval, bound to run and session.    *)
RecordApproval ==
  /\ ~LockFree
  /\ approval' = [approval EXCEPT ![helper.run] = helper.token]
  /\ helper' = Idle
  /\ UNCHANGED <<account, session, live, policy, asked, spent>>

(* The helper is killed between its two writes and the lock is released.   *)
HelperKilled ==
  /\ ~LockFree
  /\ helper' = Idle
  /\ UNCHANGED <<account, session, live, approval, policy, asked, spent>>

(* An approval is in force while it is listed and its session is honoured. *)
Approved(r) ==
  /\ approval[r] # NoToken
  /\ SessionValid(approval[r], Operator)

(* Mutant: the approval is checked and stays.                              *)
ConsumeRunKeepsApproval(r) ==
  /\ LockFree
  /\ Approved(r)
  /\ spent' = [spent EXCEPT ![r] = @ + 1]
  /\ UNCHANGED <<account, session, live, approval, policy, helper, asked>>

(* ConsumeRun, approved: the approval is deleted before the run starts.    *)
ConsumeRun(r) ==
  /\ LockFree
  /\ Approved(r)
  /\ approval' = [approval EXCEPT ![r] = NoToken]
  /\ spent' = [spent EXCEPT ![r] = @ + 1]
  /\ UNCHANGED <<account, session, live, policy, helper, asked>>
=============================================================================
