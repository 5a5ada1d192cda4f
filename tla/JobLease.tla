------------------------------ MODULE JobLease ------------------------------
(***************************************************************************)
(* What the job queue promises, without clocks, locks, workers or          *)
(* messages: a job is held by one numbered claim at a time, a newer claim  *)
(* revokes the older one, only the claim that holds the job may write      *)
(* data, give the job back or end it, and a key (account, type) has at     *)
(* most one job that is waiting or held.  JobQueue implements this.        *)
(***************************************************************************)
EXTENDS Integers

CONSTANTS MaxJobs, MaxClaims, Accounts, Types

Keys == Accounts \X Types
NoKey == <<>>
Jobs == 1..MaxJobs

VARIABLES
  state,         \* of each job: absent, waiting, held or over
  jobKey,        \* what it is for
  claim,         \* the number of its last claim
  dataJob, dataAttempt   \* the job and the claim behind the data of a key

leaseVars == <<state, jobKey, claim, dataJob, dataAttempt>>

Open == {"waiting", "held"}

Init ==
  /\ state = [j \in Jobs |-> "absent"]
  /\ jobKey = [j \in Jobs |-> NoKey]
  /\ claim = [j \in Jobs |-> 0]
  /\ dataJob = [k \in Keys |-> 0]
  /\ dataAttempt = [k \in Keys |-> 0]

\* A new job, numbered after every older one; its key has none open.
Submit(j, k) ==
  /\ state[j] = "absent"
  /\ \A i \in Jobs : i < j => state[i] # "absent"
  /\ \A i \in Jobs : jobKey[i] = k => state[i] \notin Open
  /\ state' = [state EXCEPT ![j] = "waiting"]
  /\ jobKey' = [jobKey EXCEPT ![j] = k]
  /\ UNCHANGED <<claim, dataJob, dataAttempt>>

\* A claim of a waiting job, or one that revokes the claim holding it.
Grant(j) ==
  /\ state[j] \in Open
  /\ claim[j] < MaxClaims
  /\ state' = [state EXCEPT ![j] = "held"]
  /\ claim' = [claim EXCEPT ![j] = claim[j] + 1]
  /\ UNCHANGED <<jobKey, dataJob, dataAttempt>>

\* Data is written in the name of the claim that holds the job, no other.
Write(j) ==
  /\ state[j] = "held"
  /\ dataJob' = [dataJob EXCEPT ![jobKey[j]] = j]
  /\ dataAttempt' = [dataAttempt EXCEPT ![jobKey[j]] = claim[j]]
  /\ UNCHANGED <<state, jobKey, claim>>

GiveBack(j) ==
  /\ state[j] = "held"
  /\ state' = [state EXCEPT ![j] = "waiting"]
  /\ UNCHANGED <<jobKey, claim, dataJob, dataAttempt>>

End(j) ==
  /\ state[j] = "held"
  /\ state' = [state EXCEPT ![j] = "over"]
  /\ UNCHANGED <<jobKey, claim, dataJob, dataAttempt>>

\* Every job of an account is withdrawn with the account.
Withdraw(acct) ==
  /\ state' = [j \in Jobs |-> IF state[j] # "absent" /\ jobKey[j][1] = acct
                              THEN "over" ELSE state[j]]
  /\ UNCHANGED <<jobKey, claim, dataJob, dataAttempt>>

Next ==
  \/ \E j \in Jobs : \/ \E k \in Keys : Submit(j, k)
                     \/ Grant(j) \/ Write(j) \/ GiveBack(j) \/ End(j)
  \/ \E acct \in Accounts : Withdraw(acct)

Spec == Init /\ [][Next]_leaseVars
=============================================================================
