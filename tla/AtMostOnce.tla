------------------------------ MODULE AtMostOnce ------------------------------
(***************************************************************************)
(* What an idempotency key promises: of all the requests that carry one    *)
(* key, one has an effect; "ok" goes to that one, and "duplicate" only to  *)
(* a request whose key another one has already used.                       *)
(***************************************************************************)
EXTENDS Naturals

CONSTANTS
  Requests,  \* requests of the clients, each answered at most once
  Keys,      \* idempotency keys the clients share between requests
  Nobody     \* absence of a key

VARIABLES
  key,   \* key of each request, Nobody until it is sent
  done,  \* set of effects [key, req]
  told   \* what each request has been answered

vars == <<key, done, told>>

Init ==
  /\ key = [r \in Requests |-> Nobody]
  /\ done = {}
  /\ told = [r \in Requests |-> "nothing"]

Send(r) ==
  /\ key[r] = Nobody
  /\ \E k \in Keys \cup {r} : key' = [key EXCEPT ![r] = k]
  /\ UNCHANGED <<done, told>>

Effect(r) ==
  /\ key[r] # Nobody
  /\ told[r] = "nothing"
  /\ \A e \in done : e.key # key[r]
  /\ done' = done \cup {[key |-> key[r], req |-> r]}
  /\ UNCHANGED <<key, told>>

Confirm(r) ==
  /\ told[r] = "nothing"
  /\ [key |-> key[r], req |-> r] \in done
  /\ told' = [told EXCEPT ![r] = "ok"]
  /\ UNCHANGED <<key, done>>

Refuse(r) ==
  /\ told[r] = "nothing"
  /\ \E e \in done : e.key = key[r] /\ e.req # r
  /\ told' = [told EXCEPT ![r] = "duplicate"]
  /\ UNCHANGED <<key, done>>

\* An error, or no answer at all, says nothing about the effect; one death
\* of a server leaves several requests without an answer.
Abandon(R) ==
  /\ \A r \in R : told[r] = "nothing"
  /\ told' = [r \in Requests |-> IF r \in R THEN "no answer" ELSE told[r]]
  /\ UNCHANGED <<key, done>>

Next ==
  \/ \E r \in Requests : Send(r) \/ Effect(r) \/ Confirm(r) \/ Refuse(r)
  \/ \E R \in SUBSET Requests : Abandon(R)

Spec == Init /\ [][Next]_vars
===============================================================================
