--------------------------- MODULE SlidingWindow ---------------------------
(***************************************************************************)
(* What a sliding-window limiter promises, whatever its tables, locks and  *)
(* collectors: of the requests of a key it has not been made to forget, at *)
(* most Max are admitted per Window.  A request carries the time it was stamped with, which may lie  *)
(* a little in the past when it is admitted.                               *)
(***************************************************************************)
EXTENDS Integers, FiniteSets

CONSTANTS Keys, Requests, Max, Window

VARIABLES
  now,
  admitted    \* set of [req, key, at]

wvars == <<now, admitted>>

Admission == [req : Requests, key : Keys, at : Nat]

\* The admissions of key k inside the window that ends now.
Within(k) == {a \in admitted : a.key = k /\ a.at > now - Window}

Init == now = 0 /\ admitted = {}

Admit(r, k, t) ==
  /\ t <= now
  /\ \A a \in admitted : a.req # r
  /\ Cardinality(Within(k)) < Max
  /\ admitted' = admitted \cup {[req |-> r, key |-> k, at |-> t]}
  /\ UNCHANGED now

\* A table without room forgets a key as it admits a request, maybe its own.
AdmitEvicting(r, k, t, j) ==
  LET kept == {a \in admitted : a.key # j}
  IN  /\ t <= now
      /\ \A a \in admitted : a.req # r
      /\ Cardinality(Within(k) \cap kept) < Max
      /\ admitted' = kept \cup {[req |-> r, key |-> k, at |-> t]}
      /\ UNCHANGED now

\* What is known of a key, or everything, may be wiped, by an operator or to
\* make room.
Forgive(k) ==
  /\ admitted' = {a \in admitted : a.key # k}
  /\ UNCHANGED now

ForgiveAll == admitted' = {} /\ UNCHANGED now

Tick == now' = now + 1 /\ UNCHANGED admitted

Next ==
  \/ \E r \in Requests, k \in Keys, t \in 0..now :
       Admit(r, k, t) \/ \E j \in Keys : AdmitEvicting(r, k, t, j)
  \/ \E k \in Keys : Forgive(k)
  \/ ForgiveAll
  \/ Tick

Spec == Init /\ [][Next]_wvars

\* At most Max requests of a key are admitted per Window.
RateBound == \A k \in Keys : Cardinality(Within(k)) <= Max
=============================================================================
