--------------------------- MODULE RequestService ---------------------------
(***************************************************************************)
(* What db_driver promises a business server as long as sids do not wrap:   *)
(* requests are numbered as they are made; the user's callback is called    *)
(* for a request that was made, at most once for each request, in the order *)
(* the requests were made; some requests are never called back.             *)
(***************************************************************************)
EXTENDS Integers, Sequences

VARIABLES
  made,     (* how many requests were made                                  *)
  called    (* the requests whose callback was called, in that order         *)

ServiceInit == made = 0 /\ called = <<>>

Make == made' = made + 1 /\ UNCHANGED called

CallBack(n) ==
  /\ \A i \in DOMAIN called : called[i] < n
  /\ called' = Append(called, n)
  /\ UNCHANGED made

ServiceNext == Make \/ \E n \in 1 .. made : CallBack(n)

ServiceSpec == ServiceInit /\ [][ServiceNext]_<<made, called>>
=============================================================================
