------------------------------ MODULE FixedWindow ------------------------------
(***************************************************************************)
(* What a rate limiter promises of each key: the first request opens a     *)
(* window of fixed length, the window closes when that length has passed,  *)
(* and a request in an open window is admitted while the requests it has   *)
(* seen, admitted or not, are fewer than the limit the request comes with. *)
(* Nothing is kept of a closed window.                                     *)
(***************************************************************************)
EXTENDS Integers

CONSTANTS
  Keys,    \* what is limited
  Limits,  \* the limits the requests of each key may come with
  Length   \* of the windows of each key

VARIABLES
  now,     \* the clock
  window,  \* the window of each key
  admitted \* the requests of each key that were admitted in the latest instants,
           \* as many as a window has: when, and which of its window it was

vars == <<now, window, admitted>>

Closed == [ends |-> -1, asked |-> 0]

\* A request of k that comes with the limit n.
Ask(k, n) ==
  /\ window' = [window EXCEPT ![k] =
       [ends  |-> IF @ = Closed THEN now + Length[k] ELSE @.ends,
        asked |-> @.asked + 1]]
  /\ admitted' = [admitted EXCEPT ![k] = @ \cup
       IF window[k] = Closed \/ window[k].asked < n
       THEN {<<now, window[k].asked + 1>>} ELSE {}]
  /\ UNCHANGED now

\* A window is open at the instant it ends, not after.
Pass ==
  /\ now' = now + 1
  /\ window' = [k \in Keys |-> IF window[k].ends < now + 1 THEN Closed
                                                           ELSE window[k]]
  /\ admitted' = [k \in Keys |->
                    {x \in admitted[k] : x[1] > now + 1 - Length[k]}]

Init ==
  /\ now = 0
  /\ window = [k \in Keys |-> Closed]
  /\ admitted = [k \in Keys |-> {}]
Next == Pass \/ \E k \in Keys : \E n \in Limits[k] : Ask(k, n)
Spec == Init /\ [][Next]_vars

=============================================================================
