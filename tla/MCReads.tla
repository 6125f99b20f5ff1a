------------------------------- MODULE MCReads -------------------------------
(* Small instances of Reads, in one run: `what' says which one a behaviour *)
(* is of.  In the first a client reads while device a sends one event at a *)
(* time, x before the others, and that ends when the client has read all;  *)
(* in the second batches come and nobody reads.  A client that does not    *)
(* read from a freeze reads without one: to it a freeze is a seal, and a   *)
(* reason for an eviction not to come.                                     *)
EXTENDS ReadsInv

CONSTANTS a, b, x, y, z, BatchMax, BatchLog

VARIABLE what

\* One device sends out of order, uses a number twice and sets its clock back;
\* another one uses an event id of the first.
Sent == {[dev |-> a, id |-> x, seq |-> 2, ts |-> 1],
         [dev |-> a, id |-> y, seq |-> 1, ts |-> 2],
         [dev |-> a, id |-> z, seq |-> 2, ts |-> 1],
         [dev |-> b, id |-> x, seq |-> 1, ts |-> 1]}

Batched == INSTANCE Reads WITH MaxBatch <- BatchMax, MaxLog <- BatchLog, Limits <- {}

EitherInit == what \in {"read", "batches"} /\ Init
EitherNext ==
    /\ UNCHANGED what
    /\ \/ /\ what = "read"
          /\ client.at # "over"
          /\ Next
          /\ client'.kind \in {"device", "head"} => frz' = NoFreeze
          /\ \A i \in DOMAIN log' : log'[i].ev.dev = a /\ log'[1].ev.id = x
       \/ what = "batches" /\ Batched!Next
Either == EitherInit /\ [][EitherNext]_<<vars, what>>
=============================================================================
