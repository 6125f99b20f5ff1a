---------------------------- MODULE Subscription ----------------------------
(***************************************************************************)
(* What a durable consumer group promises, whoever holds it and whatever   *)
(* crashes: the subscription begins where it was declared; one batch at a  *)
(* time is on offer, and stays on offer until it is settled; the           *)
(* subscription moves on, to the end of that batch, only when each of its  *)
(* offsets below the declared end was delivered or reported as a gap.      *)
(***************************************************************************)
EXTENDS Integers

VARIABLES
    status,  \* "none" while nothing is declared
    start,   \* where it was declared to begin
    end,     \* the offsets from here on do not belong to it
    at,      \* the checkpoint
    offer,   \* the batch on offer, its key 0 when there is none
    told     \* offsets delivered or reported since the declaration

subVars == <<status, start, end, at, offer, told>>

Ongoing == status # "none" /\ status' # "none" /\ UNCHANGED <<start, end>>

\* What a batch owes the subscriber.
Due(b) == {o \in b.from .. b.next - 1 : o < end}

SubInit ==
    /\ status = "none"
    /\ offer.key = 0
    /\ told = {}

Declare ==
    /\ status = "none" /\ status' = "active"
    /\ start' \in Nat /\ at' = start'
    /\ offer'.key = 0
    /\ told' = {}

\* The batch is delivered, perhaps again, or the subscriber hears nothing.
Delivery(b) ==
    \/ UNCHANGED told
    \/ told \cup Due(b) \subseteq told' /\ told' \subseteq told \cup b.from .. b.next - 1

\* A new batch begins at the checkpoint.
Offer ==
    /\ Ongoing
    /\ UNCHANGED at
    /\ offer.key = 0 /\ offer'.key # 0
    /\ offer'.from = at /\ offer'.next \in Nat /\ at <= offer'.next
    /\ Delivery(offer')

Deliver ==
    /\ Ongoing
    /\ UNCHANGED <<at, offer>>
    /\ offer.key = 0 => UNCHANGED told
    /\ Delivery(offer)

SettleOffer ==
    /\ Ongoing
    /\ offer.key # 0 /\ offer'.key = 0
    /\ Due(offer) \subseteq told
    /\ at' = offer.next
    /\ UNCHANGED told

Drop ==
    /\ status # "none" /\ status' = "none"
    /\ UNCHANGED told

SubNext == Declare \/ Offer \/ Deliver \/ SettleOffer \/ Drop

SubSpec == SubInit /\ [][SubNext]_subVars
=============================================================================
