------------------------------ MODULE AckedLog ------------------------------
(***************************************************************************)
(* What the archive promises its writers, and nothing of how it does it:   *)
(* an append-only log of records.  `stored' is what a restart of the node  *)
(* would find; `acked' is what writers were told is durable.  A record     *)
(* may be stored without being acknowledged (the node died before it       *)
(* answered), never the other way round.                                   *)
(***************************************************************************)
EXTENDS Naturals

VARIABLES
    stored,  \* the set of records the log holds, each with its offset `off'
    acked    \* the records acknowledged to a writer

logVars == <<stored, acked>>

\* Offsets are handed out densely from 0, one record to each.
DenseLog(S) ==
    /\ \A r \in S : \A o \in 0 .. r.off : \E q \in S : q.off = o
    /\ \A r, q \in S : r.off = q.off => r = q

LogInit ==
    /\ stored = {}
    /\ acked = {}

\* Records are added at the end of the log only: nothing that is stored is
\* rewritten, moved or removed, and an acknowledgement is of a stored record.
Append ==
    /\ stored \subseteq stored'
    /\ DenseLog(stored')
    /\ \A r \in stored' \ stored, q \in stored : q.off < r.off
    /\ acked \subseteq acked'
    /\ acked' \subseteq stored'

LogSpec == LogInit /\ [][Append]_logVars
=============================================================================
