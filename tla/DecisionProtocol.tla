-------------------------- MODULE DecisionProtocol --------------------------
(***************************************************************************)
(* What the cognition barrier promises, without threads, ticks or agents:  *)
(* a decision that is asked for is answered, and is then settled exactly   *)
(* once; no decision is settled from its answer while another one is still *)
(* unanswered.  Stopping cancels what is unanswered.  A fault may lose     *)
(* decisions, but never brings one back.                                   *)
(***************************************************************************)
CONSTANTS Decisions, Fates

VARIABLES
    waiting,   \* asked for, not answered
    known,     \* answered, not settled
    settled,   \* [decision, fate]: the terminal event of a decision
    lost       \* dropped by a fault between answer and settlement

vars == <<waiting, known, settled, lost>>

SettledDecisions == {s.decision : s \in settled}

TypeOK ==
    /\ waiting \subseteq Decisions
    /\ known \subseteq Decisions
    /\ settled \subseteq [decision: Decisions, fate: Fates]
    /\ lost \subseteq Decisions

Init == waiting = {} /\ known = {} /\ settled = {} /\ lost = {}

Ask(d) ==
    /\ d \notin waiting \union known \union SettledDecisions \union lost
    /\ waiting' = waiting \union {d}
    /\ UNCHANGED <<known, settled, lost>>

Learn(S) ==
    /\ S # {} /\ S \subseteq waiting
    /\ waiting' = waiting \ S
    /\ known' = known \union S
    /\ UNCHANGED <<settled, lost>>

\* The barrier: an answer takes effect only when every answer is there.
Settle(d, fate) ==
    /\ waiting = {}
    /\ d \in known
    /\ known' = known \ {d}
    /\ settled' = settled \union {[decision |-> d, fate |-> fate]}
    /\ UNCHANGED <<waiting, lost>>

Cancel ==
    /\ waiting # {}
    /\ settled' = settled \union {[decision |-> d, fate |-> "cancelled"] : d \in waiting}
    /\ waiting' = {}
    /\ UNCHANGED <<known, lost>>

Lose(S, K) ==
    /\ S \subseteq waiting /\ K \subseteq known /\ S # {}
    /\ waiting' = waiting \ S
    /\ known' = known \ K
    /\ lost' = lost \union S \union K
    /\ UNCHANGED settled

Next ==
    \/ \E d \in Decisions : Ask(d)
    \/ \E S \in SUBSET waiting : Learn(S)
    \/ \E d \in known, fate \in Fates : Settle(d, fate)
    \/ Cancel
    \/ \E S \in SUBSET waiting, K \in SUBSET known : Lose(S, K)

SafetySpec == Init /\ [][Next]_vars
=============================================================================
