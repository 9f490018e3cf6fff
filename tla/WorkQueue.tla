----------------------------- MODULE WorkQueue -----------------------------
(***************************************************************************)
(* What AsyncKvPipeline promises its callers: a job that is accepted waits *)
(* in a bounded queue, is taken up by one worker of a bounded pool, and is *)
(* finished exactly once.                                                  *)
(***************************************************************************)
EXTENDS Naturals, FiniteSets

CONSTANTS Jobs, Capacity, PoolSize

VARIABLES waiting, active, finished

wqVars == <<waiting, active, finished>>

WQInit == waiting = {} /\ active = {} /\ finished = 0

Accept(j) ==
    /\ j \notin waiting \cup active
    /\ Cardinality(waiting) < Capacity
    /\ waiting' = waiting \cup {j}
    /\ UNCHANGED <<active, finished>>

Start(j) ==
    /\ j \in waiting
    /\ Cardinality(active) < PoolSize
    /\ waiting' = waiting \ {j}
    /\ active' = active \cup {j}
    /\ UNCHANGED finished

Complete(j) ==
    /\ j \in active
    /\ active' = active \ {j}
    /\ finished' = finished + 1
    /\ UNCHANGED waiting

WQNext == \E j \in Jobs : Accept(j) \/ Start(j) \/ Complete(j)

WQSafety == WQInit /\ [][WQNext]_wqVars

WQSpec ==
    /\ WQSafety
    /\ \A j \in Jobs : WF_wqVars(Complete(j))
    /\ WF_wqVars(\E j \in Jobs : Start(j))

=============================================================================
