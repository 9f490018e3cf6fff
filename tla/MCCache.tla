--------------------------- MODULE MCCache ---------------------------
(***************************************************************************)
(* ContextCache under three kinds of stress.  A behaviour belongs to one of*)
(* them, `part`.                                                           *)
(***************************************************************************)
EXTENDS ContextCache, TLC

CONSTANTS k1, k2, v1, v2, t1, t2

\* v2 is twice as long as v1; with a header of one byte the files take 2 and 3.
MCSize == (v1 :> 1) @@ (v2 :> 2)
BothPins == {TRUE, FALSE}

VARIABLE part   \* which kind of stress the behaviour is about

\* Two removers race with puts and gets and with crashes; no expiry, no faults.
Races == INSTANCE ContextCache WITH
    Pins <- {FALSE}, Threads <- {t1, t2}, Faults <- {}, MaxDrift <- 0

\* Failing removals, damaged files and expiry, with restarts; one size of payload.
Faulty == INSTANCE ContextCache WITH
    Values <- {v2}, TTLs <- {0, 1}, Pins <- {FALSE},
    Faults <- {"remove", "put", "get", "rot"}, MaxDrift <- 9, MaxClock <- 1, MaxLag <- 1

-----------------------------------------------------------------------------
MCInit ==
    /\ part \in {"quota", "races", "faults"}
    /\ CASE part = "races" -> Races!Init
         [] part = "faults" -> Faulty!Init
         [] OTHER -> Init

MCNext ==
    /\ UNCHANGED part
    /\ \/ part = "quota" /\ Next
       \/ part = "races" /\ Races!Next
       \/ part = "faults" /\ Faulty!Next

mcVars == <<part, vars>>

MCSpec == MCInit /\ [][MCNext]_mcVars

\* The cache with the constants of the configuration alone.
PlainSpec == part = "quota" /\ Init /\ [][Next /\ UNCHANGED part]_mcVars

-----------------------------------------------------------------------------
Alike == Permutations({k1, k2}) \cup Permutations({t1, t2})

=============================================================================
