------------------------------ MODULE FileStore ------------------------------
(***************************************************************************)
(* FileStore: one key's file in a directory that one or more processes     *)
(* share.  put_if_absent writes a temporary file, syncs it and renames it; *)
(* processes die, the machine loses power, writes fail half way.           *)
(*                                                                         *)
(* get opens the file once and checks length and checksum of what it has   *)
(* opened, so it answers for one file and is left out here.                *)
(***************************************************************************)
EXTENDS Naturals, FiniteSets

CONSTANTS
    Procs,       \* processes, named by their pid
    Entries,     \* StoredEntry: payload, expiry and pin
    MaxPuts,     \* bound: puts started
    MaxFaults,   \* bound: failed writes and renames, dead processes, damage
    MaxLosses    \* bound: power losses

BoundsAssumption == MaxPuts \in Nat /\ MaxFaults \in Nat /\ MaxLosses \in Nat

NoFile == [entry |-> "none", state |-> "none", synced |-> TRUE]
File(e, s, y) == [entry |-> e, state |-> s, synced |-> y]
Files == [entry : Entries, state : {"part", "full", "damaged"}, synced : BOOLEAN]

Nonces == 1..(MaxPuts + 1)

VARIABLES
    final,    \* the file under the key's name, or NoFile
    durable,  \* what that name leads to after a power loss
    temps,    \* temps[<<pid, nonce>>]: temporary files
    nonce,    \* TEMP_NONCE of each process
    proc,     \* where each process is
    puts,     \* bound: puts started so far
    faults,   \* bound: faults and power losses so far
    crashed   \* history: the processes that died

vars == <<final, durable, temps, nonce, proc, puts, faults, crashed>>

Idle == [pc |-> "idle"]

Init ==
    /\ final = NoFile /\ durable = NoFile
    /\ temps = [n \in {} |-> NoFile]
    /\ nonce = [p \in Procs |-> 1]
    /\ proc = [p \in Procs |-> Idle]
    /\ puts = 0 /\ faults = [fault |-> 0, loss |-> 0]
    /\ crashed = {}

With(f, n, c) == [m \in DOMAIN f \cup {n} |-> IF m = n THEN c ELSE f[m]]
Without(f, n) == [m \in DOMAIN f \ {n} |-> f[m]]
Goto(p, s) == proc' = [proc EXCEPT ![p] = s]
Faulty == faults.fault < MaxFaults /\ faults' = [faults EXCEPT !.fault = @ + 1]

-----------------------------------------------------------------------------
(* put_if_absent.                                                          *)

\* Mutant: the file that is there is not looked at.
PutAlways(p, e) ==
    /\ proc[p] = Idle /\ puts < MaxPuts
    /\ puts' = puts + 1
    /\ Goto(p, [pc |-> "absent", entry |-> e])
    /\ UNCHANGED <<final, durable, temps, nonce, faults, crashed>>

\* A key that has a file is answered at once.
Put(p, e) ==
    /\ proc[p] = Idle /\ puts < MaxPuts /\ final = NoFile
    /\ puts' = puts + 1
    /\ Goto(p, [pc |-> "absent", entry |-> e])
    /\ UNCHANGED <<final, durable, temps, nonce, faults, crashed>>

TempName(p) == <<p, nonce[p]>>

NextNonce(p) == [nonce EXCEPT ![p] = @ + 1]

\* create_new refuses a name that exists.
Create(p) ==
    /\ proc[p].pc = "absent"
    /\ nonce' = NextNonce(p)
    /\ IF TempName(p) \in DOMAIN temps
       THEN Goto(p, Idle) /\ UNCHANGED temps
       ELSE /\ temps' = With(temps, TempName(p), File(proc[p].entry, "part", FALSE))
            /\ Goto(p, [pc |-> "writing", entry |-> proc[p].entry, name |-> TempName(p)])
    /\ UNCHANGED <<final, durable, puts, faults, crashed>>

Write(p) ==
    /\ proc[p].pc = "writing"
    /\ temps' = [temps EXCEPT ![proc[p].name].state = "full"]
    /\ Goto(p, [proc[p] EXCEPT !.pc = "written"])
    /\ UNCHANGED <<final, durable, nonce, puts, faults, crashed>>

\* A write or the sync fails: put returns and leaves the temporary file.
WriteFails(p) ==
    /\ proc[p].pc \in {"writing", "written"} /\ Faulty
    /\ Goto(p, Idle)
    /\ UNCHANGED <<final, durable, temps, nonce, puts, crashed>>

\* Mutant: no sync_all.
SyncSkipped(p) ==
    /\ proc[p].pc = "written"
    /\ Goto(p, [proc[p] EXCEPT !.pc = "synced"])
    /\ UNCHANGED <<final, durable, temps, nonce, puts, faults, crashed>>

Sync(p) ==
    /\ proc[p].pc = "written"
    /\ temps' = [temps EXCEPT ![proc[p].name].synced = TRUE]
    /\ Goto(p, [proc[p] EXCEPT !.pc = "synced"])
    /\ UNCHANGED <<final, durable, nonce, puts, faults, crashed>>

\* rename replaces whatever has the name by now.
Rename(p) ==
    /\ proc[p].pc = "synced"
    /\ final' = temps[proc[p].name]
    /\ temps' = Without(temps, proc[p].name)
    /\ Goto(p, Idle)
    /\ UNCHANGED <<durable, nonce, puts, faults, crashed>>

\* Either error branch: the temporary file goes, whether or not the key has a file.
RenameFails(p) ==
    /\ proc[p].pc = "synced" /\ Faulty
    /\ temps' = Without(temps, proc[p].name)
    /\ Goto(p, Idle)
    /\ UNCHANGED <<final, durable, nonce, puts, crashed>>

-----------------------------------------------------------------------------
(* remove, clear, load_index.                                              *)

\* clear removes the key's file like remove does.
Remove(p) ==
    /\ proc[p] = Idle /\ final # NoFile
    /\ final' = NoFile
    /\ UNCHANGED <<durable, temps, nonce, proc, puts, faults, crashed>>

\* load_index looks at the length, then opens the file for its header.
LoadStat(p) ==
    /\ proc[p] = Idle /\ final # NoFile
    /\ Goto(p, [pc |-> "loading", seen |-> final])
    /\ UNCHANGED <<final, durable, temps, nonce, puts, faults, crashed>>

\* A file whose metadata cannot be read is taken for a corruption and removed.
LoadStatFails(p) ==
    /\ proc[p] = Idle /\ final # NoFile /\ Faulty
    /\ final' = NoFile
    /\ UNCHANGED <<durable, temps, nonce, proc, puts, crashed>>

\* The header is readable and announces the length seen before.
Accepted(seen, now) ==
    now.state # "damaged" /\ seen.state # "part" /\ now.state # "part" /\ seen.entry = now.entry

LoadHeader(p) ==
    /\ proc[p].pc = "loading"
    /\ final' = IF final # NoFile /\ Accepted(proc[p].seen, final) THEN final ELSE NoFile
    /\ Goto(p, Idle)
    /\ UNCHANGED <<durable, temps, nonce, puts, faults, crashed>>

-----------------------------------------------------------------------------
(* Failures and the file system.                                           *)

\* The process dies and its successor gets the same pid; nobody cleans up.
Crash(p) ==
    /\ Faulty
    /\ Goto(p, Idle)
    /\ nonce' = [nonce EXCEPT ![p] = 1]
    /\ crashed' = crashed \cup {p}
    /\ UNCHANGED <<final, durable, temps, puts>>

\* What a file that was never synced holds after a power loss.
AfterLoss(f) == IF f.synced THEN f ELSE [f EXCEPT !.state = "part", !.synced = TRUE]

PowerLoss ==
    /\ faults.loss < MaxLosses /\ faults' = [faults EXCEPT !.loss = @ + 1]
    /\ \E f \in {final, durable} : final' = AfterLoss(f) /\ durable' = AfterLoss(f)
    /\ temps' = [n \in DOMAIN temps |-> AfterLoss(temps[n])]
    /\ nonce' = [p \in Procs |-> 1]
    /\ proc' = [p \in Procs |-> Idle]
    /\ crashed' = Procs
    /\ UNCHANGED puts

\* The directory reaches the disk at a time of its own choosing.
Flush ==
    /\ durable # final
    /\ durable' = final
    /\ UNCHANGED <<final, temps, nonce, proc, puts, faults, crashed>>

Damage ==
    /\ Faulty /\ final # NoFile
    /\ final' = [final EXCEPT !.state = "damaged"]
    /\ durable' = IF durable = final THEN final' ELSE durable
    /\ UNCHANGED <<temps, nonce, proc, puts, crashed>>

-----------------------------------------------------------------------------
Next ==
    \/ \E p \in Procs :
         \/ \E e \in Entries : Put(p, e)
         \/ Create(p) \/ Write(p) \/ WriteFails(p) \/ Sync(p) \/ Rename(p) \/ RenameFails(p)
         \/ Remove(p) \/ LoadStat(p) \/ LoadStatFails(p) \/ LoadHeader(p) \/ Crash(p)
    \/ PowerLoss \/ Flush \/ Damage

Spec == Init /\ [][Next]_vars

-----------------------------------------------------------------------------
(* Properties.                                                             *)

\* Every variable has the shape of the state it stands for.
TypeOK ==
    /\ final \in Files \cup {NoFile} /\ durable \in Files \cup {NoFile}
    /\ DOMAIN temps \subseteq Procs \X Nonces
    /\ \A n \in DOMAIN temps : temps[n] \in Files
    /\ nonce \in [Procs -> Nonces]
    /\ puts \in 0..MaxPuts /\ faults \in [fault : 0..MaxFaults, loss : 0..MaxLosses]
    /\ crashed \subseteq Procs

\* "Atomic writes": whatever fails and whenever the power goes, the file under
\* the key's name never holds part of an entry, then or after the loss.
WholeOrNothing == final.state # "part" /\ durable.state # "part"

\* A process meets a temporary file of its own name only after a crash; failed
\* writes, which leave theirs behind, never make a later put fail.
NoClash ==
    \A p \in Procs :
        proc[p].pc = "absent" /\ TempName(p) \in DOMAIN temps => p \in crashed

\* load_index, once it has measured a file, drops a whole one only if the one it measured
\* was replaced in between.
LoadKeepsWhole ==
    \A p \in Procs : LoadHeader(p) /\ final.state = "full" /\ final' = NoFile
        => proc[p].seen # final

\* A key's file is whole at every moment, and a failed put leaves nothing behind that
\* makes a later one fail.
Safety == TypeOK /\ WholeOrNothing /\ NoClash

=============================================================================
