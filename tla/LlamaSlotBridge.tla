---------------------------- MODULE LlamaSlotBridge ----------------------------
(***************************************************************************)
(* LlamaServerSlotBridge: a slot's state travels between llama-server and  *)
(* the cache through a file in a directory both can see.  The file's name  *)
(* is the cache key's, so two bridges that work on one key share it.  The  *)
(* servers and the cache are external: a server opens the slot file before *)
(* it writes it, and may do both after its bridge has stopped waiting.  A  *)
(* bridge may crash at any step.                                           *)
(***************************************************************************)
EXTENDS Bytes

CONSTANTS
    Callers,      \* bridges, each in a process of its own
    KeysOf,       \* the keys each of them works on
    States,       \* slot states; a slot computes on, so that a save finds any of them
    Size,         \* their sizes in bytes
    MaxState,     \* max_state_bytes
    MaxFaults     \* bound: failed calls and crashes

BridgeAssumption == Size \in [States -> Nat] /\ MaxState \in Nat \ {0} /\ MaxFaults \in Nat

VARIABLES
    cache,      \* key -> state
    files,      \* name -> [state, by]: what it holds, and the bridge whose server has
                \* opened it and not yet written it
    calls,      \* the call each bridge is in
    servers,    \* the save each bridge's server is at
    leftover,   \* history: names whose call ended without its cleanup
    faults

vars == <<cache, files, calls, servers, leftover, faults>>

SlotKeys == UNION {KeysOf[c] : c \in Callers}
None == "none"
Partial == "partial"    \* a file that is being written
Torn == "torn"          \* what was read of one, or two writers mixed in one
Unreported == -1

\* A key's file, and the temporary file of a bridge: its name is fresh in every call,
\* and only a fault leaves one behind.
FileOf(k) == <<"slot", k>>
TempOf(c) == <<"tmp", c, calls[c].nonce>>

\* loaded is what the call moves.  History: truth, what the server saved or loaded, and
\* met, what others did to the call's file meanwhile.
Idle == [pc |-> "idle", op |-> "", key |-> None, loaded |-> None, reported |-> Unreported,
         nonce |-> 0, truth |-> None, met |-> {}, ok |-> FALSE]

Free == [pc |-> "idle", key |-> None, state |-> None]

Init ==
    /\ cache = NoEntries /\ files = NoEntries
    /\ calls = [c \in Callers |-> Idle]
    /\ servers = [c \in Callers |-> Free]
    /\ leftover = {} /\ faults = 0

\* What is not whole has any length.
Lengths(state) == IF state \in States THEN {Size[state]} ELSE 0..(MaxState + 1)

ValidLen(bytes) == bytes \in 1..MaxState

Goto(c, pc) == calls' = [calls EXCEPT ![c].pc = pc]

\* The call returns, with its result.
Return(c) == calls' = [calls EXCEPT ![c] = Idle]

Fault == faults < MaxFaults /\ faults' = faults + 1

\* A reported byte count, if there is one, is compared with what the bridge has.
CountFits(reported, bytes) == reported = Unreported \/ reported = bytes

Present(k) == FileOf(k) \in DOMAIN files
Whole(state) == [state |-> state, by |-> None]

\* The calls in cs that the bridges in who have on k meet a save or a restore of another.
Meet(cs, who, k, what) ==
    [d \in Callers |-> IF d \in who /\ cs[d].pc # "idle" /\ cs[d].key = k
                       THEN [cs[d] EXCEPT !.met = @ \cup {what}] ELSE cs[d]]

-----------------------------------------------------------------------------
(* Both ways: an old file goes first, and the call's file last.            *)

Capture(c, k) ==
    /\ calls[c].pc = "idle"
    /\ calls' = [calls EXCEPT ![c] = [Idle EXCEPT !.pc = "clean", !.op = "capture", !.key = k]]
    /\ UNCHANGED <<cache, files, servers, leftover, faults>>

\* A key the cache does not hold, and a state outside the range, are refused.
Restore(c, k) ==
    /\ calls[c].pc = "idle" /\ k \in DOMAIN cache /\ \E n \in Lengths(cache[k]) : ValidLen(n)
    /\ calls' = [calls EXCEPT ![c] = [Idle EXCEPT !.pc = "clean", !.op = "restore", !.key = k,
                                                  !.loaded = cache[k]]]
    /\ UNCHANGED <<cache, files, servers, leftover, faults>>

\* remove_slot_file_if_regular; a missing file is no error.
Removed(c) ==
    /\ files' = Without(files, {FileOf(calls[c].key)})
    /\ leftover' = leftover \ {FileOf(calls[c].key)}
    /\ UNCHANGED <<cache, servers, faults>>

Clean(c) ==
    /\ calls[c].pc = "clean"
    /\ Removed(c)
    /\ Goto(c, IF calls[c].op = "capture" THEN "save" ELSE "write")

Finish(c) ==
    /\ calls[c].pc = "finish"
    /\ Removed(c)
    /\ Return(c)

\* One that cannot be removed, or was between the look at it and the removal: an error,
\* and at the end the error even of a call that had worked.
RemoveFails(c) ==
    /\ calls[c].pc \in {"clean", "finish"} /\ Present(calls[c].key) /\ Fault
    /\ Return(c)
    /\ leftover' = leftover \cup {FileOf(calls[c].key)}
    /\ UNCHANGED <<cache, files, servers>>

\* A process dies; its files stay, and its server works on.
Crash(c) ==
    /\ calls[c].pc # "idle" /\ Fault
    /\ leftover' = leftover \cup ({FileOf(calls[c].key), TempOf(c)} \cap DOMAIN files)
    /\ Return(c)
    /\ UNCHANGED <<cache, files, servers>>

-----------------------------------------------------------------------------
(* capture.                                                                *)

\* The server gets the request; it serves one at a time.
Save(c) ==
    LET call == calls[c]
    IN /\ call.pc = "save" /\ servers[c].pc = "idle"
       /\ servers' = [servers EXCEPT ![c].pc = "asked", ![c].key = call.key]
       /\ Goto(c, "saving")
       /\ UNCHANGED <<cache, files, leftover, faults>>

\* Nobody will remove a file the server makes when its bridge waits no longer.
Abandoned(c) == IF calls[c].pc = "saving" THEN {} ELSE {FileOf(servers[c].key)}

\* The server opens the file, which empties it, and saves what the slot holds now; it ...
ServerOpens(c) ==
    LET server == servers[c]
    IN /\ server.pc = "asked"
       /\ \E state \in States : servers' = [servers EXCEPT ![c].pc = "open", ![c].state = state]
       /\ files' = With(files, FileOf(server.key), [state |-> Partial, by |-> c])
       /\ leftover' = leftover \cup Abandoned(c)
       /\ calls' = Meet(calls, IF calls[c].pc = "saving" THEN Callers \ {c} ELSE Callers, server.key, "save")
       /\ UNCHANGED <<cache, faults>>

\* ... writes the file, and answers with or without a byte count.  A file that was removed or
\* replaced meanwhile is not touched; one that another server opened is a mixture.
ServerWrites(c) ==
    LET server == servers[c]
        name == FileOf(server.key)
        waiting == calls[c].pc = "saving"
        met == Meet(calls, IF waiting THEN Callers \ {c} ELSE Callers, server.key, "save")
    IN /\ server.pc = "open"
       /\ servers' = [servers EXCEPT ![c] = Free]
       /\ IF ~Present(server.key) THEN UNCHANGED files
          ELSE \E content \in IF files[name].by = c THEN {Whole(server.state)} ELSE {files[name], Whole(Torn)} :
                 files' = With(files, name, content)
       /\ IF ~waiting THEN calls' = met
          ELSE \E reported \in {Unreported, Size[server.state]} :
                 calls' = [met EXCEPT ![c].pc = "read", ![c].reported = reported, ![c].truth = server.state]
       /\ UNCHANGED <<cache, leftover, faults>>

\* The request or the answer fails, or the wait for it times out: the ? of save skips
\* the cleanup, and the server may go on.
SaveFails(c) ==
    LET name == FileOf(calls[c].key)
    IN /\ calls[c].pc \in {"save", "saving"} /\ Fault
       /\ Return(c)
       /\ leftover' = leftover \cup ({name} \cap DOMAIN files)
       /\ UNCHANGED <<cache, files, servers>>

\* What the read finds has a length in the range, and the reported one if there is one.
ReadSlotFile(c) ==
    LET call == calls[c]
        file == FileOf(call.key)
        state == IF files[file].state = Partial THEN Torn ELSE files[file].state
    IN /\ call.pc = "read"
       /\ \/ /\ Present(call.key)
             /\ \E n \in Lengths(state) : ValidLen(n) /\ CountFits(call.reported, n)
             /\ calls' = [calls EXCEPT ![c].pc = "put", ![c].loaded = state]
          \/ /\ Present(call.key) =>
                    \E n \in Lengths(state) : ~(ValidLen(n) /\ CountFits(call.reported, n))
             /\ Goto(c, "finish")
       /\ UNCHANGED <<cache, files, servers, leftover, faults>>

CachePut(c) ==
    /\ calls[c].pc = "put"
    /\ cache' = With(cache, calls[c].key, calls[c].loaded)
    /\ calls' = [calls EXCEPT ![c].pc = "finish", ![c].ok = TRUE]
    /\ UNCHANGED <<files, servers, leftover, faults>>

\* The read of the file or the put fails.
CaptureFails(c) ==
    /\ calls[c].pc \in {"read", "put"} /\ Fault
    /\ Goto(c, "finish")
    /\ UNCHANGED <<cache, files, servers, leftover>>

-----------------------------------------------------------------------------
(* restore.                                                                *)

\* Mutant: the state is written where the server looks for it.
WriteInPlace(c) ==
    /\ calls[c].pc = "write"
    /\ files' = With(files, FileOf(calls[c].key), Whole(Partial))
    /\ Goto(c, "sync")
    /\ UNCHANGED <<cache, servers, leftover, faults>>

\* write_slot_file_atomic: a temporary file is created, ...
Write(c) ==
    /\ calls[c].pc = "write"
    /\ files' = With(files, <<"tmp", c, faults>>, Whole(Partial))
    /\ calls' = [calls EXCEPT ![c].pc = "sync", ![c].nonce = faults]
    /\ UNCHANGED <<cache, servers, leftover, faults>>

\* ... or not, and the call ends without the cleanup, ...
WriteFails(c) ==
    /\ calls[c].pc = "write" /\ Fault
    /\ Return(c)
    /\ UNCHANGED <<cache, files, servers, leftover>>

\* ... written and synced, ...
Sync(c) ==
    /\ calls[c].pc = "sync"
    /\ files' = With(files, TempOf(c), Whole(calls[c].loaded))
    /\ Goto(c, "replace")
    /\ UNCHANGED <<cache, servers, leftover, faults>>

\* ... what another bridge has put there meanwhile is removed, ...
Replace(c) ==
    /\ calls[c].pc = "replace"
    /\ Removed(c)
    /\ Goto(c, "rename")

\* ... or cannot be, and the temporary file stays, ...
ReplaceFails(c) ==
    /\ calls[c].pc = "replace" /\ Present(calls[c].key) /\ Fault
    /\ Return(c)
    /\ leftover' = leftover \cup {TempOf(c)}
    /\ UNCHANGED <<cache, files, servers>>

\* ... and the file takes the name, over one made since; ...
Rename(c) ==
    LET key == calls[c].key
    IN /\ calls[c].pc = "rename"
       /\ files' = With(Without(files, {TempOf(c)}), FileOf(key), files[TempOf(c)])
       /\ calls' = Meet([calls EXCEPT ![c].pc = "load"], Callers \ {c}, key, "restore")
       /\ UNCHANGED <<cache, servers, leftover, faults>>

\* ... a write or a rename that fails removes the temporary file, and the call ends.
TempFails(c) ==
    /\ calls[c].pc \in {"sync", "rename"} /\ Fault
    /\ files' = Without(files, {TempOf(c)})
    /\ Return(c)
    /\ UNCHANGED <<cache, servers, leftover>>

\* The server loads the file, if it is there, and answers with or without a count.
Load(c) ==
    LET call == calls[c]
        state == files[FileOf(call.key)].state
    IN /\ call.pc = "load" /\ servers[c].pc = "idle"
       /\ IF ~Present(call.key) THEN Goto(c, "finish")
          ELSE \E reported \in {Unreported} \cup Lengths(state), n \in Lengths(call.loaded) :
                 /\ ValidLen(n)
                 /\ calls' = [calls EXCEPT ![c].pc = "finish", ![c].truth = state,
                                           ![c].ok = CountFits(reported, n)]
       /\ UNCHANGED <<cache, files, servers, leftover, faults>>

\* The request or the answer fails; the cleanup runs.
LoadFails(c) ==
    /\ calls[c].pc = "load" /\ Fault
    /\ Goto(c, "finish")
    /\ UNCHANGED <<cache, files, servers, leftover>>

-----------------------------------------------------------------------------
Next ==
    \E c \in Callers :
        \/ \E k \in KeysOf[c] : Capture(c, k) \/ Restore(c, k)
        \/ Clean(c) \/ Finish(c) \/ RemoveFails(c) \/ Crash(c)
        \/ Save(c) \/ ServerOpens(c) \/ ServerWrites(c) \/ SaveFails(c)
        \/ ReadSlotFile(c) \/ CachePut(c) \/ CaptureFails(c)
        \/ Write(c) \/ WriteFails(c) \/ Sync(c) \/ Replace(c) \/ ReplaceFails(c)
        \/ Rename(c) \/ TempFails(c) \/ Load(c) \/ LoadFails(c)

Spec == Init /\ [][Next]_vars

-----------------------------------------------------------------------------
\* Every variable has the shape of the state it stands for.
TypeOK ==
    /\ IsMap(cache, SlotKeys, States \cup {Torn})
    /\ \A k \in DOMAIN cache : \E n \in Lengths(cache[k]) : ValidLen(n)
    /\ \A name \in DOMAIN files : files[name].by \in Callers \cup {None}
    /\ \A c \in Callers : calls[c].key \in KeysOf[c] \cup {None}
    /\ faults \in 0..MaxFaults

\* "a temporary file plus rename rather than exposing a partially written state file":
\* a restore never loads a file that is being written, whatever other restores and a
\* crash do to it, unless a server was saving to it.
NothingTorn ==
    \A c \in Callers :
        (calls[c].op = "restore" /\ "save" \notin calls[c].met) => calls[c].truth # Partial

\* A receipt is true: what a successful capture put into the cache is what the slot
\* held when it was saved, and a successful restore loaded what the cache held, unless
\* another call's save or restore, or a late save of a call given up, met it on the file.
ReceiptTrue ==
    \A c \in Callers :
        (calls[c].ok /\ calls[c].met = {}) => calls[c].truth = calls[c].loaded

\* "removes the transient slot file": a file in the directory belongs to a running
\* call, or its call crashed, could not remove it, or lost the answer to its save; a slot
\* file is then removed by the next call on its key.
FilesCleaned ==
    \A name \in DOMAIN files :
        \/ name \in leftover
        \/ \E c \in Callers : calls[c].pc # "idle" /\ name \in {FileOf(calls[c].key), TempOf(c)}

\* Whatever met it, a capture that stores a whole state under a reported count stores one
\* of that size.
CountTrue ==
    \A c \in Callers :
        (calls[c].ok /\ calls[c].op = "capture" /\ calls[c].reported # Unreported) =>
            calls[c].reported \in Lengths(calls[c].loaded)

Safety == TypeOK /\ NothingTorn /\ ReceiptTrue /\ FilesCleaned /\ CountTrue

=============================================================================
