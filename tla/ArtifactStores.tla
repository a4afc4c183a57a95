--------------------------- MODULE ArtifactStores ---------------------------
(***************************************************************************)
(* The two stores of a node that keep artifacts in files: the block cache  *)
(* of IdentityRegistry, swept down to a size after every push, and         *)
(* LocalRegistry, whose files an hourly purge removes when they are old.   *)
(* A file is truncated and then written, looked for and then read, looked  *)
(* at and then removed: others come in between.                            *)
(***************************************************************************)
EXTENDS Integers, FiniteSets

CONSTANTS
    Block,        \* files of the block cache
    SizeOf,       \* SizeOf[f]: their sizes
    CacheLimit,   \* max_size_bytes
    Wrap,         \* 2^64: sizes are unsigned
    TagFile,      \* files of LocalRegistry: tags that differ in / and : share one
    Payload,      \* what is pushed
    Writer,       \* tasks that push
    Reader,       \* tasks that pull
    MaxWrites,    \* bound: pushes of a task
    NoFile,       \* no such file
    Torn          \* a file that is being written

File == Block \cup TagFile

ASSUME StoresAssumption ==
    /\ IsFiniteSet(Block) /\ SizeOf \in [Block -> Nat] /\ CacheLimit \in Nat
    /\ Wrap \in Nat /\ \A f \in Block : CacheLimit + SizeOf[f] < Wrap
    /\ MaxWrites \in Nat /\ NoFile # Torn /\ Block \cap TagFile = {}
    /\ {NoFile, Torn} \cap (Payload \cup File) = {}

VARIABLES
    file,         \* file[f]: its content
    old,          \* files written more than 24 h ago
    writer,       \* writer[w]: how far a push is
    reader,       \* reader[r]: how far a pull is
    purge,        \* files the purge has to look at, and the one it found old
    faults,       \* pushes that failed and no sweep made up for
    fresh         \* fresh[f]: what a pull of a file has to find, if that is known
                  \* (both not in the code)

storeVars == <<file, old, writer, reader, purge, faults, fresh>>

NoWrite == [stage |-> "idle", file |-> NoFile, value |-> NoFile, writes |-> 0,
            mixed |-> FALSE, unlinked |-> FALSE, total |-> 0, left |-> {}, makesUp |-> {}]
NoRead == [stage |-> "idle", file |-> NoFile, got |-> NoFile, due |-> NoFile]
NoPurge == [left |-> {}, doomed |-> NoFile]

StoresInit ==
    /\ file = [f \in File |-> NoFile]
    /\ old = {}
    /\ writer = [w \in Writer |-> NoWrite]
    /\ reader = [r \in Reader |-> NoRead]
    /\ purge = NoPurge
    /\ faults = {}
    /\ fresh = [f \in File |-> NoFile]

\* Nobody can tell any more what a pull of these files finds.
Disturb(files) ==
    /\ fresh' = [f \in File |-> IF f \in files THEN NoFile ELSE fresh[f]]
    /\ reader' = [r \in Reader |-> IF reader[r].file \in files
                                   THEN [reader[r] EXCEPT !.due = NoFile] ELSE reader[r]]

WritersOf(f) == {w \in Writer : /\ writer[w].stage = "writing" /\ writer[w].file = f
                                /\ ~writer[w].unlinked}

\* fs::write of a push truncates the file ...
BeginWrite(w, f, v) ==
    /\ writer[w].stage = "idle" /\ writer[w].writes < MaxWrites
    /\ writer' = [u \in Writer |->
          IF u = w THEN [NoWrite EXCEPT !.stage = "writing", !.file = f, !.value = v,
                            !.writes = writer[w].writes + 1, !.mixed = WritersOf(f) # {}]
          ELSE IF u \in WritersOf(f) THEN [writer[u] EXCEPT !.mixed = TRUE] ELSE writer[u]]
    /\ file' = [file EXCEPT ![f] = Torn]
    /\ old' = old \ {f}
    /\ Disturb({f})
    /\ UNCHANGED <<purge, faults>>

Finished(w) == [NoWrite EXCEPT !.writes = writer[w].writes]

\* ... and then fills it; two that fill one file at a time may leave a mixture, and what
\* is written to a file that was removed is lost.  A push to LocalRegistry is done then.
FinishWrite(w) ==
    LET f == writer[w].file v == writer[w].value IN
    /\ writer[w].stage = "writing"
    /\ IF writer[w].unlinked THEN UNCHANGED <<file, old, fresh>>
       ELSE /\ file' \in {[file EXCEPT ![f] = c] :
                             c \in IF writer[w].mixed /\ f \in TagFile THEN {v, Torn} ELSE {v}}
            /\ old' = old \ {f}
            /\ fresh' = IF writer[w].mixed \/ purge.doomed = f THEN fresh
                        ELSE [fresh EXCEPT ![f] = v]
    /\ writer' = [writer EXCEPT ![w] = IF f \in TagFile THEN Finished(w)
                                       ELSE [@ EXCEPT !.stage = "routing"]]
    /\ UNCHANGED <<reader, purge, faults>>

\* The file is gone, under those who are writing it too.
Vanish(f) == file' = [file EXCEPT ![f] = NoFile]
Unlinked(f) == [u \in Writer |-> IF u \in WritersOf(f) THEN [writer[u] EXCEPT !.unlinked = TRUE]
                                 ELSE writer[u]]

FailPush(w) ==
    /\ writer' = [writer EXCEPT ![w] = Finished(w)]
    /\ faults' = faults \cup {<<w, writer[w].writes>>}

\* push_artifact tells the registry of routes; when that fails, no sweep is made.
UpdateRoutes(w) ==
    /\ writer[w].stage = "routing"
    /\ \/ writer' = [writer EXCEPT ![w].stage = "measuring"] /\ UNCHANGED faults
       \/ FailPush(w)
    /\ UNCHANGED <<file, old, reader, purge, fresh>>

\* The blocks in the cache, a block being written none of them, and their bytes.
Cached == {f \in Block : file[f] \notin {NoFile, Torn}}
Bytes(f) == {f} \X (1..SizeOf[f])
TotalOf(blocks) == Cardinality(UNION {Bytes(f) : f \in blocks})

SizeNow(f) == IF f \in Cached THEN SizeOf[f] ELSE 0
CacheSize == TotalOf(Cached)

\* enforce_lru_cache_limits adds up the sizes ...
Measure(w) ==
    /\ writer[w].stage = "measuring"
    /\ IF CacheSize <= CacheLimit
       THEN writer' = [writer EXCEPT ![w] = Finished(w)] /\ faults' = {}
       ELSE /\ writer' = [writer EXCEPT ![w].stage = "sweeping", ![w].total = CacheSize,
                             ![w].left = {f \in Block : file[f] # NoFile}, ![w].makesUp = faults]
            /\ UNCHANGED faults
    /\ UNCHANGED <<file, old, reader, purge, fresh>>

\* The size of a file that was being written when the total was taken may be more than
\* that: a release build wraps round (others panic), and everything left is removed.
Remaining(total, f) == IF SizeNow(f) <= total THEN total - SizeNow(f) ELSE total + Wrap - SizeNow(f)

\* Mutant: one removal is taken to be enough.
EnoughTooSoon(total, f) == total > CacheLimit
\* Whether the removal of a file brings the total down to the limit.
Enough(total, f) == Remaining(total, f) <= CacheLimit

\* ... and removes blocks, least recently read first (file systems keep that time
\* loosely: any order), until the total fits; a block that is gone fails the push.
Sweep(w, f) ==
    /\ writer[w].stage = "sweeping" /\ f \in writer[w].left
    /\ \/ file[f] = NoFile /\ FailPush(w) /\ UNCHANGED <<file, fresh, reader>>
       \/ /\ file[f] # NoFile
          /\ Vanish(f) /\ Disturb({f})
          /\ LET total == Remaining(writer[w].total, f) IN
             IF Enough(writer[w].total, f) \/ writer[w].left = {f}
             THEN /\ writer' = [Unlinked(f) EXCEPT ![w] = Finished(w)]
                  /\ faults' = faults \ writer[w].makesUp
             ELSE /\ writer' = [Unlinked(f) EXCEPT ![w].total = total, ![w].left = @ \ {f}]
                  /\ UNCHANGED faults
    /\ UNCHANGED <<old, purge>>

\* A pull looks whether the file exists ...
BeginRead(r, f) ==
    /\ reader[r].stage = "idle"
    /\ reader' = [reader EXCEPT ![r] = [stage |-> IF file[f] = NoFile THEN "done" ELSE "reading",
                                        file |-> f, got |-> NoFile, due |-> fresh[f]]]
    /\ UNCHANGED <<file, old, writer, purge, faults, fresh>>

\* ... and then reads what is there now.  (A block that is not there is pulled as no
\* bytes at all, with success.)
FinishRead(r) ==
    /\ reader[r].stage = "reading"
    /\ reader' = [reader EXCEPT ![r].stage = "done", ![r].got = file[reader[r].file]]
    /\ UNCHANGED <<file, old, writer, purge, faults, fresh>>

EndRead(r) ==
    /\ reader[r].stage = "done"
    /\ reader' = [reader EXCEPT ![r] = NoRead]
    /\ UNCHANGED <<file, old, writer, purge, faults, fresh>>

\* A day passes over a file.
Age(f) ==
    /\ f \in TagFile /\ file[f] \in Payload /\ f \notin old
    /\ old' = old \cup {f}
    /\ Disturb({f})
    /\ UNCHANGED <<file, writer, purge, faults>>

\* The hourly purge lists the directory, ...
StartPurge ==
    /\ purge = NoPurge /\ \E f \in TagFile : file[f] # NoFile
    /\ purge' = [purge EXCEPT !.left = {f \in TagFile : file[f] # NoFile}]
    /\ UNCHANGED <<file, old, writer, reader, faults, fresh>>

\* Mutant: whatever has an age is purged.
StaleAlways(f) == file[f] # NoFile
Stale(f) == file[f] # NoFile /\ f \in old

\* ... looks at one file after the other ...
LookAt(f) ==
    /\ f \in purge.left /\ purge.doomed = NoFile
    /\ purge' = [left |-> purge.left \ {f}, doomed |-> IF Stale(f) THEN f ELSE NoFile]
    /\ UNCHANGED <<file, old, writer, reader, faults, fresh>>

\* ... and removes the one it found old, though it may have been pushed anew.
RemoveDoomed ==
    /\ purge.doomed # NoFile
    /\ Vanish(purge.doomed)
    /\ writer' = Unlinked(purge.doomed)
    /\ old' = old \ {purge.doomed}
    /\ purge' = [purge EXCEPT !.doomed = NoFile]
    /\ UNCHANGED <<reader, faults, fresh>>

StoresNext ==
    \/ \E w \in Writer : \/ \E f \in Block : BeginWrite(w, f, f)
                         \/ \E f \in TagFile, v \in Payload : BeginWrite(w, f, v)
                         \/ FinishWrite(w) \/ UpdateRoutes(w) \/ Measure(w)
                         \/ \E f \in Block : Sweep(w, f)
    \/ \E r \in Reader : \/ \E f \in File : BeginRead(r, f)
                         \/ FinishRead(r) \/ EndRead(r)
    \/ \E f \in TagFile : Age(f) \/ LookAt(f)
    \/ StartPurge \/ RemoveDoomed

StoresSpec == StoresInit /\ [][StoresNext]_storeVars

-----------------------------------------------------------------------------
(* Properties *)

WriteState == [stage : {"idle", "writing", "routing", "measuring", "sweeping"},
               file : File \cup {NoFile}, value : Payload \cup Block \cup {NoFile},
               writes : 0..MaxWrites, mixed : BOOLEAN, unlinked : BOOLEAN,
               total : Nat, left : SUBSET Block, makesUp : SUBSET (Writer \X (1..MaxWrites))]
ReadState == [stage : {"idle", "reading", "done"}, file : File \cup {NoFile},
              got : Payload \cup Block \cup {NoFile, Torn}, due : Payload \cup Block \cup {NoFile}]

StoresTypeOK ==
    /\ file \in [File -> Payload \cup Block \cup {NoFile, Torn}]
    /\ old \subseteq TagFile
    /\ writer \in [Writer -> WriteState] /\ reader \in [Reader -> ReadState]
    /\ purge \in [left : SUBSET TagFile, doomed : TagFile \cup {NoFile}]
    /\ faults \subseteq Writer \X (1..MaxWrites)
    /\ fresh \in [File -> Payload \cup Block \cup {NoFile}]

\* Unless a push of a block is under way, or one failed and no sweep that began later is
\* complete, the cache is within its limit: whatever pushes and sweeps overlap
\* (push_artifact, enforce_lru_cache_limits).
CacheBounded ==
    CacheSize > CacheLimit =>
        faults # {} \/ \E w \in Writer : writer[w].stage # "idle" /\ writer[w].file \in Block

\* A pull finds what the last push of its file wrote, when nobody writes or evicts the
\* file, it is less than a day old, and it was not found old when it was written
\* (LocalRegistry, spawn_purge_thread, pull_artifact).
QuietPulls ==
    \A r \in Reader : reader[r].stage = "done" /\ reader[r].due # NoFile
                         => reader[r].got = reader[r].due
=============================================================================
