------------------------------ MODULE SyncBuffer ------------------------------
(***************************************************************************)
(* SyncBuffer (global_sync.py) on ConfigShield with lock files: append,    *)
(* read_all and clear of one shared file, each between acquire and release *)
(* of the same resource.                                                   *)
(*                                                                         *)
(* A record is two chunks, as a long line is for the operating system; the *)
(* second ends with the newline.  The file is the number of its readable   *)
(* lines, whether some line is not readable, and whose first chunks stand  *)
(* in the line that has no newline yet.                                    *)
(***************************************************************************)
EXTENDS ConfigShieldFile

CONSTANT MaxLines           \* bound: appends between two clears

ASSUME BufferAssumption == MaxLines \in Nat /\ IsFiniteSet(Clients)

VARIABLES work,             \* Clients -> what the caller does under the lock:
                            \* "none" yet, "half" an append, "lost" one whose
                            \* file is gone, or "done"
          lines, garbled, tail,
          acked             \* history: appends to this file that are done

bufferVars == <<work, lines, garbled, tail, acked>>
allVars == <<vars, bufferVars>>

BufferInit ==
  /\ Init
  /\ work = [t \in Clients |-> "none"]
  /\ lines = 0 /\ garbled = FALSE /\ tail = {} /\ acked = 0

Does(t, from, to) ==
  /\ pc[t] = "held" /\ work[t] = from
  /\ work' = [work EXCEPT ![t] = to]

\* open("a") and the first chunk: at the end of the file, wherever that is.
AppendFirst(t) ==
  /\ acked + Cardinality({u \in Clients : work[u] = "half"}) < MaxLines
  /\ Does(t, "none", "half")
  /\ tail' = tail \cup {t}
  /\ UNCHANGED <<vars, lines, garbled, acked>>

AppendRestNoNewline(t) ==
  /\ Does(t, "half", "done")
  /\ tail' = (tail \ {t}) \cup {None} /\ acked' = acked + 1
  /\ UNCHANGED <<vars, lines, garbled>>

\* The second chunk.  The line can be read if nothing but t's first chunk is in it.
AppendRest(t) ==
  /\ Does(t, "half", "done")
  /\ lines' = IF tail = {t} THEN lines + 1 ELSE lines
  /\ garbled' = (garbled \/ tail # {t})
  /\ tail' = {} /\ acked' = acked + 1
  /\ UNCHANGED vars

\* The descriptor of a file that was unlinked: nobody will read it.
AppendToUnlinked(t) ==
  /\ Does(t, "lost", "done")
  /\ UNCHANGED <<vars, lines, garbled, tail, acked>>

\* The first chunk of a writer that is gone stays in the file.
Orphans(gone) ==
  tail' = IF tail \cap gone = {} THEN tail ELSE (tail \ gone) \cup {None}

\* write, flush or fsync raises; release is in the `finally`.
AppendFails(t) ==
  /\ Fault /\ Does(t, "half", "done") /\ Orphans({t})
  /\ UNCHANGED <<nodeVars, clock, file, now, calm, lines, garbled, acked>>

\* A line that is not JSON makes it raise, otherwise it returns all lines.
ReadAll(t) ==
  /\ Does(t, "none", "done")
  /\ UNCHANGED <<vars, lines, garbled, tail, acked>>

Clear(t) ==
  /\ pc[t] = "held" /\ work[t] = "none"
  /\ work' = [u \in Clients |-> IF u = t THEN "done"
                                ELSE IF work[u] = "half" THEN "lost" ELSE work[u]]
  /\ lines' = 0 /\ garbled' = FALSE /\ tail' = {} /\ acked' = 0
  /\ UNCHANGED vars

\* Every step of the lock.  release is called when the work is done; a crash
\* ends the work where it is.
LockStep ==
  /\ Next
  /\ \A t \in Clients : pc[t] = "held" /\ pc'[t] = "leave" => work[t] = "done"
  /\ work' = [t \in Clients |-> IF pc'[t] = "held" THEN work[t] ELSE "none"]
  /\ Orphans({t \in Clients : pc'[t] # "held"})
  /\ UNCHANGED <<lines, garbled, acked>>

BufferNext ==
  \/ LockStep
  \/ \E t \in Clients : \/ AppendFirst(t) \/ AppendRest(t) \/ AppendToUnlinked(t)
                        \/ AppendFails(t) \/ ReadAll(t) \/ Clear(t)

BufferSpec == BufferInit /\ [][BufferNext]_allVars

-------------------------------------------------------------------------------
(* Properties. *)

BufferTypeOK ==
  /\ TypeOK
  /\ work \in [Clients -> {"none", "half", "lost", "done"}]
  /\ lines \in 0..MaxLines /\ acked \in 0..MaxLines
  /\ garbled \in BOOLEAN
  /\ tail \subseteq Clients \cup {None}
  /\ \A t \in Clients : t \in tail => work[t] = "half"

\* As long as the lock is calm, who works on the buffer finds it whole: no line
\* of another writer in the middle of one, every append that returned a readable
\* line (the docstring at global_sync.py:34-36).  A crash or a failed write in the
\* middle of an append costs at most one later append of those that returned.
CalmBufferIsLog ==
  calm => \A t \in Clients : Working(t) /\ work[t] \in {"none", "done"} =>
            /\ faults = 0 => tail = {} /\ ~garbled
            /\ lines <= acked /\ acked <= lines + faults
===============================================================================
